---------------------- MODULE ElasticThreadPoolProofs ----------------------
(* Proofs about ElasticThreadPool for any number of clients, tasks, workers. *)
EXTENDS ElasticThreadPool, TLAPS

(***************************************************************************)
(* Type correctness.  TypeOK alone is not inductive: the task a client     *)
(* queues or stores is not null because run() was called with one, and the *)
(* loop of shutdown() stays inside the pool.                               *)
(***************************************************************************)
ArgOK == \A c \in Clients :
            cl[c].pc \in {"acquire", "scan", "wake", "store", "signal"} => cl[c].arg \in Tasks
IdxOK == \A c \in Clients : cl[c].pc \in {"tell", "ring"} => cl[c].idx <= poolSize

TypeInv == TypeOK /\ ArgOK /\ IdxOK

\* The program counters by name: the provers are fast when the sets stay folded.
LEMMA ClientPCs ==
    /\ "idle" \in ClientPC /\ "acquire" \in ClientPC /\ "scan" \in ClientPC
    /\ "wake" \in ClientPC /\ "store" \in ClientPC /\ "signal" \in ClientPC
    /\ "release" \in ClientPC /\ "sacquire" \in ClientPC /\ "tell" \in ClientPC
    /\ "ring" \in ClientPC
BY DEF ClientPC

LEMMA ThreadPCs ==
    /\ "gone" \in ThreadPC /\ "wait" \in ThreadPC /\ "read" \in ThreadPC
    /\ "readShut" \in ThreadPC /\ "run" \in ThreadPC /\ "drain" \in ThreadPC
    /\ "clear" \in ThreadPC /\ "death" \in ThreadPC /\ "catch" \in ThreadPC
    /\ "restart" \in ThreadPC /\ "last" \in ThreadPC /\ "dying" \in ThreadPC
    /\ "handing" \in ThreadPC /\ "leave" \in ThreadPC
BY DEF ThreadPC

\* The bounds of the client's loop variables, as members of their ranges.
LEMMA Ranges ==
    /\ 1 \in Workers /\ 1 \in 1 .. MaxThreads + 1 /\ 0 \in 0 .. MaxThreads
    /\ \A w \in Workers : w \in 0 .. MaxThreads /\ w + 1 \in 1 .. MaxThreads + 1
    /\ \A d \in 0 .. MaxThreads : d # 0 => d \in Workers
BY MaxThreadsAssumption DEF Workers

LEMMA TypeInit == Init => TypeInv
<1> SUFFICES ASSUME Init PROVE TypeInv
  OBVIOUS
<1>1. PoolOK
  <2>1. isShutdown \in BOOLEAN /\ mutex \in Clients \cup {None} BY DEF Init
  <2>2. poolSize \in 0 .. MaxThreads BY Ranges DEF Init
  <2>3. queue \in Seq(Tasks) BY DEF Init
  <2>4. QED BY <2>1, <2>2, <2>3 DEF PoolOK
<1>7. HistoryOK BY DEF Init, HistoryOK
<1>2. WorkersOK BY DEF Init, WorkersOK
<1>3. ThreadsOK BY Ranges, ThreadPCs DEF Init, ThreadsOK
<1>4. ClientsOK BY Ranges, ClientPCs DEF Init, ClientsOK
<1>5. ArgOK /\ IdxOK BY DEF Init, ArgOK, IdxOK
<1>6. QED BY <1>1, <1>2, <1>3, <1>4, <1>5, <1>7 DEF TypeInv, TypeOK

\* What a client may write in its own fields: its place, and with it a bound of its loop,
\* the first dead worker, or the worker it has chosen.
LEMMA PcMoves ==
    ASSUME ClientsOK, NEW c \in Clients, NEW p \in ClientPC, cl' = [cl EXCEPT ![c].pc = p]
    PROVE  ClientsOK'
BY DEF ClientsOK

LEMMA PcArgMove ==
    ASSUME ClientsOK, NEW c \in Clients, NEW p \in ClientPC, NEW a \in Tasks \cup {None},
           cl' = [cl EXCEPT ![c].pc = p, ![c].arg = a]
    PROVE  ClientsOK'
BY DEF ClientsOK

LEMMA PcIdxMove ==
    ASSUME ClientsOK, NEW c \in Clients, NEW p \in ClientPC, NEW i \in 1 .. MaxThreads + 1,
           cl' = [cl EXCEPT ![c].idx = i, ![c].pc = p]
    PROVE  ClientsOK'
<1> DEFINE I == 1 .. MaxThreads + 1
<1> i \in I OBVIOUS
<1> HIDE DEF I
<1> QED BY DEF ClientsOK, I

LEMMA ScanMove ==
    ASSUME ClientsOK, NEW c \in Clients, NEW p \in ClientPC, NEW i \in 1 .. MaxThreads + 1,
           NEW d \in 0 .. MaxThreads,
           cl' = [cl EXCEPT ![c].pc = p, ![c].idx = i, ![c].deadWorker = d]
    PROVE  ClientsOK'
<1> DEFINE I == 1 .. MaxThreads + 1
           D == 0 .. MaxThreads
<1> i \in I /\ d \in D OBVIOUS
<1> HIDE DEF I, D
<1> QED BY DEF ClientsOK, I, D

LEMMA PcTargetMove ==
    ASSUME ClientsOK, NEW c \in Clients, NEW p \in ClientPC, NEW v \in Workers,
           cl' = [cl EXCEPT ![c].pc = p, ![c].target = v]
    PROVE  ClientsOK'
BY DEF ClientsOK

\* A client's own fields keep their types; so do those it writes in a worker.
LEMMA TypeClient ==
    ASSUME TypeInv, NEW c \in Clients, CallRun(c) \/ CallShutdown(c) \/ ClientStep(c)
    PROVE  ClientsOK' /\ WorkersOK'
<1> ClientsOK /\ WorkersOK BY DEF TypeInv, TypeOK
<1> USE ClientPCs
<1>0. wk' = wk => WorkersOK' BY DEF WorkersOK
<1>1. CASE CallRun(c)
  <2>1. cl' = cl => ClientsOK' BY DEF ClientsOK
  <2>2. \/ cl' = cl
        \/ \E x \in Tasks : cl' = [cl EXCEPT ![c].pc = "acquire", ![c].arg = x]
    BY <1>1 DEF CallRun
  <2>3. wk' = wk BY <1>1 DEF CallRun
  <2>4. QED BY <1>0, <2>1, <2>2, <2>3, PcArgMove
<1>2. CASE CallShutdown(c)
  <2>1. cl' = [cl EXCEPT ![c].pc = "sacquire"] /\ wk' = wk BY <1>2 DEF CallShutdown
  <2>2. QED BY <1>0, <2>1, PcMoves
<1>3. CASE Acquire(c)
  <2>1. cl' = [cl EXCEPT ![c].pc = "scan", ![c].idx = 1, ![c].deadWorker = 0] /\ wk' = wk
    BY <1>3 DEF Acquire
  <2>2. ClientsOK' BY <2>1, Ranges, ScanMove
  <2>3. QED BY <1>0, <2>1, <2>2
<1>4. CASE NoNewWorker(c)
  <2>1. wk' = wk BY <1>4 DEF NoNewWorker
  <2>2. CASE cl[c].deadWorker # 0
    <3>1. cl[c].deadWorker \in Workers BY <2>2, Ranges DEF ClientsOK
    <3>2. cl' = [cl EXCEPT ![c].pc = "wake", ![c].target = cl[c].deadWorker]
      BY <1>4, <2>2 DEF NoNewWorker
    <3>3. QED BY <1>0, <2>1, <3>1, <3>2, PcTargetMove
  <2>3. CASE cl[c].deadWorker = 0
    <3>1. cl' = [cl EXCEPT ![c].pc = "release"] BY <1>4, <2>3 DEF NoNewWorker
    <3>2. QED BY <1>0, <2>1, <3>1, PcMoves
  <2>4. QED BY <2>2, <2>3
<1>5. CASE Release(c)
  <2>1. cl' = [cl EXCEPT ![c].pc = "idle", ![c].arg = None] /\ wk' = wk BY <1>5 DEF Release
  <2>2. QED BY <1>0, <2>1, PcArgMove
<1>6. CASE BeginShutdown(c)
  <2>1. wk' = wk BY <1>6 DEF BeginShutdown
  <2>2. PICK p \in ClientPC : cl' = [cl EXCEPT ![c].idx = 1, ![c].pc = p]
    BY <1>6 DEF BeginShutdown
  <2>3. QED BY <1>0, <2>1, <2>2, Ranges, PcIdxMove
<1>7. ASSUME NEW t \in Threads, NewWorker(c, t) PROVE ClientsOK' /\ WorkersOK'
  <2>1. poolSize + 1 \in Workers
    BY <1>7, MaxThreadsAssumption DEF NewWorker, CanGrow, TypeInv, TypeOK, PoolOK, Workers
  <2>2. cl' = [cl EXCEPT ![c].pc = "wake", ![c].target = poolSize + 1] /\ wk' = wk
    BY <1>7 DEF NewWorker
  <2>3. QED BY <1>0, <2>1, <2>2, PcTargetMove
<1>8. ASSUME NEW w \in Workers, Scan(c, w) PROVE ClientsOK' /\ WorkersOK'
  <2>1. wk' = wk BY <1>8 DEF Scan
  <2>2. PICK d \in 0 .. MaxThreads :
          \/ cl' = [cl EXCEPT ![c].deadWorker = d, ![c].pc = "wake", ![c].target = w]
          \/ cl' = [cl EXCEPT ![c].deadWorker = d, ![c].idx = w + 1]
    BY <1>8, Ranges DEF Scan, ClientsOK
  <2>3. CASE cl' = [cl EXCEPT ![c].deadWorker = d, ![c].pc = "wake", ![c].target = w]
    BY <1>0, <2>1, <2>3 DEF ClientsOK
  <2>4. CASE cl' = [cl EXCEPT ![c].deadWorker = d, ![c].idx = w + 1]
    BY <1>0, <2>1, <2>4, Ranges DEF ClientsOK
  <2>5. QED BY <2>2, <2>3, <2>4
<1>9. ASSUME NEW w \in Workers, WakeAlive(c, w) PROVE ClientsOK' /\ WorkersOK'
  <2>1. cl' = [cl EXCEPT ![c].pc = "store"] /\ wk' = [wk EXCEPT ![w].deathMutex = c]
    BY <1>9 DEF WakeAlive
  <2>2. WorkersOK' BY <2>1 DEF WorkersOK
  <2>3. QED BY <2>1, <2>2, PcMoves
<1>10. ASSUME NEW w \in Workers, NEW t \in Threads, WakeDead(c, w, t)
       PROVE ClientsOK' /\ WorkersOK'
  <2>1. /\ cl' = [cl EXCEPT ![c].pc = "store"]
        /\ wk' = [wk EXCEPT ![w].deathMutex = c, ![w].dead = FALSE]
    BY <1>10 DEF WakeDead
  <2>2. WorkersOK' BY <2>1 DEF WorkersOK
  <2>3. QED BY <2>1, <2>2, PcMoves
<1>11. ASSUME NEW w \in Workers, Store(c, w) PROVE ClientsOK' /\ WorkersOK'
  <2>1. cl' = [cl EXCEPT ![c].pc = "signal"] /\ wk' = [wk EXCEPT ![w].task = cl[c].arg]
    BY <1>11 DEF Store
  <2>2. cl[c].arg \in Tasks \cup {None} BY DEF ClientsOK
  <2>3. WorkersOK' BY <2>1, <2>2 DEF WorkersOK
  <2>4. QED BY <2>1, <2>3, PcMoves
<1>12. ASSUME NEW w \in Workers, Signal(c, w) PROVE ClientsOK' /\ WorkersOK'
  <2>1. wk[w].permits + 1 \in Nat BY DEF WorkersOK
  <2>2. /\ cl' = [cl EXCEPT ![c].pc = "release"]
        /\ wk' = [wk EXCEPT ![w].permits = wk[w].permits + 1, ![w].deathMutex = None]
    BY <1>12 DEF Signal
  <2>3. WorkersOK' BY <2>1, <2>2 DEF WorkersOK
  <2>4. QED BY <2>2, <2>3, PcMoves
<1>13. ASSUME NEW w \in Workers, Tell(c, w) PROVE ClientsOK' /\ WorkersOK'
  <2>1. cl' = [cl EXCEPT ![c].pc = "ring"] /\ wk' = [wk EXCEPT ![w].told = TRUE]
    BY <1>13 DEF Tell
  <2>2. WorkersOK' BY <2>1 DEF WorkersOK
  <2>3. QED BY <2>1, <2>2, PcMoves
<1>14. ASSUME NEW w \in Workers, Ring(c, w) PROVE ClientsOK' /\ WorkersOK'
  <2>1. wk[w].permits + 1 \in Nat BY DEF WorkersOK
  <2>2. wk' = [wk EXCEPT ![w].permits = wk[w].permits + 1] BY <1>14 DEF Ring
  <2>3. WorkersOK' BY <2>1, <2>2 DEF WorkersOK
  <2>4. PICK p \in ClientPC : cl' = [cl EXCEPT ![c].idx = w + 1, ![c].pc = p]
    BY <1>14 DEF Ring, NextToStop
  <2>5. w + 1 \in 1 .. MaxThreads + 1 BY Ranges
  <2>6. QED BY <2>3, <2>4, <2>5, PcIdxMove
<1>15. QED BY <1>1, <1>2, <1>3, <1>4, <1>5, <1>6, <1>7, <1>8, <1>9, <1>10, <1>11, <1>12,
              <1>13, <1>14 DEF ClientStep

\* The task of a call in progress is not null, and shutdown() stays in the pool.
LEMMA LocalsClient ==
    ASSUME TypeInv, NEW c \in Clients, CallRun(c) \/ CallShutdown(c) \/ ClientStep(c)
    PROVE  ArgOK' /\ IdxOK'
<1> poolSize \in Nat
  BY MaxThreadsAssumption DEF TypeInv, TypeOK, PoolOK
<1> USE DEF TypeInv, TypeOK, ClientsOK, ArgOK, IdxOK, pool
<1>1. CASE CallRun(c)        BY <1>1 DEF CallRun
<1>2. CASE CallShutdown(c)   BY <1>2 DEF CallShutdown
<1>3. CASE Acquire(c)        BY <1>3 DEF Acquire
<1>4. CASE NoNewWorker(c)
  <2>1. poolSize' = poolSize /\ cl[c].arg \in Tasks BY <1>4 DEF NoNewWorker, NotSubmitted
  <2>2. /\ \A d \in Clients : d # c => cl'[d] = cl[d]
        /\ cl'[c].pc \in {"wake", "release"} /\ cl'[c].arg = cl[c].arg
    BY <1>4 DEF NoNewWorker
  <2>3. QED BY <2>1, <2>2
<1>5. CASE Release(c)        BY <1>5 DEF Release
<1>6. CASE BeginShutdown(c)  BY <1>6 DEF BeginShutdown
<1>7. ASSUME NEW t \in Threads, NewWorker(c, t) PROVE ArgOK' /\ IdxOK'
  BY <1>7, Ranges DEF NewWorker, NotSubmitted
<1>8. ASSUME NEW w \in Workers, Scan(c, w) PROVE ArgOK' /\ IdxOK'
  BY <1>8 DEF Scan
<1>9. ASSUME NEW w \in Workers, WakeAlive(c, w) PROVE ArgOK' /\ IdxOK'
  BY <1>9 DEF WakeAlive, Waking
<1>10. ASSUME NEW w \in Workers, NEW t \in Threads, WakeDead(c, w, t)
       PROVE ArgOK' /\ IdxOK'
  BY <1>10 DEF WakeDead, Waking
<1>11. ASSUME NEW w \in Workers, Store(c, w) PROVE ArgOK' /\ IdxOK'
  BY <1>11 DEF Store, Waking
<1>12. ASSUME NEW w \in Workers, Signal(c, w) PROVE ArgOK' /\ IdxOK'
  BY <1>12 DEF Signal
<1>13. ASSUME NEW w \in Workers, Tell(c, w) PROVE ArgOK' /\ IdxOK'
  BY <1>13 DEF Tell, Stopping
<1>14. ASSUME NEW w \in Workers, Ring(c, w) PROVE ArgOK' /\ IdxOK'
  BY <1>14 DEF Ring, NextToStop, Stopping, Workers
<1>15. QED BY <1>1, <1>2, <1>3, <1>4, <1>5, <1>6, <1>7, <1>8, <1>9, <1>10, <1>11, <1>12,
              <1>13, <1>14 DEF ClientStep

\* The variables of the pool, the threads and the history keep their types.
LEMMA TypeClientRest ==
    ASSUME TypeInv, NEW c \in Clients, CallRun(c) \/ CallShutdown(c) \/ ClientStep(c)
    PROVE  PoolOK' /\ ThreadsOK' /\ HistoryOK'
<1> MaxThreads \in Nat BY MaxThreadsAssumption
<1> USE DEF TypeInv, TypeOK, PoolOK, ThreadsOK, HistoryOK, pool
<1>1. CASE CallRun(c)        BY <1>1 DEF CallRun
<1>2. CASE CallShutdown(c)   BY <1>2 DEF CallShutdown
<1>3. CASE Acquire(c)        BY <1>3 DEF Acquire
<1>4. CASE NoNewWorker(c)
  <2>1. cl[c].arg \in Tasks BY <1>4 DEF NoNewWorker, NotSubmitted, ArgOK
  <2>2. Append(queue, cl[c].arg) \in Seq(Tasks) BY <2>1
  <2>3. queue' \in Seq(Tasks) BY <1>4, <2>2 DEF NoNewWorker
  <2>4. QED BY <1>4, <2>3 DEF NoNewWorker
<1>5. CASE Release(c)        BY <1>5 DEF Release
<1>6. CASE BeginShutdown(c)  BY <1>6 DEF BeginShutdown
<1>7. ASSUME NEW t \in Threads, NewWorker(c, t) PROVE PoolOK' /\ ThreadsOK' /\ HistoryOK'
  <2>1. poolSize + 1 \in 0 .. MaxThreads /\ poolSize + 1 \in Workers
    BY <1>7 DEF NewWorker, CanGrow, Workers
  <2>2. th' = [th EXCEPT ![t] = [pc |-> "wait", of |-> poolSize + 1, fn |-> None]]
    BY <1>7 DEF NewWorker, Started
  <2>3. ThreadsOK' BY <2>1, <2>2, ThreadPCs
  <2>4. QED BY <1>7, <2>1, <2>3 DEF NewWorker
<1>8. ASSUME NEW w \in Workers, NEW t \in Threads, WakeDead(c, w, t)
      PROVE PoolOK' /\ ThreadsOK' /\ HistoryOK'
  <2>1. th' = [th EXCEPT ![t] = [pc |-> "wait", of |-> w, fn |-> None]]
    BY <1>8 DEF WakeDead, Started
  <2>2. ThreadsOK' BY <2>1, ThreadPCs
  <2>3. QED BY <1>8, <2>2 DEF WakeDead
<1>9. ASSUME NEW w \in Workers,
             Scan(c, w) \/ WakeAlive(c, w) \/ Store(c, w) \/ Signal(c, w)
                        \/ Tell(c, w) \/ Ring(c, w)
      PROVE PoolOK' /\ ThreadsOK' /\ HistoryOK'
  BY <1>9 DEF Scan, WakeAlive, Store, Signal, Tell, Ring
<1>10. QED BY <1>1, <1>2, <1>3, <1>4, <1>5, <1>6, <1>7, <1>8, <1>9 DEF ClientStep

\* The types hold after every step of a worker thread.
LEMMA TypeThread ==
    ASSUME TypeInv, NEW t \in Threads, NEW w \in Workers, ThreadStep(t, w) \/ TimeOut(t, w)
    PROVE  TypeInv'
<1> USE DEF TypeInv, TypeOK, pool, At
<1>1. ArgOK' /\ IdxOK' /\ ClientsOK'
  <2>1. cl' = cl /\ poolSize' = poolSize
    BY DEF ThreadStep, TakePermit, TimeOut, ReadTask, ReadShutdown, Return, Throw, Drain,
           Clear, EnterDeath, LookAgain, Die, LeaveDeath, Catch, HandOver, Restart
  <2>2. QED BY <2>1 DEF ArgOK, IdxOK, ClientsOK
<1>2. PoolOK'
  <2>1. CASE Drain(t, w)
    <3>a. queue \in Seq(Tasks) BY DEF PoolOK
    <3>b. queue' = queue \/ (queue # <<>> /\ queue' = Tail(queue)) BY <2>1 DEF Drain
    <3>c. ASSUME NEW q \in Seq(Tasks), q # <<>> PROVE Tail(q) \in Seq(Tasks)
      BY ONLY <3>c
    <3>1. queue' \in Seq(Tasks)
      <4>1. CASE queue' = queue BY ONLY <3>a, <4>1
      <4>2. CASE queue # <<>> /\ queue' = Tail(queue) BY ONLY <3>a, <3>c, <4>2
      <4>3. QED BY ONLY <3>b, <4>1, <4>2
    <3>2. UNCHANGED <<isShutdown, poolSize, mutex>> BY <2>1 DEF Drain
    <3>3. QED BY <3>1, <3>2 DEF PoolOK
  <2>2. CASE ~Drain(t, w)
    <3>1. UNCHANGED pool
      BY <2>2 DEF ThreadStep, TakePermit, TimeOut, ReadTask, ReadShutdown, Return, Throw,
         Clear, EnterDeath, LookAgain, Die, LeaveDeath, Catch, HandOver, Restart
    <3>2. QED BY <3>1 DEF PoolOK
  <2>3. QED BY <2>1, <2>2
<1>3. WorkersOK'
  <2> USE DEF WorkersOK
  <2>1. CASE TakePermit(t, w)
    <3>1. wk[w].permits - 1 \in Nat BY <2>1 DEF TakePermit
    <3>2. QED BY <2>1, <3>1 DEF TakePermit
  <2>2. CASE Clear(t, w) \/ Catch(t, w) BY <2>2 DEF Clear, Catch
  <2>3. CASE EnterDeath(t, w) \/ Die(t, w) \/ LeaveDeath(t, w)
    <3>1. CASE EnterDeath(t, w)
      <4>1. wk' = [wk EXCEPT ![w].deathMutex = t] BY <3>1 DEF EnterDeath
      <4>2. QED BY ONLY WorkersOK, <4>1 DEF WorkersOK
    <3>2. CASE Die(t, w)
      <4>1. wk' = [wk EXCEPT ![w].dead = TRUE] BY <3>2 DEF Die
      <4>2. QED BY ONLY WorkersOK, <4>1 DEF WorkersOK
    <3>3. CASE LeaveDeath(t, w)
      <4>1. wk' = [wk EXCEPT ![w].deathMutex = None] BY <3>3 DEF LeaveDeath
      <4>2. QED BY ONLY WorkersOK, <4>1 DEF WorkersOK
    <3>4. QED BY <2>3, <3>1, <3>2, <3>3
  <2>4. ASSUME NEW s \in Threads, HandOver(t, w, s) \/ Restart(t, w, s) PROVE WorkersOK'
    <3>1. wk' = [wk EXCEPT ![w].dead = FALSE] BY <2>4 DEF HandOver, Restart
    <3>2. QED BY ONLY WorkersOK, <3>1 DEF WorkersOK
  <2>5. CASE TimeOut(t, w) \/ ReadTask(t, w) \/ ReadShutdown(t, w) \/ Return(t, w)
             \/ Throw(t, w) \/ Drain(t, w) \/ LookAgain(t, w)
    BY <2>5 DEF TimeOut, ReadTask, ReadShutdown, Return, Throw, Drain, LookAgain
  <2>6. QED BY <2>1, <2>2, <2>3, <2>4, <2>5 DEF ThreadStep
<1>4. HistoryOK'
  <2>1. ASSUME NEW x \in Tasks, Begin(t, x), fate' = fate PROVE HistoryOK'
    BY <2>1 DEF HistoryOK, Begin
  <2>2. CASE ReadTask(t, w)
    <3>1. wk[w].task \in Tasks \cup {None} BY DEF WorkersOK
    <3>2. QED BY <2>1, <2>2, <3>1 DEF ReadTask, HistoryOK
  <2>3. CASE Drain(t, w)
    <3>1. queue # <<>> => Head(queue) \in Tasks BY DEF PoolOK
    <3>2. QED BY <2>1, <2>3, <3>1 DEF Drain, HistoryOK
  <2>4. QED
    BY <2>2, <2>3 DEF HistoryOK, ThreadStep, TakePermit, TimeOut, ReadShutdown, Return,
       Throw, Clear, EnterDeath, LookAgain, Die, LeaveDeath, Catch, HandOver, Restart
<1>5. ThreadsOK'
  <2> USE ThreadPCs DEF ThreadsOK
  <2>1. CASE ReadTask(t, w)
    <3>1. wk[w].task \in Tasks \cup {None} BY DEF WorkersOK
    <3>2. QED BY <2>1, <3>1 DEF ReadTask, Begin
  <2>2. CASE Drain(t, w)
    <3>1. queue # <<>> => Head(queue) \in Tasks BY DEF PoolOK
    <3>2. QED BY <2>2, <3>1 DEF Drain, Begin
  <2>3. ASSUME NEW s \in Threads, HandOver(t, w, s) \/ Restart(t, w, s) PROVE ThreadsOK'
    <3>1. PICK p \in {"leave", "gone"} :
            th' = [th EXCEPT ![t].pc = p, ![s] = [pc |-> "wait", of |-> w, fn |-> None]]
      BY <2>3 DEF HandOver, Restart, Started
    <3>2. QED BY <3>1
  <2>4. CASE TakePermit(t, w) \/ TimeOut(t, w) \/ ReadShutdown(t, w) \/ Return(t, w)
    BY <2>4 DEF TakePermit, TimeOut, ReadShutdown, Return
  <2>5. CASE Throw(t, w) \/ Clear(t, w) \/ Die(t, w) \/ Catch(t, w) \/ EnterDeath(t, w)
             \/ LookAgain(t, w) \/ LeaveDeath(t, w)
    BY <2>5 DEF Throw, Clear, Die, Catch, EnterDeath, LookAgain, LeaveDeath
  <2>6. QED BY <2>1, <2>2, <2>3, <2>4, <2>5 DEF ThreadStep
<1>6. QED BY <1>1, <1>2, <1>3, <1>4, <1>5

LEMMA TypeStep == TypeInv /\ [Next]_vars => TypeInv'
<1> SUFFICES ASSUME TypeInv, [Next]_vars PROVE TypeInv'
  OBVIOUS
<1>1. CASE UNCHANGED vars
  BY <1>1 DEF TypeInv, TypeOK, PoolOK, WorkersOK, ThreadsOK, ClientsOK, HistoryOK, ArgOK,
              IdxOK, vars, pool
<1>2. ASSUME NEW c \in Clients, CallRun(c) \/ CallShutdown(c) \/ ClientStep(c)
      PROVE TypeInv'
  <2>1. ClientsOK' /\ WorkersOK'               BY <1>2, TypeClient
  <2>2. ArgOK' /\ IdxOK'                       BY <1>2, LocalsClient
  <2>3. PoolOK' /\ ThreadsOK' /\ HistoryOK'    BY <1>2, TypeClientRest
  <2>4. QED BY <2>1, <2>2, <2>3 DEF TypeInv, TypeOK
<1>3. ASSUME NEW t \in Threads, NEW w \in Workers, ThreadStep(t, w) \/ TimeOut(t, w)
      PROVE TypeInv'
  BY <1>3, TypeThread
<1>4. QED BY <1>1, <1>2, <1>3 DEF Next, Terminated

\* Every variable keeps its type: a queued or stored task is never null, and the
\* loops over the pool stay inside it.
THEOREM TypeCorrect == Spec => []TypeOK
<1>1. TypeInv => TypeOK BY DEF TypeInv
<1>2. QED BY <1>1, TypeInit, TypeStep, PTL DEF Spec

-----------------------------------------------------------------------------
(***************************************************************************)
(* One thread per worker.  Inductive together with the fact that a worker  *)
(* that does not exist yet is not marked dead, so that only a worker of    *)
(* the pool is ever revived.                                               *)
(***************************************************************************)
UnusedNotDead == \A w \in Workers : w > poolSize => ~wk[w].dead
ThreadInv == TypeInv /\ OneThreadPerWorker /\ UnusedNotDead

\* Two ways a step changes who serves whom: not at all, or thread s takes worker
\* w over from thread t, if w had one.
Unmoved == \A t \in Threads, w \in Workers : Serving(t, w)' <=> Serving(t, w)

LEMMA ServingUnmoved ==
    ASSUME ThreadInv, Unmoved, poolSize' = poolSize,
           \A w \in Workers : wk'[w].dead = wk[w].dead
    PROVE  OneThreadPerWorker' /\ UnusedNotDead'
BY DEF ThreadInv, Unmoved, OneThreadPerWorker, UnusedNotDead

LEMMA ThreadInvClient ==
    ASSUME ThreadInv, NEW c \in Clients, CallRun(c) \/ CallShutdown(c) \/ ClientStep(c)
    PROVE  OneThreadPerWorker' /\ UnusedNotDead'
<1> USE DEF ThreadInv, TypeInv, TypeOK
<1>1. ASSUME NEW t \in Threads, NewWorker(c, t)
      PROVE OneThreadPerWorker' /\ UnusedNotDead'
  <2> DEFINE v == poolSize + 1
  <2>1. poolSize \in Nat /\ v \in Workers /\ wk' = wk
    BY <1>1, MaxThreadsAssumption DEF NewWorker, CanGrow, PoolOK, Workers
  <2>2. ~wk[v].dead /\ \A s \in Threads : ~Serving(s, v)
    BY <2>1 DEF UnusedNotDead, OneThreadPerWorker
  <2>3. \A s \in Threads, w \in Workers : Serving(s, w)' <=> \/ s = t /\ w = v
                                                            \/ Serving(s, w)
    BY <1>1, <2>1 DEF NewWorker, Gone, Started, Serving, ThreadsOK
  <2>4. poolSize' = v BY <1>1 DEF NewWorker
  <2> HIDE DEF v
  <2>5. v = poolSize + 1 BY DEF v
  <2>6. ASSUME NEW w \in Workers
        PROVE IF w <= poolSize' /\ ~wk'[w].dead
              THEN \E x \in Threads : \A s \in Threads : Serving(s, w)' <=> s = x
              ELSE \A x \in Threads : ~Serving(x, w)'
    <3>1. CASE w = v
      BY <2>1, <2>2, <2>3, <2>4, <3>1 DEF Workers
    <3>2. CASE w # v
      <4>1. w <= poolSize' <=> w <= poolSize BY <2>1, <2>4, <2>5, <3>2 DEF Workers
      <4>2. \A s \in Threads : Serving(s, w)' <=> Serving(s, w) BY <2>3, <3>2
      <4>3. QED BY <2>1, <4>1, <4>2 DEF OneThreadPerWorker
    <3>3. QED BY <3>1, <3>2
  <2>7. OneThreadPerWorker' BY <2>6 DEF OneThreadPerWorker
  <2>8. UnusedNotDead' BY <2>1, <2>4, <2>5 DEF UnusedNotDead, Workers
  <2>9. QED BY <2>7, <2>8
<1>2. ASSUME NEW v \in Workers, NEW t \in Threads, WakeDead(c, v, t)
      PROVE OneThreadPerWorker' /\ UnusedNotDead'
  <2>1. wk[v].dead /\ v <= poolSize /\ \A s \in Threads : ~Serving(s, v)
    BY <1>2 DEF WakeDead, OneThreadPerWorker, UnusedNotDead, PoolOK, Workers
  <2>2. \A s \in Threads, w \in Workers : Serving(s, w)' <=> \/ s = t /\ w = v
                                                            \/ Serving(s, w)
    BY <1>2 DEF WakeDead, Gone, Started, Serving, ThreadsOK
  <2>3. poolSize' = poolSize /\ \A w \in Workers : wk'[w].dead = (w # v /\ wk[w].dead)
    BY <1>2 DEF WakeDead, WorkersOK, pool
  <2>4. OneThreadPerWorker'
    <3> SUFFICES ASSUME NEW w \in Workers
                 PROVE IF w <= poolSize' /\ ~wk'[w].dead
                       THEN \E x \in Threads : \A s \in Threads : Serving(s, w)' <=> s = x
                       ELSE \A x \in Threads : ~Serving(x, w)'
      BY DEF OneThreadPerWorker
    <3>1. CASE w = v
      <4>1. w <= poolSize' /\ ~wk'[w].dead BY <2>1, <2>3, <3>1
      <4>2. \A s \in Threads : Serving(s, w)' <=> s = t BY <2>1, <2>2, <3>1
      <4>3. QED BY <4>1, <4>2
    <3>2. CASE w # v
      <4>1. \A s \in Threads : Serving(s, w)' <=> Serving(s, w) BY <2>2, <3>2
      <4>2. (w <= poolSize' /\ ~wk'[w].dead) <=> (w <= poolSize /\ ~wk[w].dead)
        BY <2>3, <3>2
      <4>3. QED BY <4>1, <4>2 DEF OneThreadPerWorker
    <3>3. QED BY <3>1, <3>2
  <2>5. UnusedNotDead' BY <2>3 DEF UnusedNotDead
  <2>6. QED BY <2>4, <2>5
<1>3. ASSUME CallRun(c) \/ CallShutdown(c) \/ Acquire(c) \/ NoNewWorker(c) \/ Release(c)
             \/ BeginShutdown(c)
      PROVE OneThreadPerWorker' /\ UnusedNotDead'
  <2>1. th' = th /\ wk' = wk /\ poolSize' = poolSize
    BY <1>3 DEF CallRun, CallShutdown, Acquire, NoNewWorker, Release, BeginShutdown, pool
  <2>2. QED BY <2>1, ServingUnmoved DEF Unmoved, Serving
<1>4. ASSUME NEW v \in Workers, Scan(c, v) \/ WakeAlive(c, v) \/ Store(c, v)
                                \/ Signal(c, v) \/ Tell(c, v) \/ Ring(c, v)
      PROVE OneThreadPerWorker' /\ UnusedNotDead'
  <2>1. th' = th /\ poolSize' = poolSize
    BY <1>4 DEF Scan, WakeAlive, Store, Signal, Tell, Ring, pool
  <2>2. \A w \in Workers : wk'[w].dead = wk[w].dead
    BY <1>4 DEF Scan, WakeAlive, Store, Signal, Tell, Ring, pool, WorkersOK
  <2>3. QED BY <2>1, <2>2, ServingUnmoved DEF Unmoved, Serving
<1>5. QED BY <1>1, <1>2, <1>3, <1>4 DEF ClientStep

LEMMA ThreadInvThread ==
    ASSUME ThreadInv, NEW t \in Threads, NEW v \in Workers, ThreadStep(t, v) \/ TimeOut(t, v)
    PROVE  OneThreadPerWorker' /\ UnusedNotDead'
<1> USE DEF ThreadInv, TypeInv, TypeOK
<1>5. CASE LeaveDeath(t, v)
  <2>1. poolSize' = poolSize BY <1>5 DEF LeaveDeath, pool
  <2>2. Unmoved BY <1>5 DEF LeaveDeath, At, Serving, Unmoved, ThreadsOK
  <2>3. \A w \in Workers : wk'[w].dead = wk[w].dead BY <1>5 DEF LeaveDeath, WorkersOK
  <2>4. QED BY <2>1, <2>2, <2>3, ServingUnmoved
<1> SUFFICES ASSUME ~LeaveDeath(t, v) PROVE OneThreadPerWorker' /\ UnusedNotDead'
  BY <1>5
<1>0. poolSize' = poolSize /\ Serving(t, v)
  BY DEF ThreadStep, TakePermit, TimeOut, ReadTask, ReadShutdown, Return, Throw, Drain,
         Clear, EnterDeath, LookAgain, Die, Catch, HandOver, Restart, pool, At, Serving
<1>1. /\ v <= poolSize /\ ~wk[v].dead
      /\ \A s \in Threads : Serving(s, v) <=> s = t
  BY <1>0 DEF OneThreadPerWorker
<1>2. CASE Die(t, v)
  <2>1. \A s \in Threads, w \in Workers : Serving(s, w)' <=> Serving(s, w) /\ s # t
    BY <1>2 DEF Die, At, Serving, ThreadsOK
  <2>2. \A w \in Workers : wk'[w].dead = (w = v \/ wk[w].dead)
    BY <1>2 DEF Die, WorkersOK
  <2>3. \A w \in Workers : w # v => ~Serving(t, w) BY <1>0 DEF Serving
  <2>4. OneThreadPerWorker'
    <3> SUFFICES ASSUME NEW w \in Workers
                 PROVE IF w <= poolSize' /\ ~wk'[w].dead
                       THEN \E x \in Threads : \A s \in Threads : Serving(s, w)' <=> s = x
                       ELSE \A x \in Threads : ~Serving(x, w)'
      BY DEF OneThreadPerWorker
    <3>1. CASE w = v
      <4>1. wk'[w].dead BY <2>2, <3>1
      <4>2. \A x \in Threads : ~Serving(x, w)' BY <1>1, <2>1, <3>1
      <4>3. QED BY <4>1, <4>2
    <3>2. CASE w # v
      <4>1. \A s \in Threads : Serving(s, w)' <=> Serving(s, w) BY <2>1, <2>3, <3>2
      <4>2. (w <= poolSize' /\ ~wk'[w].dead) <=> (w <= poolSize /\ ~wk[w].dead)
        BY <1>0, <2>2, <3>2
      <4>3. QED BY <4>1, <4>2 DEF OneThreadPerWorker
    <3>3. QED BY <3>1, <3>2
  <2>5. UnusedNotDead'
    <3>1. \A w \in Workers : w > poolSize => w # v
      BY <1>1 DEF PoolOK, Workers
    <3>2. QED BY <1>0, <2>2, <3>1 DEF UnusedNotDead
  <2>6. QED BY <2>4, <2>5
<1>3. ASSUME NEW s \in Threads, HandOver(t, v, s) \/ Restart(t, v, s)
      PROVE OneThreadPerWorker' /\ UnusedNotDead'
  <2>1. s # t /\ Gone(s) BY <1>3 DEF HandOver, Restart, At, Gone
  <2>2. PICK p \in {"leave", "gone"} :
          th' = [th EXCEPT ![t].pc = p, ![s] = [pc |-> "wait", of |-> v, fn |-> None]]
    BY <1>3 DEF HandOver, Restart, Started
  <2>3. \A x \in Threads, w \in Workers :
           Serving(x, w)' <=> (x = s /\ w = v) \/ (Serving(x, w) /\ x # t)
    BY <2>1, <2>2 DEF Serving, ThreadsOK, Gone
  <2>4. \A w \in Workers : wk'[w].dead = wk[w].dead
    BY <1>1, <1>3 DEF HandOver, Restart, WorkersOK
  <2>5. \A w \in Workers : w # v => ~Serving(t, w) BY <1>0 DEF Serving
  <2>6. OneThreadPerWorker'
    <3>1. \A x \in Threads : Serving(x, v)' <=> x = s BY <1>1, <2>1, <2>3
    <3>2. \A w \in Workers : w # v => \A x \in Threads : Serving(x, w)' <=> Serving(x, w)
      BY <2>3, <2>5
    <3> SUFFICES ASSUME NEW w \in Workers
                 PROVE IF w <= poolSize' /\ ~wk'[w].dead
                       THEN \E x \in Threads : \A y \in Threads : Serving(y, w)' <=> y = x
                       ELSE \A x \in Threads : ~Serving(x, w)'
      BY DEF OneThreadPerWorker
    <3>3. CASE w = v
      <4>1. w <= poolSize' /\ ~wk'[w].dead BY <1>0, <1>1, <2>4, <3>3
      <4>2. QED BY <3>1, <3>3, <4>1
    <3>4. CASE w # v
      <4>1. (w <= poolSize' /\ ~wk'[w].dead) <=> (w <= poolSize /\ ~wk[w].dead)
        BY <1>0, <2>4
      <4>2. QED BY <3>2, <3>4, <4>1 DEF OneThreadPerWorker
    <3>5. QED BY <3>3, <3>4
  <2>7. UnusedNotDead' BY <1>0, <2>4 DEF UnusedNotDead
  <2>8. QED BY <2>6, <2>7
<1>4. ASSUME TakePermit(t, v) \/ TimeOut(t, v) \/ ReadTask(t, v) \/ ReadShutdown(t, v)
             \/ Return(t, v) \/ Throw(t, v) \/ Drain(t, v) \/ Clear(t, v) \/ Catch(t, v)
             \/ EnterDeath(t, v) \/ LookAgain(t, v)
      PROVE OneThreadPerWorker' /\ UnusedNotDead'
  <2>1. Unmoved
    BY <1>4 DEF TakePermit, TimeOut, ReadTask, ReadShutdown, Return, Throw, Drain, Clear,
                Catch, EnterDeath, LookAgain, At, Begin, Serving, Unmoved, ThreadsOK
  <2>2. \A w \in Workers : wk'[w].dead = wk[w].dead
    BY <1>4 DEF TakePermit, TimeOut, ReadTask, ReadShutdown, Return, Throw, Drain, Clear,
                Catch, EnterDeath, LookAgain, WorkersOK
  <2>3. QED BY <1>0, <2>1, <2>2, ServingUnmoved
<1>6. QED BY <1>2, <1>3, <1>4 DEF ThreadStep

LEMMA ThreadInvInit == Init => ThreadInv
<1>1. Init => OneThreadPerWorker /\ UnusedNotDead
  <2> SUFFICES ASSUME Init PROVE OneThreadPerWorker /\ UnusedNotDead
    OBVIOUS
  <2>2. \A w \in Workers : ~(w <= poolSize) BY DEF Init, Workers
  <2>3. \A w \in Workers : ~wk[w].dead BY DEF Init
  <2>4. \A t \in Threads, w \in Workers : ~Serving(t, w) BY DEF Init, Serving
  <2>5. QED BY <2>2, <2>3, <2>4 DEF OneThreadPerWorker, UnusedNotDead
<1>2. QED BY <1>1, TypeInit DEF ThreadInv

LEMMA ThreadInvStep == ThreadInv /\ [Next]_vars => ThreadInv'
<1> SUFFICES ASSUME ThreadInv, [Next]_vars PROVE ThreadInv'
  OBVIOUS
<1>1. TypeInv' BY TypeStep DEF ThreadInv
<1>2. OneThreadPerWorker' /\ UnusedNotDead'
  <2>1. CASE UNCHANGED vars
    BY <2>1 DEF ThreadInv, OneThreadPerWorker, UnusedNotDead, Serving, vars, pool
  <2>2. ASSUME NEW c \in Clients, CallRun(c) \/ CallShutdown(c) \/ ClientStep(c)
        PROVE OneThreadPerWorker' /\ UnusedNotDead'
    BY <2>2, ThreadInvClient
  <2>3. ASSUME NEW t \in Threads, NEW w \in Workers, ThreadStep(t, w) \/ TimeOut(t, w)
        PROVE OneThreadPerWorker' /\ UnusedNotDead'
    BY <2>3, ThreadInvThread
  <2>4. QED BY <2>1, <2>2, <2>3 DEF Next, Terminated
<1>3. QED BY <1>1, <1>2 DEF ThreadInv

\* At every moment a worker that is not dead has exactly one thread in its loop
\* and a dead one none, whatever the time-outs, revivals and exceptions.
THEOREM OneThread == Spec => []OneThreadPerWorker
<1>1. ThreadInv => OneThreadPerWorker BY DEF ThreadInv
<1>2. QED BY <1>1, ThreadInvInit, ThreadInvStep, PTL DEF Spec

-----------------------------------------------------------------------------
(***************************************************************************)
(* Locks.  The program counter of a client or of a worker's thread         *)
(* determines what it holds.                                               *)
(***************************************************************************)
Locked == {"scan", "wake", "store", "signal", "release", "tell", "ring"}

MutexOwner == \A c \in Clients : cl[c].pc \in Locked <=> mutex = c
DeathOwner == \A c \in Clients, w \in Workers :
                 wk[w].deathMutex = c <=> cl[c].pc \in {"store", "signal"} /\ cl[c].target = w
Deciding == {"last", "dying", "handing", "leave"}
DeathThread == \A t \in Threads, w \in Workers :
                 wk[w].deathMutex = t <=> th[t].pc \in Deciding /\ th[t].of = w
LockInv == TypeInv /\ MutexOwner /\ DeathOwner /\ DeathThread

LEMMA LockInvInit == Init => LockInv
<1> SUFFICES ASSUME Init PROVE LockInv
  OBVIOUS
<1>1. MutexOwner BY NoneAssumption DEF Init, MutexOwner, Locked
<1>2. DeathOwner BY NoneAssumption DEF Init, DeathOwner
<1>3. DeathThread BY NoneAssumption DEF Init, DeathThread, Deciding
<1>4. QED BY <1>1, <1>2, <1>3, TypeInit DEF LockInv

LEMMA LockInvClient ==
    ASSUME LockInv, NEW c \in Clients, CallRun(c) \/ CallShutdown(c) \/ ClientStep(c)
    PROVE  MutexOwner' /\ DeathOwner'
<1> USE NoneAssumption, ThreadsAssumption
    DEF LockInv, TypeInv, TypeOK, ClientsOK, WorkersOK, MutexOwner,
                           DeathOwner, Locked, pool
<1>1. CASE CallRun(c) BY <1>1 DEF CallRun
<1>2. CASE CallShutdown(c) BY <1>2 DEF CallShutdown
<1>3. CASE Acquire(c) BY <1>3 DEF Acquire
<1>4. CASE NoNewWorker(c) BY <1>4 DEF NoNewWorker, NotSubmitted
<1>5. CASE Release(c) BY <1>5 DEF Release
<1>6. CASE BeginShutdown(c) BY <1>6 DEF BeginShutdown
<1>7. ASSUME NEW t \in Threads, NewWorker(c, t) PROVE MutexOwner' /\ DeathOwner'
  BY <1>7 DEF NewWorker, NotSubmitted
<1>8. ASSUME NEW w \in Workers, Scan(c, w) PROVE MutexOwner' /\ DeathOwner'
  BY <1>8 DEF Scan
<1>9. ASSUME NEW w \in Workers, WakeAlive(c, w) PROVE MutexOwner' /\ DeathOwner'
  BY <1>9 DEF WakeAlive, Waking
<1>10. ASSUME NEW w \in Workers, NEW t \in Threads, WakeDead(c, w, t)
       PROVE MutexOwner' /\ DeathOwner'
  BY <1>10 DEF WakeDead, Waking
<1>11. ASSUME NEW w \in Workers, Store(c, w) PROVE MutexOwner' /\ DeathOwner'
  BY <1>11 DEF Store, Waking
<1>12. ASSUME NEW w \in Workers, Signal(c, w) PROVE MutexOwner' /\ DeathOwner'
  BY <1>12 DEF Signal, Waking
<1>13. ASSUME NEW w \in Workers, Tell(c, w) PROVE MutexOwner' /\ DeathOwner'
  BY <1>13 DEF Tell, Stopping
<1>14. ASSUME NEW w \in Workers, Ring(c, w) PROVE MutexOwner' /\ DeathOwner'
  BY <1>14 DEF Ring, NextToStop, Stopping
<1>15. QED BY <1>1, <1>2, <1>3, <1>4, <1>5, <1>6, <1>7, <1>8, <1>9, <1>10, <1>11, <1>12,
              <1>13, <1>14 DEF ClientStep

\* A client takes and releases deathMutex for itself and starts threads that are gone.
LEMMA DeathThreadClient ==
    ASSUME LockInv, NEW c \in Clients, CallRun(c) \/ CallShutdown(c) \/ ClientStep(c)
    PROVE  DeathThread'
<1> USE NoneAssumption, ThreadsAssumption
    DEF LockInv, TypeInv, TypeOK, WorkersOK, ThreadsOK, DeathThread, Deciding, pool
<1>1. ASSUME NEW t \in Threads, NewWorker(c, t) PROVE DeathThread'
  <2>1. /\ th[t].pc = "gone" /\ th'[t].pc = "wait" /\ wk' = wk
        /\ \A s \in Threads : s # t => th'[s] = th[s]
    BY <1>1 DEF NewWorker, Gone, Started
  <2>2. QED BY <2>1
<1>2. ASSUME NEW w \in Workers, WakeAlive(c, w) PROVE DeathThread'
  BY <1>2 DEF WakeAlive, Waking
<1>3. ASSUME NEW w \in Workers, NEW t \in Threads, WakeDead(c, w, t) PROVE DeathThread'
  <2>1. /\ th[t].pc = "gone" /\ th'[t].pc = "wait" /\ wk[w].deathMutex = None
        /\ wk'[w].deathMutex = c
        /\ \A v \in Workers : v # w => wk'[v] = wk[v]
        /\ \A s \in Threads : s # t => th'[s] = th[s]
    BY <1>3 DEF WakeDead, Gone, Started
  <2>2. \A s \in Threads : s # c /\ s # None OBVIOUS
  <2>3. QED BY <2>1, <2>2
<1>4. ASSUME NEW w \in Workers, Signal(c, w) PROVE DeathThread'
  <2>1. wk[w].deathMutex = c BY <1>4 DEF Signal, Waking, DeathOwner
  <2>2. QED BY <1>4, <2>1 DEF Signal
<1>5. CASE CallRun(c) \/ CallShutdown(c) \/ Acquire(c) \/ NoNewWorker(c) \/ Release(c)
           \/ BeginShutdown(c)
  BY <1>5 DEF CallRun, CallShutdown, Acquire, NoNewWorker, Release, BeginShutdown
<1>6. ASSUME NEW w \in Workers, Scan(c, w) \/ Store(c, w) \/ Tell(c, w) \/ Ring(c, w)
      PROVE DeathThread'
  <2>1. th' = th /\ \A v \in Workers : wk'[v].deathMutex = wk[v].deathMutex
    BY <1>6 DEF Scan, Store, Tell, Ring
  <2>2. QED BY <2>1
<1>7. QED BY <1>1, <1>2, <1>3, <1>4, <1>5, <1>6 DEF ClientStep

\* The thread of a worker takes deathMutex at the end of loop() and releases it.
LEMMA LockInvThread ==
    ASSUME LockInv, NEW t \in Threads, NEW v \in Workers, ThreadStep(t, v) \/ TimeOut(t, v)
    PROVE  MutexOwner' /\ DeathOwner' /\ DeathThread'
<1>0. ThreadsOK /\ WorkersOK BY DEF LockInv, TypeInv, TypeOK
<1>1. cl' = cl /\ mutex' = mutex
  BY DEF ThreadStep, TakePermit, TimeOut, ReadTask, ReadShutdown, Return, Throw, Drain,
         Clear, EnterDeath, LookAgain, Die, LeaveDeath, Catch, HandOver, Restart, pool
<1>2. MutexOwner' BY <1>1 DEF LockInv, MutexOwner
<1>3. CASE EnterDeath(t, v)
  <2>1. /\ wk[v].deathMutex = None /\ wk'[v].deathMutex = t
        /\ \A w \in Workers : w # v => wk'[w] = wk[w]
        /\ th[t].pc = "death" /\ th[t].of = v /\ th'[t].pc = "last" /\ th'[t].of = v
        /\ \A s \in Threads : s # t => th'[s] = th[s]
    BY <1>0, <1>3 DEF EnterDeath, At, ThreadsOK, WorkersOK
  <2>2. DeathOwner' BY <1>1, <2>1, NoneAssumption, ThreadsAssumption DEF LockInv, DeathOwner
  <2>3. DeathThread' BY <2>1, NoneAssumption DEF LockInv, DeathThread, Deciding
  <2>4. QED BY <1>2, <2>2, <2>3
<1>4. CASE LeaveDeath(t, v)
  <2>1. /\ wk'[v].deathMutex = None
        /\ \A w \in Workers : w # v => wk'[w] = wk[w]
        /\ th[t].pc = "leave" /\ th[t].of = v /\ th'[t].pc = "gone"
        /\ \A s \in Threads : s # t => th'[s] = th[s]
    BY <1>0, <1>4 DEF LeaveDeath, At, ThreadsOK, WorkersOK
  <2>2. wk[v].deathMutex = t BY <2>1 DEF LockInv, DeathThread, Deciding
  <2>3. DeathOwner' BY <1>1, <2>1, <2>2, NoneAssumption, ThreadsAssumption DEF LockInv, DeathOwner
  <2>4. DeathThread' BY <2>1, <2>2, NoneAssumption DEF LockInv, DeathThread, Deciding
  <2>5. QED BY <1>2, <2>3, <2>4
<1>5. ASSUME \A w \in Workers : wk'[w].deathMutex = wk[w].deathMutex,
             \A s \in Threads : \/ th'[s].of = th[s].of
                                   /\ (th'[s].pc \in Deciding <=> th[s].pc \in Deciding)
                                \/ th[s].pc \notin Deciding /\ th'[s].pc \notin Deciding
      PROVE  MutexOwner' /\ DeathOwner' /\ DeathThread'
  <2>1. DeathOwner' BY <1>1, <1>5 DEF LockInv, DeathOwner
  <2>2. DeathThread' BY <1>5 DEF LockInv, DeathThread
  <2>3. QED BY <1>2, <2>1, <2>2
<1>6. CASE TakePermit(t, v) \/ TimeOut(t, v) \/ ReadTask(t, v) \/ ReadShutdown(t, v)
           \/ Return(t, v) \/ Throw(t, v) \/ Drain(t, v) \/ Clear(t, v) \/ Catch(t, v)
           \/ LookAgain(t, v) \/ Die(t, v)
  <2>1. \A w \in Workers : wk'[w].deathMutex = wk[w].deathMutex
    BY <1>0, <1>6 DEF TakePermit, TimeOut, ReadTask, ReadShutdown, Return, Throw, Drain, Clear,
                      Catch, LookAgain, Die, WorkersOK
  <2>2. /\ th'[t].of = th[t].of /\ (th'[t].pc \in Deciding <=> th[t].pc \in Deciding)
        /\ \A s \in Threads : s # t => th'[s] = th[s]
    BY <1>0, <1>6 DEF TakePermit, TimeOut, ReadTask, ReadShutdown, Return, Throw, Drain, Clear,
                      Catch, LookAgain, Die, At, Begin, ThreadsOK, Deciding
  <2>3. QED BY <1>5, <2>1, <2>2
<1>7. ASSUME NEW s \in Threads, HandOver(t, v, s) PROVE MutexOwner' /\ DeathOwner' /\ DeathThread'
  <2>1. th' = [th EXCEPT ![t].pc = "leave", ![s] = [pc |-> "wait", of |-> v, fn |-> None]]
    BY <1>7 DEF HandOver, Started
  <2>2. th[s].pc = "gone" /\ th[t].pc = "handing" BY <1>7 DEF HandOver, Gone, At
  <2>3. /\ th'[t].of = th[t].of /\ th'[t].pc = "leave" /\ th'[s].pc = "wait"
        /\ \A r \in Threads : r # t /\ r # s => th'[r] = th[r]
    BY <1>0, <2>1, <2>2 DEF ThreadsOK
  <2>4. \A w \in Workers : wk'[w].deathMutex = wk[w].deathMutex
    BY <1>0, <1>7 DEF HandOver, WorkersOK
  <2>5. QED BY <1>5, <2>2, <2>3, <2>4 DEF Deciding
<1>8. ASSUME NEW s \in Threads, Restart(t, v, s) PROVE MutexOwner' /\ DeathOwner' /\ DeathThread'
  <2>1. th' = [th EXCEPT ![t].pc = "gone", ![s] = [pc |-> "wait", of |-> v, fn |-> None]]
    BY <1>8 DEF Restart, Started
  <2>2. th[s].pc = "gone" /\ th[t].pc = "restart" BY <1>8 DEF Restart, Gone, At
  <2>3. /\ th'[t].pc = "gone" /\ th'[s].pc = "wait"
        /\ \A r \in Threads : r # t /\ r # s => th'[r] = th[r]
    BY <1>0, <2>1, <2>2 DEF ThreadsOK
  <2>4. \A w \in Workers : wk'[w].deathMutex = wk[w].deathMutex
    BY <1>0, <1>8 DEF Restart, WorkersOK
  <2>5. QED BY <1>5, <2>2, <2>3, <2>4 DEF Deciding
<1>9. QED BY <1>3, <1>4, <1>6, <1>7, <1>8 DEF ThreadStep

LEMMA LockInvStep == LockInv /\ [Next]_vars => LockInv'
<1> SUFFICES ASSUME LockInv, [Next]_vars PROVE LockInv'
  OBVIOUS
<1>1. TypeInv' BY TypeStep DEF LockInv
<1>2. MutexOwner' /\ DeathOwner' /\ DeathThread'
  <2>1. CASE UNCHANGED vars
    BY <2>1 DEF LockInv, MutexOwner, DeathOwner, DeathThread, vars, pool
  <2>2. ASSUME NEW c \in Clients, CallRun(c) \/ CallShutdown(c) \/ ClientStep(c)
        PROVE MutexOwner' /\ DeathOwner' /\ DeathThread'
    BY <2>2, LockInvClient, DeathThreadClient
  <2>3. ASSUME NEW t \in Threads, NEW w \in Workers, ThreadStep(t, w) \/ TimeOut(t, w)
        PROVE MutexOwner' /\ DeathOwner' /\ DeathThread'
    BY <2>3, LockInvThread
  <2>4. QED BY <2>1, <2>2, <2>3 DEF Next, Terminated
<1>3. QED BY <1>1, <1>2 DEF LockInv

-----------------------------------------------------------------------------
(***************************************************************************)
(* No wake-up is lost.  The argument: under the pool's mutex run() only    *)
(* hands a task to a worker whose field is null (WakingFree), which its    *)
(* thread cannot be executing (RunningHeld) and which cannot die meanwhile *)
(* because of deathMutex (AwakeInWakeup); a dead worker never has a task   *)
(* (IdleWhenDead), so that the scan never passes a dead worker (ScanDead); *)
(* and the last look at the field still holds when the thread acts on it   *)
(* (Decided), because a store needs the deathMutex that the thread holds.  *)
(***************************************************************************)
WakingFree    == \A c \in Clients :
                    cl[c].pc \in {"wake", "store"} =>
                        wk[cl[c].target].task = None /\ cl[c].target <= poolSize
AwakeInWakeup == \A c \in Clients :
                    cl[c].pc \in {"store", "signal"} => ~wk[cl[c].target].dead
IdleWhenDead  == \A w \in Workers : wk[w].dead \/ w > poolSize => wk[w].task = None
ScanDead      == \A c \in Clients : cl[c].pc = "scan" => cl[c].deadWorker = 0
RunningHeld   == \A t \in Threads :
                    th[t].pc \in {"run", "drain", "clear", "catch"} =>
                        /\ wk[th[t].of].task # None
                        /\ runs[wk[th[t].of].task] > 0

HandParts == WakingFree /\ AwakeInWakeup /\ IdleWhenDead /\ ScanDead /\ RunningHeld
                /\ HandedTaskIsAwaited

Decided == \A t \in Threads :
              /\ th[t].pc = "dying"   => wk[th[t].of].task = None
              /\ th[t].pc = "handing" => wk[th[t].of].task # None

HandInv == ThreadInv /\ LockInv /\ HandParts /\ Decided

LEMMA HandInvInit == Init => HandInv
<1> SUFFICES ASSUME Init PROVE HandParts /\ Decided
  BY ThreadInvInit, LockInvInit DEF HandInv
<1>1. \A w \in Workers : wk[w].task = None BY DEF Init
<1>2. \A c \in Clients : cl[c].pc = "idle" BY DEF Init
<1>3. \A t \in Threads : th[t].pc = "gone" BY DEF Init
<1>4. QED BY <1>1, <1>2, <1>3 DEF HandParts, WakingFree, AwakeInWakeup, IdleWhenDead,
                                  ScanDead, RunningHeld, HandedTaskIsAwaited, Decided

\* Steps of a client that touch no worker and neither enter nor leave wakeup().
LEMMA HandInvFrame ==
    ASSUME HandInv, NEW c \in Clients, UNCHANGED <<wk, th, runs, poolSize>>,
           \/ UNCHANGED cl
           \/ /\ \A d \in Clients \ {c} : cl'[d] = cl[d]
              /\ cl[c].pc # "signal"
              /\ cl'[c].pc \notin {"wake", "store", "signal"}
              /\ cl'[c].pc = "scan" => cl'[c].deadWorker = 0
    PROVE  HandParts'
<1>1. WakingFree' /\ AwakeInWakeup' /\ IdleWhenDead' /\ ScanDead'
  BY DEF HandInv, HandParts, WakingFree, AwakeInWakeup, IdleWhenDead, ScanDead
<1>2. RunningHeld' BY DEF HandInv, HandParts, RunningHeld
<1>3. HandedTaskIsAwaited' BY DEF HandInv, HandParts, HandedTaskIsAwaited, At
<1>4. QED BY <1>1, <1>2, <1>3 DEF HandParts

\* Steps of a client: only one of them is inside the pool's mutex.
LEMMA HandInvClient ==
    ASSUME HandInv, NEW c \in Clients, CallRun(c) \/ CallShutdown(c) \/ ClientStep(c)
    PROVE  HandParts'
<1> USE NoneAssumption DEF HandParts, WakingFree, AwakeInWakeup, IdleWhenDead, ScanDead
<1>0. /\ ClientsOK /\ WorkersOK /\ ThreadsOK
      /\ \A d, e \in Clients : cl[d].pc \in Locked /\ cl[e].pc \in Locked => d = e
      /\ poolSize \in Nat
  BY MaxThreadsAssumption DEF HandInv, LockInv, MutexOwner, TypeInv, TypeOK, PoolOK
<1> USE DEF ClientsOK, WorkersOK, Locked, pool
<1>1. CASE CallRun(c)
  <2>1. \/ UNCHANGED cl
        \/ \E x \in Tasks : cl' = [cl EXCEPT ![c].pc = "acquire", ![c].arg = x]
    BY <1>1 DEF CallRun
  <2>2. CASE UNCHANGED cl BY <1>1, <2>2, HandInvFrame DEF CallRun
  <2>3. ASSUME NEW x \in Tasks, cl' = [cl EXCEPT ![c].pc = "acquire", ![c].arg = x]
        PROVE HandParts'
    <3>1. cl'[c].pc = "acquire" /\ \A d \in Clients \ {c} : cl'[d] = cl[d] BY <1>0, <2>3
    <3>2. QED BY <1>1, <3>1, HandInvFrame DEF CallRun
  <2>4. QED BY <2>1, <2>2, <2>3
<1>2. CASE CallShutdown(c) BY <1>0, <1>2, HandInvFrame DEF CallShutdown
<1>3. CASE Acquire(c)
  <2>1. /\ cl'[c].pc = "scan" /\ cl'[c].deadWorker = 0
        /\ \A d \in Clients \ {c} : cl'[d] = cl[d]
    BY <1>0, <1>3 DEF Acquire
  <2>2. QED BY <1>3, <2>1, HandInvFrame DEF Acquire
<1>4. CASE NoNewWorker(c)
  <2>1. cl[c].deadWorker = 0 BY <1>4 DEF NoNewWorker, NotSubmitted, HandInv
  <2>2. cl'[c].pc = "release" /\ \A d \in Clients \ {c} : cl'[d] = cl[d]
    BY <1>0, <1>4, <2>1 DEF NoNewWorker
  <2>3. QED BY <1>4, <2>2, HandInvFrame DEF NoNewWorker, NotSubmitted
<1>5. CASE Release(c) BY <1>0, <1>5, HandInvFrame DEF Release
<1>6. CASE BeginShutdown(c)
  <2>1. /\ cl'[c].pc \in {"release", "tell"}
        /\ \A d \in Clients \ {c} : cl'[d] = cl[d]
    BY <1>0, <1>6 DEF BeginShutdown
  <2>2. QED BY <1>6, <2>1, HandInvFrame DEF BeginShutdown
<1>7. ASSUME NEW t \in Threads, NewWorker(c, t) PROVE HandParts'
  <2> DEFINE v == poolSize + 1
  <2>1. v \in Workers /\ v > poolSize
    BY <1>0, <1>7, MaxThreadsAssumption DEF NewWorker, CanGrow, Workers
  <2>2. wk[v].task = None BY <2>1 DEF HandInv
  <2>3. /\ cl' = [cl EXCEPT ![c].pc = "wake", ![c].target = v]
        /\ th' = [th EXCEPT ![t] = [pc |-> "wait", of |-> v, fn |-> None]]
        /\ th[t].pc = "gone" /\ cl[c].pc = "scan"
        /\ wk' = wk /\ runs' = runs /\ poolSize' = v
    BY <1>7 DEF NewWorker, NotSubmitted, Gone, Started
  <2>4. \A w \in Workers : w > v => w > poolSize BY <1>0 DEF Workers
  <2> HIDE DEF v
  <2>5. /\ cl'[c].pc = "wake" /\ cl'[c].target = v
        /\ \A d \in Clients : d # c => cl'[d] = cl[d]
    BY <1>0, <2>1, <2>3
  <2>6. WakingFree' /\ AwakeInWakeup' /\ ScanDead'
    <3>1. \A d \in Clients : d # c => cl'[d].pc \notin {"wake", "store"}
      BY <1>0, <2>3, <2>5
    <3>2. v <= v BY <2>1 DEF Workers
    <3>3. QED BY <2>2, <2>3, <2>5, <3>1, <3>2 DEF HandInv
  <2>7. IdleWhenDead' BY <2>3, <2>4 DEF HandInv
  <2>8. RunningHeld' BY <1>0, <2>1, <2>3 DEF HandInv, RunningHeld, ThreadsOK
  <2>9. HandedTaskIsAwaited'
    BY <1>0, <2>3, <2>5 DEF HandInv, HandedTaskIsAwaited, At, ThreadsOK
  <2>10. QED BY <2>6, <2>7, <2>8, <2>9
<1>8. ASSUME NEW w \in Workers, Scan(c, w) PROVE HandParts'
  <2>1. /\ cl[c].pc = "scan" /\ w <= poolSize /\ cl[c].deadWorker = 0
        /\ wk' = wk /\ th' = th /\ runs' = runs /\ poolSize' = poolSize
    BY <1>8 DEF Scan, HandInv, pool
  <2>2. CASE wk[w].task = None
    <3>0. PICK d \in 0 .. MaxThreads :
             cl' = [cl EXCEPT ![c].deadWorker = d, ![c].pc = "wake", ![c].target = w]
      BY <1>0, <1>8, <2>2, Ranges DEF Scan
    <3>1. \A d2 \in Clients : d2 # c => cl'[d2] = cl[d2] BY <1>0, <3>0
    <3>2. cl'[c].pc = "wake" /\ cl'[c].target = w BY <1>0, <3>0
    <3>3. WakingFree' /\ AwakeInWakeup' /\ IdleWhenDead' /\ ScanDead'
      BY <2>1, <2>2, <3>1, <3>2 DEF HandInv
    <3>4. RunningHeld' BY <2>1 DEF HandInv, RunningHeld
    <3>5. HandedTaskIsAwaited'
      BY <2>1, <3>1, <3>2 DEF HandInv, HandedTaskIsAwaited, At
    <3>6. QED BY <3>3, <3>4, <3>5
  <2>3. CASE wk[w].task # None
    <3>1. ~wk[w].dead BY <2>3 DEF HandInv
    <3>2. cl' = [cl EXCEPT ![c].deadWorker = 0, ![c].idx = w + 1]
      BY <1>8, <2>1, <2>3, <3>1 DEF Scan
    <3>3. /\ \A d \in Clients \ {c} : cl'[d] = cl[d]
          /\ cl'[c].pc = "scan" /\ cl'[c].deadWorker = 0
      BY <1>0, <2>1, <3>2
    <3>4. QED BY <2>1, <3>3, HandInvFrame
  <2>4. QED BY <2>2, <2>3
<1>9. ASSUME NEW w \in Workers, WakeAlive(c, w) PROVE HandParts'
  <2>1. WakingFree' /\ AwakeInWakeup' /\ IdleWhenDead' /\ ScanDead'
    BY <1>0, <1>9 DEF WakeAlive, Waking, HandInv
  <2>2. RunningHeld' BY <1>0, <1>9 DEF WakeAlive, HandInv, RunningHeld, ThreadsOK
  <2>3. HandedTaskIsAwaited'
    BY <1>0, <1>9 DEF WakeAlive, Waking, HandInv, HandedTaskIsAwaited, At
  <2>4. QED BY <2>1, <2>2, <2>3
<1>10. ASSUME NEW w \in Workers, NEW t \in Threads, WakeDead(c, w, t) PROVE HandParts'
  BY <1>0, <1>10 DEF WakeDead, Waking, Gone, Started, HandInv, RunningHeld,
                     HandedTaskIsAwaited, At, ThreadsOK
<1>11. ASSUME NEW w \in Workers, Store(c, w) PROVE HandParts'
  <2>1. WakingFree' /\ AwakeInWakeup' /\ IdleWhenDead' /\ ScanDead'
    <3>1. ~wk[w].dead /\ ~(w > poolSize)
      BY <1>0, <1>11 DEF Store, Waking, HandInv, Workers
    <3>2. QED BY <1>0, <1>11, <3>1 DEF Store, Waking, HandInv
  <2>2. RunningHeld'
    <3>1. \A t \in Threads : th[t].pc \in {"run", "drain", "clear", "catch"} => th[t].of # w
      BY <1>11 DEF Store, Waking, HandInv, RunningHeld
    <3>2. QED BY <1>0, <1>11, <3>1 DEF Store, HandInv, RunningHeld, ThreadsOK
  <2>3. HandedTaskIsAwaited'
    BY <1>0, <1>11 DEF Store, Waking, HandInv, HandedTaskIsAwaited, At
  <2>4. QED BY <2>1, <2>2, <2>3
<1>12. ASSUME NEW w \in Workers, Signal(c, w) PROVE HandParts'
  <2>1. WakingFree' /\ AwakeInWakeup' /\ IdleWhenDead' /\ ScanDead'
    BY <1>0, <1>12 DEF Signal, Waking, HandInv
  <2>2. RunningHeld' BY <1>0, <1>12 DEF Signal, HandInv, RunningHeld, ThreadsOK
  <2>3. HandedTaskIsAwaited'
    <3>0. wk' = [wk EXCEPT ![w].permits = wk[w].permits + 1, ![w].deathMutex = None]
      BY <1>12 DEF Signal
    <3>1. \A v \in Workers : /\ wk'[v].task = wk[v].task
                             /\ wk'[v].dead <=> wk[v].dead
                             /\ v # w => wk'[v].permits = wk[v].permits
      BY <1>0, <3>0
    <3>2. wk'[w].permits > 0 BY <1>0, <3>0
    <3>3. ~wk[w].dead BY <1>12 DEF Signal, Waking, HandInv
    <3>4. \A d \in Clients : cl[d].pc = "signal" => d = c BY <1>0, <1>12 DEF Signal, Waking
    <3>5. /\ th' = th /\ runs' = runs /\ cl[c].target = w
          /\ \A d \in Clients : d # c => cl'[d] = cl[d]
      BY <1>0, <1>12 DEF Signal, Waking
    <3>6. ASSUME NEW v \in Workers, v # w, wk[v].task # None, runs[wk[v].task] = 0
          PROVE \/ wk[v].permits > 0
                \/ \E d \in Clients : cl'[d].pc = "signal" /\ cl'[d].target = v
                \/ \E t \in Threads : At(t, v, "read")
      BY <3>4, <3>5, <3>6 DEF HandInv, HandedTaskIsAwaited
    <3>7. QED BY <3>1, <3>2, <3>3, <3>5, <3>6 DEF HandInv, HandedTaskIsAwaited, At
  <2>4. QED BY <2>1, <2>2, <2>3
<1>13. ASSUME NEW w \in Workers, Tell(c, w) PROVE HandParts'
  <2>1. /\ UNCHANGED <<th, runs, poolSize>> /\ cl[c].pc = "tell" /\ cl'[c].pc = "ring"
        /\ \A d \in Clients : d # c => cl'[d] = cl[d]
        /\ \A v \in Workers : /\ wk'[v].task = wk[v].task /\ wk'[v].dead = wk[v].dead
                             /\ wk'[v].permits = wk[v].permits
    BY <1>0, <1>13 DEF Tell, Stopping
  <2>2. WakingFree' /\ AwakeInWakeup' /\ IdleWhenDead' /\ ScanDead'
    BY <1>0, <2>1 DEF HandInv
  <2>3. RunningHeld' BY <1>0, <2>1 DEF HandInv, RunningHeld, ThreadsOK
  <2>4. HandedTaskIsAwaited' BY <1>0, <2>1 DEF HandInv, HandedTaskIsAwaited, At
  <2>5. QED BY <2>2, <2>3, <2>4
<1>14. ASSUME NEW w \in Workers, Ring(c, w) PROVE HandParts'
  <2>1. /\ th' = th /\ runs' = runs /\ poolSize' = poolSize /\ cl[c].pc = "ring"
    BY <1>14 DEF Ring, Stopping
  <2>2. PICK p \in {"release", "tell"} : cl' = [cl EXCEPT ![c].idx = w + 1, ![c].pc = p]
    BY <1>14 DEF Ring, NextToStop
  <2>3. /\ cl'[c].pc \in {"release", "tell"}
        /\ \A d \in Clients : d # c => cl'[d] = cl[d]
    BY <1>0, <2>2
  <2>4. wk' = [wk EXCEPT ![w].permits = wk[w].permits + 1] BY <1>14 DEF Ring
  <2>5. wk[w].permits + 1 > 0 BY <1>0
  <2>6. /\ wk'[w].permits > 0
        /\ \A v \in Workers : /\ wk'[v].task = wk[v].task
                              /\ wk'[v].dead <=> wk[v].dead
                              /\ v # w => wk'[v].permits = wk[v].permits
    BY <1>0, <2>4, <2>5
  <2>7. WakingFree' /\ AwakeInWakeup' /\ IdleWhenDead' /\ ScanDead'
    BY <1>0, <2>1, <2>3, <2>6 DEF HandInv
  <2>8. RunningHeld' BY <1>0, <2>1, <2>6 DEF HandInv, RunningHeld, ThreadsOK
  <2>9. HandedTaskIsAwaited' BY <1>0, <2>1, <2>3, <2>6 DEF HandInv, HandedTaskIsAwaited, At
  <2>10. QED BY <2>7, <2>8, <2>9
<1>15. QED BY <1>1, <1>2, <1>3, <1>4, <1>5, <1>6, <1>7, <1>8, <1>9, <1>10, <1>11, <1>12,
              <1>13, <1>14 DEF ClientStep

\* What the invariant says about worker v alone.
Running == {"run", "drain", "clear", "catch"}
HeldBy(v) == \A t \in Threads : th[t].of = v /\ th[t].pc \in Running =>
                                  wk[v].task # None /\ runs[wk[v].task] > 0
Awaited(v) == wk[v].task # None /\ runs[wk[v].task] = 0 =>
                /\ ~wk[v].dead
                /\ \/ wk[v].permits > 0
                   \/ \E c \in Clients : cl[c].pc = "signal" /\ cl[c].target = v
                   \/ \E t \in Threads : At(t, v, "read")

\* A step of a thread of worker v that leaves the other workers and their threads
\* alone, never stores a task and lets v die only when nobody is inside wakeup().
LEMMA HandInvOwn ==
    ASSUME HandInv, NEW v \in Workers, ThreadsOK', HistoryOK',
           cl' = cl, poolSize' = poolSize,
           \A w \in Workers : w # v => wk'[w] = wk[w],
           \A x \in Tasks : runs'[x] = 0 => runs[x] = 0,
           \A s \in Threads : th[s].of # v /\ th[s].pc = "read" => th'[s] = th[s],
           \A s \in Threads : th'[s].of # v /\ th'[s].pc \in Running => th'[s] = th[s],
           wk'[v].task \in {wk[v].task, None},
           wk'[v].dead => \/ wk[v].dead
                          \/ wk'[v].task = None /\ wk[v].deathMutex \notin Clients,
           HeldBy(v)', Awaited(v)'
    PROVE  HandParts'
<1>0. WorkersOK /\ ThreadsOK /\ ClientsOK /\ HistoryOK
  BY DEF HandInv, LockInv, TypeInv, TypeOK
<1>1. WakingFree' /\ ScanDead'
  BY <1>0 DEF HandInv, HandParts, WakingFree, ScanDead, ClientsOK
<1>2. AwakeInWakeup'
  <2>1. \A c \in Clients : cl[c].pc \in {"store", "signal"} /\ cl[c].target = v
                             => wk[v].deathMutex \in Clients /\ ~wk[v].dead
    BY DEF HandInv, HandParts, AwakeInWakeup, LockInv, DeathOwner
  <2>2. \A c \in Clients : cl[c].pc \in {"store", "signal"} /\ cl[c].target # v
                             => ~wk'[cl[c].target].dead
    BY <1>0 DEF HandInv, HandParts, AwakeInWakeup, ClientsOK
  <2>3. wk'[v].dead => wk[v].dead \/ wk[v].deathMutex \notin Clients OBVIOUS
  <2>4. QED BY <2>1, <2>2, <2>3 DEF AwakeInWakeup
<1>3. IdleWhenDead'
  <2>1. wk'[v].dead \/ v > poolSize => wk'[v].task = None
    BY DEF HandInv, HandParts, IdleWhenDead
  <2>2. QED BY <2>1 DEF HandInv, HandParts, IdleWhenDead
<1>4. RunningHeld'
  <2> SUFFICES ASSUME NEW t \in Threads, th'[t].pc \in Running
               PROVE wk'[th'[t].of].task # None /\ runs'[wk'[th'[t].of].task] > 0
    BY DEF RunningHeld, Running
  <2>1. CASE th'[t].of = v BY <2>1 DEF HeldBy
  <2>2. CASE th'[t].of # v
    <3>1. th'[t] = th[t] /\ th[t].of \in Workers BY <1>0, <2>2 DEF ThreadsOK
    <3>2. wk'[th[t].of] = wk[th[t].of] BY <2>2, <3>1
    <3>3. wk[th[t].of].task # None /\ runs[wk[th[t].of].task] > 0
      BY <3>1 DEF HandInv, HandParts, RunningHeld, Running
    <3>4. wk[th[t].of].task \in Tasks BY <1>0, <3>1, <3>3 DEF WorkersOK
    <3>5. runs'[wk[th[t].of].task] > 0 BY <1>0, <3>3, <3>4 DEF HistoryOK
    <3>6. QED BY <3>1, <3>2, <3>3, <3>5
  <2>3. QED BY <2>1, <2>2
<1>5. HandedTaskIsAwaited'
  <2>1. ASSUME NEW w \in Workers, w # v PROVE Awaited(w)'
    <3>1. wk'[w] = wk[w] BY <2>1
    <3>2. wk[w].task # None => wk[w].task \in Tasks BY <1>0 DEF WorkersOK
    <3>3. Awaited(w) BY DEF HandInv, HandParts, HandedTaskIsAwaited, Awaited
    <3>4. \A t \in Threads : At(t, w, "read") => At(t, w, "read")' BY <2>1 DEF At
    <3>5. QED BY <3>1, <3>2, <3>3, <3>4 DEF Awaited
  <2>2. \A w \in Workers : Awaited(w)' BY <2>1
  <2>3. QED BY <2>2 DEF Awaited, HandedTaskIsAwaited
<1>6. QED BY <1>1, <1>2, <1>3, <1>4, <1>5 DEF HandParts

\* Taking a task from the queue only adds to what was called.
LEMMA DrainMonotone ==
    ASSUME PoolOK, HistoryOK, NEW t \in Threads, NEW v \in Workers, Drain(t, v)
    PROVE  \A x \in Tasks : runs'[x] \in Nat /\ runs'[x] >= runs[x]
<1>1. CASE queue = <<>> BY <1>1 DEF Drain, HistoryOK
<1>2. CASE queue # <<>>
  <2>1. Head(queue) \in Tasks BY <1>2 DEF PoolOK
  <2>2. runs' = [runs EXCEPT ![Head(queue)] = runs[Head(queue)] + 1]
    BY <1>2 DEF Drain, Begin
  <2>3. QED BY <2>1, <2>2 DEF HistoryOK
<1>3. QED BY <1>1, <1>2

\* Steps of the thread of worker v, the only one that runs its task.
LEMMA HandInvThread ==
    ASSUME HandInv, NEW t \in Threads, NEW v \in Workers, ThreadStep(t, v) \/ TimeOut(t, v)
    PROVE  HandParts'
<1>0. /\ PoolOK /\ WorkersOK /\ ThreadsOK /\ HistoryOK /\ ThreadsOK' /\ HistoryOK'
      /\ cl' = cl /\ poolSize' = poolSize
      /\ th[t].of = v
  <2>1. TypeInv' BY TypeThread DEF HandInv, LockInv
  <2>2. th[t].of = v /\ cl' = cl /\ poolSize' = poolSize
    BY DEF ThreadStep, TakePermit, TimeOut, ReadTask, ReadShutdown, Return, Throw, Drain,
           Clear, EnterDeath, LookAgain, Die, LeaveDeath, Catch, HandOver, Restart, pool, At
  <2>3. QED BY <2>1, <2>2 DEF HandInv, ThreadInv, LockInv, TypeInv, TypeOK
<1>1. th[t].pc = "leave" \/ \A s \in Threads : s # t => th[s].of # v \/ th[s].pc \in {"gone", "leave"}
  <2>1. th[t].pc # "gone"
    BY DEF ThreadStep, TakePermit, TimeOut, ReadTask, ReadShutdown, Return, Throw, Drain,
           Clear, EnterDeath, LookAgain, Die, LeaveDeath, Catch, HandOver, Restart, At
  <2>2. QED BY <1>0, <2>1 DEF HandInv, ThreadInv, OneThreadPerWorker, Serving
<1>2. HeldBy(v) /\ Awaited(v)
  BY DEF HandInv, HandParts, RunningHeld, HeldBy, Running, HandedTaskIsAwaited, Awaited
<1>3. wk[v].task \in Tasks \cup {None} /\ wk[v].permits \in Nat BY <1>0 DEF WorkersOK
<1> USE <1>0, <1>2, <1>3, HandInvOwn DEF WorkersOK, ThreadsOK, HistoryOK, HeldBy,
        Awaited, Running, At
<1>15. CASE EnterDeath(t, v) \/ LeaveDeath(t, v)
  <2>1. /\ wk'[v].task = wk[v].task /\ wk'[v].dead = wk[v].dead
        /\ wk'[v].permits = wk[v].permits
        /\ \A w \in Workers : w # v => wk'[w] = wk[w]
    BY <1>15 DEF EnterDeath, LeaveDeath
  <2>2. /\ runs' = runs /\ th[t].pc \in {"death", "leave"} /\ th'[t].of = v /\ th'[t].pc \in {"last", "gone"}
        /\ \A s \in Threads : s # t => th'[s] = th[s]
    BY <1>15 DEF EnterDeath, LeaveDeath
  <2>3. HeldBy(v)' BY <2>1, <2>2
  <2>4. Awaited(v)' BY <2>1, <2>2
  <2>5. \A x \in Threads : /\ th[x].of # v /\ th[x].pc = "read" => th'[x] = th[x]
                           /\ th'[x].of # v /\ th'[x].pc \in Running => th'[x] = th[x]
    BY <2>2
  <2>6. v \in Workers OBVIOUS
  <2>7. \A x \in Tasks : runs'[x] = 0 => runs[x] = 0 BY <2>2
  <2> HIDE DEF WorkersOK, ThreadsOK, HistoryOK, HeldBy, Awaited, Running, At
  <2>8. QED BY ONLY HandInv, <1>0, <2>1, <2>3, <2>4, <2>5, <2>6, <2>7, HandInvOwn
<1>18. ASSUME th[t].pc = "leave" PROVE HandParts'
  BY <1>15, <1>18 DEF ThreadStep, TakePermit, TimeOut, ReadTask, ReadShutdown, Return, Throw,
                      Drain, Clear, EnterDeath, LookAgain, Die, Catch, HandOver, Restart
<1> SUFFICES ASSUME th[t].pc # "leave" PROVE HandParts'
  BY <1>18
<1>19. \A s \in Threads : s # t => th[s].of # v \/ th[s].pc \in {"gone", "leave"}
  BY <1>1
<1> USE <1>19
<1>4. CASE TakePermit(t, v)
  <2>1. wk' = [wk EXCEPT ![v].permits = wk[v].permits - 1] /\ runs' = runs
    BY <1>4 DEF TakePermit
  <2>2. /\ \A w \in Workers : w # v => wk'[w] = wk[w]
        /\ wk'[v].task = wk[v].task /\ wk'[v].dead = wk[v].dead
    BY <2>1
  <2>3. \A s \in Threads : s # t => th'[s] = th[s] BY <1>4 DEF TakePermit
  <2>4. th'[t].of = v /\ th'[t].pc = "read" /\ th[t].of = v BY <1>4 DEF TakePermit
  <2>5. HeldBy(v)' BY <2>1, <2>2, <2>3, <2>4
  <2>6. Awaited(v)' BY <2>1, <2>2, <2>4
  <2>7. QED BY <2>1, <2>2, <2>3, <2>4, <2>5, <2>6
<1>20. ASSUME wk' = wk, runs' = runs, th'[t].of = v, th'[t].pc \notin Running,
              th[t].pc # "read" \/ wk[v].task = None,
              \A s \in Threads : s # t => th'[s] = th[s]
       PROVE  HandParts'
  <2>1. HeldBy(v)' BY <1>20
  <2>2. Awaited(v)' BY <1>20
  <2>3. \A x \in Threads : /\ th[x].of # v /\ th[x].pc = "read" => th'[x] = th[x]
                           /\ th'[x].of # v /\ th'[x].pc \in Running => th'[x] = th[x]
    BY <1>20
  <2>4. v \in Workers OBVIOUS
  <2>5. \A x \in Tasks : runs'[x] = 0 => runs[x] = 0 BY <1>20
  <2> HIDE DEF WorkersOK, ThreadsOK, HistoryOK, HeldBy, Awaited, Running, At
  <2>6. QED BY ONLY HandInv, <1>0, <1>20, <2>1, <2>2, <2>3, <2>4, <2>5, HandInvOwn
<1>5. CASE TimeOut(t, v)
  <2>1. /\ wk' = wk /\ runs' = runs /\ th'[t].of = v /\ th'[t].pc = "death"
        /\ th[t].pc = "wait" /\ \A s \in Threads : s # t => th'[s] = th[s]
    BY <1>5 DEF TimeOut
  <2>2. QED BY ONLY <2>1, <1>20 DEF Running
<1>6. CASE ReadTask(t, v)
  <2>1. wk' = wk /\ th[t].of = v BY <1>6 DEF ReadTask
  <2>2. \A s \in Threads : s # t => th'[s] = th[s] BY <1>6 DEF ReadTask, Begin
  <2>3. CASE wk[v].task = None
    <3>1. runs' = runs /\ th'[t].of = v /\ th'[t].pc = "readShut"
      BY <1>6, <2>1, <2>3 DEF ReadTask
    <3>2. QED BY ONLY <2>1, <2>2, <2>3, <3>1, <1>20 DEF Running
  <2>4. CASE wk[v].task # None
    <3>1. wk[v].task \in Tasks BY <2>4
    <3>2. runs' = [runs EXCEPT ![wk[v].task] = runs[wk[v].task] + 1]
      BY <1>6, <2>4 DEF ReadTask, Begin
    <3>3. runs'[wk[v].task] > 0 /\ \A x \in Tasks : runs'[x] = 0 => runs[x] = 0
      BY <3>1, <3>2
    <3>4. th'[t].of = v BY <1>6, <2>4 DEF ReadTask, Begin
    <3>5. HeldBy(v)' BY <2>1, <2>4, <3>3
    <3>6. Awaited(v)' BY <2>1, <3>3
    <3>7. \A x \in Threads : /\ th[x].of # v /\ th[x].pc = "read" => th'[x] = th[x]
                             /\ th'[x].of # v /\ th'[x].pc \in Running => th'[x] = th[x]
      BY <2>1, <2>2, <3>4
    <3>8. v \in Workers OBVIOUS
    <3> HIDE DEF WorkersOK, ThreadsOK, HistoryOK, HeldBy, Awaited, Running, At
    <3>9. QED BY ONLY HandInv, <1>0, <2>1, <3>3, <3>5, <3>6, <3>7, <3>8, HandInvOwn
  <2>5. QED BY <2>3, <2>4
<1>7. CASE ReadShutdown(t, v)
  <2>1. wk' = wk /\ runs' = runs /\ th[t].pc = "readShut" BY <1>7 DEF ReadShutdown
  <2>2. \A s \in Threads : s # t => th'[s] = th[s] BY <1>7 DEF ReadShutdown
  <2>3. th'[t].of = v /\ th'[t].pc \in {"death", "wait"} BY <1>7 DEF ReadShutdown
  <2>4. QED BY ONLY <2>1, <2>2, <2>3, <1>20 DEF Running
<1>8. CASE Return(t, v) BY <1>8 DEF Return
<1>9. CASE Throw(t, v) BY <1>9 DEF Throw
<1>10. CASE Drain(t, v)
  <2>1. wk' = wk /\ th[t].of = v /\ th[t].pc = "drain" BY <1>10 DEF Drain
  <2>2. \A s \in Threads : s # t => th'[s] = th[s] BY <1>10 DEF Drain, Begin
  <2>3. wk[v].task \in Tasks /\ runs[wk[v].task] > 0 BY <2>1
  <2>4. \A x \in Tasks : runs'[x] \in Nat /\ runs'[x] >= runs[x]
    BY <1>10, DrainMonotone
  <2>5. runs'[wk[v].task] > 0 /\ \A x \in Tasks : runs'[x] = 0 => runs[x] = 0
    BY <2>3, <2>4
  <2>6. th'[t].of = v BY <1>10 DEF Drain, Begin
  <2>7. \A x \in Threads : /\ th[x].of # v /\ th[x].pc = "read" => th'[x] = th[x]
                           /\ th'[x].of # v /\ th'[x].pc \in Running => th'[x] = th[x]
    BY <2>1, <2>2, <2>6
  <2>8. HeldBy(v)' /\ Awaited(v)' BY <2>1, <2>3, <2>5
  <2>9. v \in Workers OBVIOUS
  <2>10. \A w \in Workers : w # v => wk'[w] = wk[w] BY <2>1
  <2>11. wk'[v].task \in {wk[v].task, None} BY <2>1
  <2>12. wk'[v].dead => \/ wk[v].dead
                        \/ wk'[v].task = None /\ wk[v].deathMutex \notin Clients
    BY <2>1
  <2>13. \A x \in Tasks : runs'[x] = 0 => runs[x] = 0 BY <2>5
  <2>14. \A s \in Threads : th[s].of # v /\ th[s].pc = "read" => th'[s] = th[s] BY <2>7
  <2>15. \A s \in Threads : th'[s].of # v /\ th'[s].pc \in Running => th'[s] = th[s]
    BY <2>7
  <2>16. HeldBy(v)' BY <2>8
  <2>17. Awaited(v)' BY <2>8
  <2> HIDE DEF WorkersOK, ThreadsOK, HistoryOK, HeldBy, Awaited, Running, At
  <2>18. QED BY ONLY HandInv, <1>0, <2>9, <2>10, <2>11, <2>12, <2>13, <2>14, <2>15, <2>16,
                     <2>17, HandInvOwn
<1>11. CASE Clear(t, v) \/ Catch(t, v)
  <2>0. PICK p \in {"wait", "restart"} : th' = [th EXCEPT ![t].pc = p]
    BY <1>11 DEF Clear, Catch
  <2>1. /\ wk' = [wk EXCEPT ![v].task = None] /\ th' = [th EXCEPT ![t].pc = p]
        /\ runs' = runs /\ th[t].of = v
    BY <1>11, <2>0 DEF Clear, Catch
  <2>2. /\ \A w \in Workers : w # v => wk'[w] = wk[w]
        /\ wk'[v].task = None /\ wk'[v].dead = wk[v].dead
    BY <2>1
  <2>3. \A s \in Threads : s # t => th'[s] = th[s] BY <2>1
  <2>4. th'[t].of = v /\ th'[t].pc = p BY <2>1
  <2>5. HeldBy(v)' BY <2>2, <2>3, <2>4
  <2>6. Awaited(v)' BY <2>2
  <2>7. \A s \in Threads : th[s].of # v /\ th[s].pc = "read" => th'[s] = th[s]
    BY <2>1, <2>3
  <2>8. \A s \in Threads : th'[s].of # v /\ th'[s].pc \in Running => th'[s] = th[s]
    BY <2>3, <2>4
  <2>9. v \in Workers OBVIOUS
  <2>10. wk'[v].task \in {wk[v].task, None} BY <2>2
  <2>11. wk'[v].dead => \/ wk[v].dead
                        \/ wk'[v].task = None /\ wk[v].deathMutex \notin Clients
    BY <2>2
  <2>12. \A x \in Tasks : runs'[x] = 0 => runs[x] = 0 BY <2>1
  <2>13. \A w \in Workers : w # v => wk'[w] = wk[w] BY <2>2
  <2> HIDE DEF WorkersOK, ThreadsOK, HistoryOK, HeldBy, Awaited, Running, At
  <2>14. QED BY ONLY HandInv, <1>0, <2>5, <2>6, <2>7, <2>8, <2>9, <2>10, <2>11, <2>12,
                     <2>13, HandInvOwn
<1>12. CASE Die(t, v)
  <2>1. /\ th' = [th EXCEPT ![t].pc = "leave"] /\ wk' = [wk EXCEPT ![v].dead = TRUE]
        /\ runs' = runs /\ th[t].of = v /\ th[t].pc = "dying"
    BY <1>12 DEF Die
  <2>0. wk[v].task = None /\ wk[v].deathMutex \notin Clients
    BY <2>1, ThreadsAssumption DEF HandInv, Decided, LockInv, DeathThread, Deciding
  <2>2. \A s \in Threads : s # t => th'[s] = th[s] BY <2>1
  <2>3. th'[t].of = v /\ th'[t].pc = "leave" BY <2>1
  <2>4. v \in Workers OBVIOUS
  <2>5. \A w \in Workers : w # v => wk'[w] = wk[w] BY <2>1
  <2>6. wk'[v].task = None BY <2>0, <2>1
  <2>7. \A x \in Threads : /\ th[x].of # v /\ th[x].pc = "read" => th'[x] = th[x]
                           /\ th'[x].of # v /\ th'[x].pc \in Running => th'[x] = th[x]
    BY <2>1, <2>2, <2>3
  <2>8. HeldBy(v)' BY <2>2, <2>3
  <2>9. Awaited(v)' BY <2>6
  <2>10. \A x \in Tasks : runs'[x] = 0 => runs[x] = 0 BY <2>1
  <2>11. wk[v].deathMutex \notin Clients BY <2>0
  <2> HIDE DEF WorkersOK, ThreadsOK, HistoryOK, HeldBy, Awaited, Running, At
  <2>12. QED BY ONLY HandInv, <1>0, <2>4, <2>5, <2>6, <2>7, <2>8, <2>9, <2>10, <2>11,
                     HandInvOwn
<1>14. ASSUME NEW s \in Threads, HandOver(t, v, s) \/ Restart(t, v, s) PROVE HandParts'
  <2>1. PICK p \in {"leave", "gone"} :
          th' = [th EXCEPT ![t].pc = p, ![s] = [pc |-> "wait", of |-> v, fn |-> None]]
    BY <1>14 DEF HandOver, Restart, Started
  <2>2. runs' = runs /\ th[t].of = v /\ s # t /\ th[t].pc # "read"
    BY <1>14 DEF HandOver, Restart, Gone
  <2>3. /\ \A w \in Workers : w # v => wk'[w] = wk[w]
        /\ wk'[v].task = wk[v].task /\ ~wk'[v].dead /\ wk'[v].permits = wk[v].permits
    BY <1>14 DEF HandOver, Restart
  <2>4. /\ \A x \in Threads : x # t /\ x # s => th'[x] = th[x]
        /\ th'[t].pc = p /\ th'[s].pc = "wait" /\ th'[s].of = v /\ th[s].pc = "gone"
    BY <1>14, <2>1, <2>2 DEF HandOver, Restart, Gone
  <2>5. HeldBy(v)' BY <2>2, <2>3, <2>4
  <2>6. Awaited(v)' BY <2>2, <2>3, <2>4
  <2>7. \A x \in Threads : /\ th[x].of # v /\ th[x].pc = "read" => th'[x] = th[x]
                           /\ th'[x].of # v /\ th'[x].pc \in Running => th'[x] = th[x]
    BY <2>2, <2>4
  <2>8. v \in Workers OBVIOUS
  <2>10. \A x \in Tasks : runs'[x] = 0 => runs[x] = 0 BY <2>2
  <2> HIDE DEF WorkersOK, ThreadsOK, HistoryOK, HeldBy, Awaited, Running
  <2>9. QED BY ONLY HandInv, <1>0, <2>8, <2>10, <2>2, <2>3, <2>5, <2>6, <2>7, HandInvOwn
<1>16. CASE LookAgain(t, v)
  <2>1. wk' = wk /\ runs' = runs /\ th[t].of = v /\ th[t].pc = "last" BY <1>16 DEF LookAgain
  <2>2. /\ th'[t].of = v /\ th'[t].pc \in {"dying", "handing"}
        /\ \A s \in Threads : s # t => th'[s] = th[s]
    BY <1>16 DEF LookAgain
  <2>3. HeldBy(v)' BY <2>1, <2>2
  <2>4. Awaited(v)' BY <2>1, <2>2
  <2>5. \A x \in Threads : /\ th[x].of # v /\ th[x].pc = "read" => th'[x] = th[x]
                           /\ th'[x].of # v /\ th'[x].pc \in Running => th'[x] = th[x]
    BY <2>1, <2>2
  <2>6. v \in Workers OBVIOUS
  <2>7. \A x \in Tasks : runs'[x] = 0 => runs[x] = 0 BY <2>1
  <2> HIDE DEF WorkersOK, ThreadsOK, HistoryOK, HeldBy, Awaited, Running, At
  <2>8. QED BY ONLY HandInv, <1>0, <2>1, <2>3, <2>4, <2>5, <2>6, <2>7, HandInvOwn
<1>17. QED BY <1>4, <1>5, <1>6, <1>7, <1>8, <1>9, <1>10, <1>11, <1>12, <1>14, <1>15, <1>16
           DEF ThreadStep

\* The task of a worker changes only in Store, which needs deathMutex, and at the hands
\* of the thread that serves the worker.
LEMMA DecidedStill ==
    ASSUME Decided, \A w \in Workers : wk'[w].task = wk[w].task,
           ThreadsOK, \A t \in Threads : \/ th'[t].pc \notin {"dying", "handing"}
                                         \/ th'[t] = th[t]
    PROVE  Decided'
BY DEF Decided, ThreadsOK

LEMMA DecidedClient ==
    ASSUME HandInv, NEW c \in Clients, CallRun(c) \/ CallShutdown(c) \/ ClientStep(c)
    PROVE  Decided'
<1>0. WorkersOK /\ ThreadsOK /\ Decided BY DEF HandInv, LockInv, TypeInv, TypeOK
<1>1. ASSUME NEW w \in Workers, Store(c, w) PROVE Decided'
  <2>1. /\ th' = th /\ wk[w].deathMutex = c
        /\ \A v \in Workers : v # w => wk'[v] = wk[v]
    BY <1>0, <1>1 DEF Store, Waking, HandInv, LockInv, DeathOwner, WorkersOK
  <2>2. \A t \in Threads : th[t].pc \in {"dying", "handing"} => th[t].of # w
    BY <2>1, ThreadsAssumption DEF HandInv, LockInv, DeathThread, Deciding
  <2>3. QED BY <1>0, <2>1, <2>2 DEF Decided, ThreadsOK
<1>2. ASSUME NEW t \in Threads, NewWorker(c, t) PROVE Decided'
  <2>1. wk' = wk /\ th'[t].pc = "wait" /\ \A s \in Threads : s # t => th'[s] = th[s]
    BY <1>0, <1>2 DEF NewWorker, Started, ThreadsOK
  <2>2. QED BY <1>0, <2>1, DecidedStill
<1>3. ASSUME NEW w \in Workers, NEW t \in Threads, WakeDead(c, w, t) PROVE Decided'
  <2>1. /\ \A v \in Workers : wk'[v].task = wk[v].task
        /\ th'[t].pc = "wait" /\ \A s \in Threads : s # t => th'[s] = th[s]
    BY <1>0, <1>3 DEF WakeDead, Started, ThreadsOK, WorkersOK
  <2>2. QED BY <1>0, <2>1, DecidedStill
<1>4. CASE CallRun(c) \/ CallShutdown(c) \/ Acquire(c) \/ NoNewWorker(c) \/ Release(c)
           \/ BeginShutdown(c)
  <2>1. wk' = wk /\ th' = th
    BY <1>4 DEF CallRun, CallShutdown, Acquire, NoNewWorker, Release, BeginShutdown
  <2>2. QED BY <1>0, <2>1, DecidedStill
<1>5. ASSUME NEW w \in Workers, Scan(c, w) \/ WakeAlive(c, w) \/ Signal(c, w)
                                \/ Tell(c, w) \/ Ring(c, w)
      PROVE Decided'
  <2>1. th' = th /\ \A v \in Workers : wk'[v].task = wk[v].task
    BY <1>0, <1>5 DEF Scan, WakeAlive, Signal, Tell, Ring, WorkersOK
  <2>2. QED BY <1>0, <2>1, DecidedStill
<1>6. QED BY <1>1, <1>2, <1>3, <1>4, <1>5 DEF ClientStep

LEMMA DecidedThread ==
    ASSUME HandInv, NEW t \in Threads, NEW v \in Workers, ThreadStep(t, v) \/ TimeOut(t, v)
    PROVE  Decided'
<1>0. WorkersOK /\ ThreadsOK /\ Decided BY DEF HandInv, LockInv, TypeInv, TypeOK
<1>1. CASE LookAgain(t, v)
  <2>1. /\ wk' = wk /\ th'[t].of = v
        /\ th'[t].pc = IF wk[v].task = None THEN "dying" ELSE "handing"
        /\ \A s \in Threads : s # t => th'[s] = th[s]
    BY <1>0, <1>1 DEF LookAgain, At, ThreadsOK
  <2>2. QED BY <1>0, <2>1 DEF Decided
<1>2. CASE Clear(t, v) \/ Catch(t, v)
  <2>1. /\ th[t].of = v /\ th[t].pc \in {"clear", "catch"}
        /\ th'[t].pc \in {"wait", "restart"}
        /\ \A w \in Workers : w # v => wk'[w] = wk[w]
        /\ \A s \in Threads : s # t => th'[s] = th[s]
    BY <1>0, <1>2 DEF Clear, Catch, At, ThreadsOK, WorkersOK
  <2>2. \A s \in Threads : s # t /\ th[s].of = v => th[s].pc \in {"leave", "gone"}
    BY <2>1 DEF HandInv, ThreadInv, OneThreadPerWorker, Serving
  <2>3. QED BY <1>0, <2>1, <2>2 DEF Decided, ThreadsOK
<1>3. CASE TakePermit(t, v) \/ TimeOut(t, v) \/ ReadTask(t, v) \/ ReadShutdown(t, v)
           \/ Return(t, v) \/ Throw(t, v) \/ Drain(t, v) \/ EnterDeath(t, v) \/ Die(t, v)
           \/ LeaveDeath(t, v)
  <2>1. /\ th'[t].pc \notin {"dying", "handing"} /\ \A s \in Threads : s # t => th'[s] = th[s]
    BY <1>0, <1>3 DEF TakePermit, TimeOut, ReadTask, ReadShutdown, Return, Throw, Drain, Begin,
                      EnterDeath, Die, LeaveDeath, ThreadsOK
  <2>2. \A w \in Workers : wk'[w].task = wk[w].task
    BY <1>0, <1>3 DEF TakePermit, TimeOut, ReadTask, ReadShutdown, Return, Throw, Drain,
                      EnterDeath, Die, LeaveDeath, WorkersOK
  <2>3. QED BY <1>0, <2>1, <2>2, DecidedStill
<1>4. ASSUME NEW s \in Threads, HandOver(t, v, s) \/ Restart(t, v, s) PROVE Decided'
  <2>1. PICK p \in {"leave", "gone"} : th' = [th EXCEPT ![t].pc = p, ![s] = Started(v)]
    BY <1>4 DEF HandOver, Restart
  <2>2. s # t BY <1>4 DEF HandOver, Restart, Gone, At
  <2>3. /\ th'[t].pc = p /\ th'[s].pc = "wait"
        /\ \A r \in Threads : r # t /\ r # s => th'[r] = th[r]
    BY <1>0, <2>1, <2>2 DEF ThreadsOK, Started
  <2>4. \A w \in Workers : wk'[w].task = wk[w].task
    BY <1>0, <1>4 DEF HandOver, Restart, WorkersOK
  <2>5. QED BY <1>0, <2>3, <2>4, DecidedStill
<1>5. QED BY <1>1, <1>2, <1>3, <1>4 DEF ThreadStep

LEMMA HandInvStep == HandInv /\ [Next]_vars => HandInv'
<1> SUFFICES ASSUME HandInv, [Next]_vars PROVE HandInv'
  OBVIOUS
<1>1. ThreadInv' /\ LockInv' BY ThreadInvStep, LockInvStep DEF HandInv
<1>2. HandParts' /\ Decided'
  <2>1. CASE UNCHANGED vars
    BY <2>1 DEF HandInv, HandParts, WakingFree, AwakeInWakeup, IdleWhenDead, ScanDead,
                RunningHeld, HandedTaskIsAwaited, Decided, At, vars, pool
  <2>2. ASSUME NEW c \in Clients, CallRun(c) \/ CallShutdown(c) \/ ClientStep(c)
        PROVE HandParts' /\ Decided'
    BY <2>2, HandInvClient, DecidedClient
  <2>3. ASSUME NEW t \in Threads, NEW w \in Workers, ThreadStep(t, w) \/ TimeOut(t, w)
        PROVE HandParts' /\ Decided'
    BY <2>3, HandInvThread, DecidedThread
  <2>4. QED BY <2>1, <2>2, <2>3 DEF Next, Terminated
<1>3. QED BY <1>1, <1>2 DEF HandInv

\* A task handed to a worker and not begun always finds a live worker and a permit
\* (or one on its way, or a thread about to read the field): no interleaving of
\* run(), shutdown(), time-outs and exceptions loses the wake-up.
THEOREM NoLostWakeup == Spec => []HandedTaskIsAwaited
<1>1. HandInv => HandedTaskIsAwaited BY DEF HandInv, HandParts
<1>2. QED BY <1>1, HandInvInit, HandInvStep, PTL DEF Spec

-----------------------------------------------------------------------------
(***************************************************************************)
(* No task vanishes and none is called twice.  Until it is called a task   *)
(* is in one place: with a client inside run(), in the queue, or in the    *)
(* field of a worker; and a worker's field still holds a task that was     *)
(* called only while its thread is busy (CalledBusy), so that the thread   *)
(* does not read it again.                                                 *)
(***************************************************************************)
Hand(c, x) == cl[c].pc \in {"acquire", "scan", "wake", "store"} /\ cl[c].arg = x
InQueue(x) == \E i \in 1 .. Len(queue) : queue[i] = x
InField(x) == \E w \in Workers : wk[w].task = x

NewNowhere  == \A x \in Tasks : fate[x] = "new" =>
                 runs[x] = 0 /\ ~InQueue(x) /\ ~InField(x) /\ \A c \in Clients : ~Hand(c, x)
HandOnly    == \A c \in Clients, x \in Tasks : Hand(c, x) =>
                 /\ runs[x] = 0 /\ ~InQueue(x) /\ ~InField(x)
                 /\ \A d \in Clients : Hand(d, x) => d = c
QueueOnly   == \A x \in Tasks : InQueue(x) => runs[x] = 0 /\ ~InField(x)
QueueOnce   == \A i, j \in 1 .. Len(queue) : queue[i] = queue[j] => i = j
FieldOnce   == \A v, w \in Workers :
                 wk[v].task # None /\ wk[v].task = wk[w].task => v = w
CalledOnce  == \A x \in Tasks : runs[x] <= 1
AcceptedIn  == \A x \in Tasks : fate[x] = "accepted" /\ runs[x] = 0 =>
                 InQueue(x) \/ InField(x) \/ \E c \in Clients : Hand(c, x)
CalledBusy  == \A w \in Workers : wk[w].task # None /\ runs[wk[w].task] # 0 =>
                 \E t \in Threads : th[t].of = w /\ th[t].pc \in Running

Places == /\ NewNowhere /\ HandOnly /\ QueueOnly /\ QueueOnce /\ FieldOnce
          /\ CalledOnce /\ AcceptedIn
PlaceInv == HandInv /\ Places /\ CalledBusy

LEMMA PlaceInvInit == Init => PlaceInv
<1> SUFFICES ASSUME Init PROVE PlaceInv
  OBVIOUS
<1>1. /\ \A x \in Tasks : fate[x] = "new" /\ runs[x] = 0 /\ ~InQueue(x) /\ ~InField(x)
      /\ \A c \in Clients : \A x \in Tasks : ~Hand(c, x)
      /\ \A w \in Workers : wk[w].task = None
      /\ Len(queue) = 0
  BY NoneAssumption DEF Init, InQueue, InField, Hand
<1>2. QueueOnly /\ QueueOnce BY <1>1 DEF QueueOnly, QueueOnce
<1>3. NewNowhere /\ HandOnly /\ AcceptedIn BY <1>1 DEF NewNowhere, HandOnly, AcceptedIn
<1>4. FieldOnce /\ CalledBusy BY <1>1 DEF FieldOnce, CalledBusy
<1>5. CalledOnce BY <1>1 DEF CalledOnce
<1>6. QED BY <1>2, <1>3, <1>4, <1>5, HandInvInit DEF PlaceInv, Places

\* A step that moves no task, and the same in terms of the places.
Still ==
    /\ UNCHANGED <<queue, runs>>
    /\ \A w \in Workers : wk'[w].task = wk[w].task
    /\ \A c \in Clients, x \in Tasks : Hand(c, x)' <=> Hand(c, x)

LEMMA StillPlaces ==
    ASSUME Still PROVE \A x \in Tasks : (InQueue(x)' <=> InQueue(x)) /\ (InField(x)' <=> InField(x))
BY DEF Still, InQueue, InField

LEMMA PlacesStill ==
    ASSUME Places, Still, fate' = fate PROVE Places'
<1>1. NewNowhere' BY StillPlaces DEF Places, NewNowhere, Still
<1>2. HandOnly' BY StillPlaces DEF Places, HandOnly, Still
<1>3. QueueOnly' BY StillPlaces DEF Places, QueueOnly, Still
<1>4. QueueOnce' BY DEF Places, QueueOnce, Still
<1>5. FieldOnce' /\ CalledOnce' BY DEF Places, FieldOnce, CalledOnce, Still
<1>6. AcceptedIn' BY StillPlaces DEF Places, AcceptedIn, Still
<1>7. QED BY <1>1, <1>2, <1>3, <1>4, <1>5, <1>6 DEF Places

\* A rejected task is nowhere.
LEMMA PlacesReject ==
    ASSUME Places, HistoryOK, Still, NEW x \in Tasks, fate[x] = "new",
           fate' = [fate EXCEPT ![x] = "rejected"]
    PROVE  Places'
<1>0. fate'[x] = "rejected" /\ \A y \in Tasks : y # x => fate'[y] = fate[y]
  BY DEF HistoryOK
<1>1. NewNowhere' BY <1>0, StillPlaces DEF Places, NewNowhere, Still
<1>2. HandOnly' BY StillPlaces DEF Places, HandOnly, Still
<1>3. QueueOnly' BY StillPlaces DEF Places, QueueOnly, Still
<1>4. QueueOnce' BY DEF Places, QueueOnce, Still
<1>5. FieldOnce' /\ CalledOnce' BY DEF Places, FieldOnce, CalledOnce, Still
<1>6. AcceptedIn' BY <1>0, StillPlaces DEF Places, AcceptedIn, Still
<1>7. QED BY <1>1, <1>2, <1>3, <1>4, <1>5, <1>6 DEF Places

\* The thread that is busy with a worker's task stays busy with it.
LEMMA BusyStill ==
    ASSUME CalledBusy, runs' = runs, \A w \in Workers : wk'[w].task = wk[w].task,
           \A t \in Threads : th[t].pc \in Running =>
             th'[t].pc \in Running /\ th'[t].of = th[t].of
    PROVE  CalledBusy'
BY DEF CalledBusy

\* The steps that move a task: into the client's hand, ...
LEMMA PlacesCall ==
    ASSUME Places, HistoryOK, NEW c \in Clients, NEW x \in Tasks, fate[x] = "new",
           \A y \in Tasks : ~Hand(c, y) /\ (Hand(c, y)' <=> y = x),
           \A d \in Clients, y \in Tasks : d # c => (Hand(d, y)' <=> Hand(d, y)),
           fate' = [fate EXCEPT ![x] = "accepted"], UNCHANGED <<queue, runs, wk>>
    PROVE  Places'
<1>1. fate'[x] = "accepted" /\ \A y \in Tasks : y # x => fate'[y] = fate[y]
  BY DEF HistoryOK
<1>2. \A y \in Tasks : (InQueue(y)' <=> InQueue(y)) /\ (InField(y)' <=> InField(y))
  BY DEF InQueue, InField
<1>3. /\ runs[x] = 0 /\ ~InQueue(x) /\ ~InField(x) /\ \A d \in Clients : ~Hand(d, x)
  BY DEF Places, NewNowhere
<1>4. NewNowhere' BY <1>1, <1>2 DEF Places, NewNowhere
<1>5. HandOnly'
  <2> SUFFICES ASSUME NEW e \in Clients, NEW y \in Tasks, Hand(e, y)'
               PROVE /\ runs[y] = 0 /\ ~InQueue(y) /\ ~InField(y)
                     /\ \A d \in Clients : Hand(d, y)' => d = e
    BY <1>2 DEF HandOnly
  <2>1. CASE y = x BY <1>3, <2>1
  <2>2. CASE y # x BY <2>2 DEF Places, HandOnly
  <2>3. QED BY <2>1, <2>2
<1>6. QueueOnly' /\ QueueOnce' BY <1>2 DEF Places, QueueOnly, QueueOnce
<1>7. FieldOnce' /\ CalledOnce' BY DEF Places, FieldOnce, CalledOnce
<1>8. AcceptedIn'
  <2> SUFFICES ASSUME NEW y \in Tasks, fate'[y] = "accepted", runs[y] = 0
               PROVE InQueue(y) \/ InField(y) \/ \E d \in Clients : Hand(d, y)'
    BY <1>2 DEF AcceptedIn
  <2>1. CASE y = x BY <2>1
  <2>2. CASE y # x
    <3>1. InQueue(y) \/ InField(y) \/ \E d \in Clients : Hand(d, y)
      BY <1>1, <2>2 DEF Places, AcceptedIn
    <3>2. QED BY <3>1
  <2>3. QED BY <2>1, <2>2
<1>9. QED BY <1>4, <1>5, <1>6, <1>7, <1>8 DEF Places

\* ... from there into the queue, ...
LEMMA PlacesQueue ==
    ASSUME Places, queue \in Seq(Tasks), NEW c \in Clients, NEW x \in Tasks, Hand(c, x),
           \A y \in Tasks : ~Hand(c, y)',
           \A d \in Clients, y \in Tasks : d # c => (Hand(d, y)' <=> Hand(d, y)),
           queue' = Append(queue, x), UNCHANGED <<fate, runs, wk>>
    PROVE  Places'
<1>1. /\ runs[x] = 0 /\ ~InQueue(x) /\ ~InField(x)
      /\ \A d \in Clients : Hand(d, x) => d = c
  BY DEF Places, HandOnly
<1>2. /\ Len(queue) \in Nat /\ Len(queue') = Len(queue) + 1 /\ queue'[Len(queue) + 1] = x
      /\ \A i \in 1 .. Len(queue) : queue'[i] = queue[i]
  OBVIOUS
<1>3. /\ \A i \in 1 .. Len(queue') : i \in 1 .. Len(queue) \/ i = Len(queue) + 1
      /\ \A i \in 1 .. Len(queue) : i \in 1 .. Len(queue') /\ i # Len(queue) + 1
      /\ Len(queue) + 1 \in 1 .. Len(queue')
  BY <1>2
<1>4. \A y \in Tasks : (InQueue(y)' <=> InQueue(y) \/ y = x) /\ (InField(y)' <=> InField(y))
  BY <1>2, <1>3 DEF InQueue, InField
<1>5. fate[x] # "new" BY DEF Places, NewNowhere
<1>6. NewNowhere' BY <1>4, <1>5 DEF Places, NewNowhere
<1>7. HandOnly'
  <2> SUFFICES ASSUME NEW e \in Clients, NEW y \in Tasks, Hand(e, y)'
               PROVE /\ runs[y] = 0 /\ ~InQueue(y)' /\ ~InField(y)
                     /\ \A d \in Clients : Hand(d, y)' => d = e
    BY <1>4 DEF HandOnly
  <2>1. e # c /\ Hand(e, y) OBVIOUS
  <2>2. y # x BY <1>1, <2>1
  <2>3. QED BY <1>4, <2>1, <2>2 DEF Places, HandOnly
<1>8. QueueOnly' BY <1>1, <1>4 DEF Places, QueueOnly
<1>9. QueueOnce'
  <2>1. \A i \in 1 .. Len(queue) : queue[i] # x BY <1>1 DEF InQueue
  <2>2. QED BY <1>2, <1>3, <2>1 DEF Places, QueueOnce
<1>10. FieldOnce' /\ CalledOnce' BY DEF Places, FieldOnce, CalledOnce
<1>11. AcceptedIn'
  <2> SUFFICES ASSUME NEW y \in Tasks, fate[y] = "accepted", runs[y] = 0, y # x
               PROVE InQueue(y) \/ InField(y) \/ \E d \in Clients : Hand(d, y)'
    BY <1>4 DEF AcceptedIn
  <2>1. InQueue(y) \/ InField(y) \/ \E d \in Clients : Hand(d, y) BY DEF Places, AcceptedIn
  <2>2. \A d \in Clients : Hand(d, y) /\ d = c => y = x BY DEF Hand
  <2>3. QED BY <2>1, <2>2
<1>12. QED BY <1>6, <1>7, <1>8, <1>9, <1>10, <1>11 DEF Places

\* ... or into the field of a worker, which is empty, ...
LEMMA PlacesStore ==
    ASSUME Places, NEW c \in Clients, NEW w \in Workers, NEW x \in Tasks, Hand(c, x),
           \A y \in Tasks : ~Hand(c, y)',
           \A d \in Clients, y \in Tasks : d # c => (Hand(d, y)' <=> Hand(d, y)),
           wk[w].task = None, wk'[w].task = x,
           \A v \in Workers : v # w => wk'[v].task = wk[v].task,
           UNCHANGED <<queue, fate, runs>>
    PROVE  Places'
<1>1. /\ runs[x] = 0 /\ ~InQueue(x) /\ ~InField(x)
      /\ \A d \in Clients : Hand(d, x) => d = c
  BY DEF Places, HandOnly
<1>2. x # None BY NoneAssumption
<1>3. \A y \in Tasks : (InField(y)' <=> InField(y) \/ y = x) /\ (InQueue(y)' <=> InQueue(y))
  BY NoneAssumption DEF InField, InQueue
<1>4. fate[x] # "new" BY DEF Places, NewNowhere
<1>5. NewNowhere' BY <1>3, <1>4 DEF Places, NewNowhere
<1>6. HandOnly'
  <2> SUFFICES ASSUME NEW e \in Clients, NEW y \in Tasks, Hand(e, y)'
               PROVE /\ runs[y] = 0 /\ ~InQueue(y) /\ ~InField(y)'
                     /\ \A d \in Clients : Hand(d, y)' => d = e
    BY <1>3 DEF HandOnly
  <2>1. e # c /\ Hand(e, y) OBVIOUS
  <2>2. y # x BY <1>1, <2>1
  <2>3. QED BY <1>3, <2>1, <2>2 DEF Places, HandOnly
<1>7. QueueOnly' BY <1>1, <1>3 DEF Places, QueueOnly
<1>8. QueueOnce' /\ CalledOnce' BY DEF Places, QueueOnce, CalledOnce
<1>9. FieldOnce' BY <1>1, <1>2 DEF Places, FieldOnce, InField
<1>10. AcceptedIn'
  <2> SUFFICES ASSUME NEW y \in Tasks, fate[y] = "accepted", runs[y] = 0, y # x
               PROVE InQueue(y) \/ InField(y) \/ \E d \in Clients : Hand(d, y)'
    BY <1>3 DEF AcceptedIn
  <2>1. InQueue(y) \/ InField(y) \/ \E d \in Clients : Hand(d, y) BY DEF Places, AcceptedIn
  <2>2. \A d \in Clients : Hand(d, y) /\ d = c => y = x BY DEF Hand
  <2>3. QED BY <2>1, <2>2
<1>11. QED BY <1>5, <1>6, <1>7, <1>8, <1>9, <1>10 DEF Places

\* ... from either place to the thread that calls it, which takes it from the queue
\* but leaves it in the field, ...
LEMMA PlacesBegin ==
    ASSUME Places, HistoryOK, NEW x \in Tasks, runs[x] = 0, InQueue(x) \/ InField(x),
           runs' = [runs EXCEPT ![x] = @ + 1], QueueOnce',
           \A y \in Tasks : InQueue(y)' <=> InQueue(y) /\ y # x,
           UNCHANGED <<fate, wk, cl>>
    PROVE  Places'
<1>1. runs'[x] = 1 /\ \A y \in Tasks : y # x => runs'[y] = runs[y] BY DEF HistoryOK
<1>2. \A y \in Tasks : InField(y)' <=> InField(y) BY DEF InField
<1>3. \A c \in Clients, y \in Tasks : Hand(c, y)' <=> Hand(c, y) BY DEF Hand
<1>4. fate[x] # "new" /\ \A c \in Clients : ~Hand(c, x) BY DEF Places, NewNowhere, HandOnly
<1>5. NewNowhere' BY <1>1, <1>2, <1>3, <1>4 DEF Places, NewNowhere
<1>6. HandOnly' BY <1>1, <1>2, <1>3, <1>4 DEF Places, HandOnly
<1>7. QueueOnly' BY <1>1, <1>2 DEF Places, QueueOnly
<1>8. FieldOnce' BY DEF Places, FieldOnce
<1>9. CalledOnce' BY <1>1 DEF Places, CalledOnce
<1>10. AcceptedIn' BY <1>1, <1>2, <1>3 DEF Places, AcceptedIn
<1>11. QED BY <1>5, <1>6, <1>7, <1>8, <1>9, <1>10 DEF Places

\* ... and out of the field once it has been called.
LEMMA PlacesClear ==
    ASSUME Places, NEW w \in Workers, wk[w].task \in Tasks, runs[wk[w].task] > 0,
           wk'[w].task = None, \A v \in Workers : v # w => wk'[v].task = wk[v].task,
           UNCHANGED <<queue, fate, runs, cl>>
    PROVE  Places'
<1> DEFINE x == wk[w].task
<1>1. \A y \in Tasks : InField(y)' <=> InField(y) /\ y # x
  BY NoneAssumption DEF Places, FieldOnce, InField
<1>2. \A y \in Tasks : InQueue(y)' <=> InQueue(y) BY DEF InQueue
<1>3. \A c \in Clients, y \in Tasks : Hand(c, y)' <=> Hand(c, y) BY DEF Hand
<1>4. runs[x] # 0 OBVIOUS
<1> HIDE DEF x
<1>5. NewNowhere' BY <1>1, <1>2, <1>3 DEF Places, NewNowhere
<1>6. HandOnly' BY <1>1, <1>2, <1>3 DEF Places, HandOnly
<1>7. QueueOnly' BY <1>1, <1>2 DEF Places, QueueOnly
<1>8. QueueOnce' /\ CalledOnce' BY DEF Places, QueueOnce, CalledOnce
<1>9. FieldOnce' BY DEF Places, FieldOnce
<1>10. AcceptedIn' BY <1>1, <1>2, <1>3, <1>4 DEF Places, AcceptedIn
<1>11. QED BY <1>5, <1>6, <1>7, <1>8, <1>9, <1>10 DEF Places

\* What the steps of a client do to the places of the tasks.
LEMMA PlacesClient ==
    ASSUME PlaceInv, NEW c \in Clients, CallRun(c) \/ CallShutdown(c) \/ ClientStep(c)
    PROVE  Places' /\ CalledBusy'
<1>0. ClientsOK /\ WorkersOK /\ ThreadsOK /\ HistoryOK /\ queue \in Seq(Tasks) /\ Places
      /\ CalledBusy
  BY DEF PlaceInv, HandInv, LockInv, TypeInv, TypeOK, PoolOK
<1>1. ASSUME \A d \in Clients : d # c => cl'[d] = cl[d]
      PROVE  \A d \in Clients, y \in Tasks : d # c => (Hand(d, y)' <=> Hand(d, y))
  BY <1>1 DEF Hand
<1>2. ASSUME UNCHANGED <<queue, runs, fate, th>>,
             \A w \in Workers : wk'[w].task = wk[w].task,
             \A d \in Clients : d # c => cl'[d] = cl[d],
             \A y \in Tasks : Hand(c, y)' <=> Hand(c, y)
      PROVE  Places' /\ CalledBusy'
  <2>1. Still BY <1>2, <1>1 DEF Still
  <2>2. QED BY <1>0, <1>2, <2>1, PlacesStill, BusyStill
<1>3. CASE CallRun(c)
  <2>1. PICK x \in Tasks :
          /\ cl[c].pc = "idle" /\ fate[x] = "new" /\ UNCHANGED <<queue, wk, th, runs>>
          /\ \/ fate' = [fate EXCEPT ![x] = "rejected"] /\ cl' = cl
             \/ /\ fate' = [fate EXCEPT ![x] = "accepted"]
                /\ cl' = [cl EXCEPT ![c].pc = "acquire", ![c].arg = x]
    BY <1>3 DEF CallRun, pool
  <2>2. CalledBusy' BY <1>0, <2>1, BusyStill
  <2>3. CASE fate' = [fate EXCEPT ![x] = "rejected"] /\ cl' = cl
    <3>1. Still BY <2>1, <2>3 DEF Still, Hand
    <3>2. QED BY <1>0, <2>1, <2>2, <2>3, <3>1, PlacesReject
  <2>4. CASE /\ fate' = [fate EXCEPT ![x] = "accepted"]
             /\ cl' = [cl EXCEPT ![c].pc = "acquire", ![c].arg = x]
    <3>1. /\ cl'[c].pc = "acquire" /\ cl'[c].arg = x
          /\ \A d \in Clients : d # c => cl'[d] = cl[d]
      BY <1>0, <2>4 DEF ClientsOK
    <3>2. \A y \in Tasks : ~Hand(c, y) /\ (Hand(c, y)' <=> y = x) BY <2>1, <3>1 DEF Hand
    <3>3. QED BY <1>0, <1>1, <2>1, <2>2, <2>4, <3>1, <3>2, PlacesCall
  <2>5. QED BY <2>1, <2>3, <2>4
<1>4. CASE CallShutdown(c)
  <2>1. /\ UNCHANGED <<queue, runs, fate, th, wk>> /\ cl[c].pc = "idle"
        /\ cl'[c].pc = "sacquire" /\ \A d \in Clients : d # c => cl'[d] = cl[d]
    BY <1>0, <1>4 DEF CallShutdown, ClientsOK, pool
  <2>2. QED BY <1>2, <2>1 DEF Hand
<1>5. CASE Acquire(c)
  <2>1. /\ UNCHANGED <<queue, runs, fate, th, wk>> /\ cl[c].pc = "acquire"
        /\ cl'[c].pc = "scan" /\ cl'[c].arg = cl[c].arg
        /\ \A d \in Clients : d # c => cl'[d] = cl[d]
    BY <1>0, <1>5 DEF Acquire, ClientsOK
  <2>2. QED BY <1>2, <2>1 DEF Hand
<1>6. CASE NoNewWorker(c)
  <2>1. cl[c].pc = "scan" /\ cl[c].deadWorker = 0 /\ cl[c].arg \in Tasks
    BY <1>6 DEF NoNewWorker, NotSubmitted, PlaceInv, HandInv, HandParts, ScanDead, LockInv,
                TypeInv, ArgOK
  <2>2. /\ queue' = Append(queue, cl[c].arg) /\ UNCHANGED <<fate, runs, wk, th>>
        /\ cl' = [cl EXCEPT ![c].pc = "release"]
    BY <1>6, <2>1 DEF NoNewWorker
  <2>3. cl'[c].pc = "release" /\ \A d \in Clients : d # c => cl'[d] = cl[d]
    BY <1>0, <2>2 DEF ClientsOK
  <2>4. Hand(c, cl[c].arg) /\ \A y \in Tasks : ~Hand(c, y)' BY <2>1, <2>3 DEF Hand
  <2>5. Places' BY <1>0, <1>1, <2>1, <2>2, <2>3, <2>4, PlacesQueue
  <2>6. QED BY <1>0, <2>2, <2>5, BusyStill
<1>7. CASE Release(c)
  <2>1. /\ UNCHANGED <<queue, runs, fate, th, wk>> /\ cl[c].pc = "release"
        /\ cl'[c].pc = "idle" /\ \A d \in Clients : d # c => cl'[d] = cl[d]
    BY <1>0, <1>7 DEF Release, ClientsOK
  <2>2. QED BY <1>2, <2>1 DEF Hand
<1>8. CASE BeginShutdown(c)
  <2>1. /\ UNCHANGED <<queue, runs, fate, th, wk>> /\ cl[c].pc = "sacquire"
        /\ cl'[c].pc \in {"release", "tell"} /\ \A d \in Clients : d # c => cl'[d] = cl[d]
    BY <1>0, <1>8 DEF BeginShutdown, ClientsOK
  <2>2. QED BY <1>2, <2>1 DEF Hand
<1>9. ASSUME NEW t \in Threads, NewWorker(c, t) PROVE Places' /\ CalledBusy'
  <2>1. /\ UNCHANGED <<queue, runs, fate, wk>> /\ cl[c].pc = "scan"
        /\ cl'[c].pc = "wake" /\ cl'[c].arg = cl[c].arg
        /\ \A d \in Clients : d # c => cl'[d] = cl[d]
    BY <1>0, <1>9 DEF NewWorker, NotSubmitted, ClientsOK
  <2>2. Still BY <1>1, <2>1 DEF Still, Hand
  <2>3. th[t].pc = "gone" /\ \A s \in Threads : s # t => th'[s] = th[s]
    BY <1>0, <1>9 DEF NewWorker, Gone, ThreadsOK
  <2>4. \A s \in Threads : th[s].pc \in Running => s # t BY <2>3 DEF Running
  <2>5. CalledBusy' BY <1>0, <2>1, <2>3, <2>4, BusyStill
  <2>6. QED BY <1>0, <2>1, <2>2, <2>5, PlacesStill
<1>10. ASSUME NEW w \in Workers, Scan(c, w) PROVE Places' /\ CalledBusy'
  <2>1. /\ UNCHANGED <<queue, runs, fate, th, wk>> /\ cl[c].pc = "scan"
        /\ cl'[c].pc \in {"scan", "wake"} /\ cl'[c].arg = cl[c].arg
        /\ \A d \in Clients : d # c => cl'[d] = cl[d]
    BY <1>0, <1>10 DEF Scan, ClientsOK, pool
  <2>2. QED BY <1>2, <2>1 DEF Hand
<1>11. ASSUME NEW w \in Workers, WakeAlive(c, w) PROVE Places' /\ CalledBusy'
  <2>1. /\ UNCHANGED <<queue, runs, fate, th>> /\ cl[c].pc = "wake"
        /\ cl'[c].pc = "store" /\ cl'[c].arg = cl[c].arg
        /\ \A d \in Clients : d # c => cl'[d] = cl[d]
        /\ \A v \in Workers : wk'[v].task = wk[v].task
    BY <1>0, <1>11 DEF WakeAlive, Waking, ClientsOK, WorkersOK, pool
  <2>2. QED BY <1>2, <2>1 DEF Hand
<1>12. ASSUME NEW w \in Workers, NEW t \in Threads, WakeDead(c, w, t)
       PROVE Places' /\ CalledBusy'
  <2>1. /\ UNCHANGED <<queue, runs, fate>> /\ cl[c].pc = "wake"
        /\ cl'[c].pc = "store" /\ cl'[c].arg = cl[c].arg
        /\ \A d \in Clients : d # c => cl'[d] = cl[d]
        /\ \A v \in Workers : wk'[v].task = wk[v].task
    BY <1>0, <1>12 DEF WakeDead, Waking, ClientsOK, WorkersOK, pool
  <2>2. Still BY <1>1, <2>1 DEF Still, Hand
  <2>3. th[t].pc = "gone" /\ \A s \in Threads : s # t => th'[s] = th[s]
    BY <1>0, <1>12 DEF WakeDead, Gone, ThreadsOK
  <2>4. \A s \in Threads : th[s].pc \in Running => s # t BY <2>3 DEF Running
  <2>5. CalledBusy' BY <1>0, <2>1, <2>3, <2>4, BusyStill
  <2>6. QED BY <1>0, <2>1, <2>2, <2>5, PlacesStill
<1>13. ASSUME NEW w \in Workers, Store(c, w) PROVE Places' /\ CalledBusy'
  <2>1. /\ cl[c].pc = "store" /\ cl[c].target = w /\ UNCHANGED <<queue, th, fate, runs>>
        /\ wk' = [wk EXCEPT ![w].task = cl[c].arg] /\ cl' = [cl EXCEPT ![c].pc = "signal"]
    BY <1>13 DEF Store, Waking, pool
  <2>2. cl'[c].pc = "signal" /\ \A d \in Clients : d # c => cl'[d] = cl[d]
    BY <1>0, <2>1 DEF ClientsOK
  <2>3. wk'[w].task = cl[c].arg /\ \A v \in Workers : v # w => wk'[v].task = wk[v].task
    BY <1>0, <2>1 DEF WorkersOK
  <2>4. cl[c].arg \in Tasks /\ wk[w].task = None
    BY <2>1 DEF PlaceInv, HandInv, HandParts, WakingFree, LockInv, TypeInv, ArgOK
  <2>5. Hand(c, cl[c].arg) /\ \A y \in Tasks : ~Hand(c, y)' BY <2>1, <2>2 DEF Hand
  <2>6. Places' BY <1>0, <1>1, <2>1, <2>2, <2>3, <2>4, <2>5, PlacesStore
  <2>7. runs[cl[c].arg] = 0 BY <1>0, <2>4, <2>5 DEF Places, HandOnly
  <2>8. CalledBusy' BY <1>0, <2>1, <2>3, <2>7 DEF CalledBusy
  <2>9. QED BY <2>6, <2>8
<1>14. ASSUME NEW w \in Workers, Signal(c, w) PROVE Places' /\ CalledBusy'
  <2>1. /\ UNCHANGED <<queue, runs, fate, th>> /\ cl[c].pc = "signal"
        /\ cl'[c].pc = "release" /\ \A d \in Clients : d # c => cl'[d] = cl[d]
        /\ \A v \in Workers : wk'[v].task = wk[v].task
    BY <1>0, <1>14 DEF Signal, Waking, ClientsOK, WorkersOK, pool
  <2>2. QED BY <1>2, <2>1 DEF Hand
<1>15. ASSUME NEW w \in Workers, Tell(c, w) PROVE Places' /\ CalledBusy'
  <2>1. /\ UNCHANGED <<queue, runs, fate, th>> /\ cl[c].pc = "tell"
        /\ cl'[c].pc = "ring" /\ \A d \in Clients : d # c => cl'[d] = cl[d]
        /\ \A v \in Workers : wk'[v].task = wk[v].task
    BY <1>0, <1>15 DEF Tell, Stopping, ClientsOK, WorkersOK, pool
  <2>2. QED BY <1>2, <2>1 DEF Hand
<1>16. ASSUME NEW w \in Workers, Ring(c, w) PROVE Places' /\ CalledBusy'
  <2>1. /\ UNCHANGED <<queue, runs, fate, th>> /\ cl[c].pc = "ring"
        /\ cl'[c].pc \in {"release", "tell"} /\ \A d \in Clients : d # c => cl'[d] = cl[d]
        /\ \A v \in Workers : wk'[v].task = wk[v].task
    BY <1>0, <1>16 DEF Ring, NextToStop, Stopping, ClientsOK, WorkersOK, pool
  <2>2. QED BY <1>2, <2>1 DEF Hand
<1>17. QED BY <1>3, <1>4, <1>5, <1>6, <1>7, <1>8, <1>9, <1>10, <1>11, <1>12, <1>13,
              <1>14, <1>15, <1>16 DEF ClientStep

\* The head of the queue leaves it.
LEMMA QueuePopped ==
    ASSUME queue \in Seq(Tasks), queue # << >>, QueueOnce, queue' = Tail(queue)
    PROVE  /\ Head(queue) \in Tasks /\ InQueue(Head(queue)) /\ QueueOnce'
           /\ \A y \in Tasks : InQueue(y)' <=> InQueue(y) /\ y # Head(queue)
<1>1. /\ Len(queue) \in Nat /\ Len(queue) > 0 /\ Len(queue') = Len(queue) - 1
      /\ Head(queue) = queue[1] /\ Head(queue) \in Tasks
      /\ \A i \in 1 .. Len(queue') : queue'[i] = queue[i + 1]
  OBVIOUS
<1>2. /\ 1 \in 1 .. Len(queue)
      /\ \A i \in 1 .. Len(queue') : i \in Nat /\ i + 1 \in 1 .. Len(queue) /\ i + 1 # 1
      /\ \A i \in 1 .. Len(queue) :
           i = 1 \/ (i - 1 \in 1 .. Len(queue') /\ (i - 1) + 1 = i)
  BY <1>1
<1>3. \A i, j \in 1 .. Len(queue') : i + 1 = j + 1 => i = j BY <1>1
<1>4. QueueOnce' BY <1>1, <1>2, <1>3 DEF QueueOnce
<1>5. InQueue(Head(queue)) BY <1>1, <1>2 DEF InQueue
<1>6. ASSUME NEW y \in Tasks PROVE InQueue(y)' <=> InQueue(y) /\ y # Head(queue)
  <2>1. InQueue(y)' => InQueue(y) /\ y # Head(queue)
    BY <1>1, <1>2 DEF InQueue, QueueOnce
  <2>2. ASSUME InQueue(y), y # Head(queue) PROVE InQueue(y)'
    <3>1. PICK i \in 1 .. Len(queue) : queue[i] = y BY <2>2 DEF InQueue
    <3>2. i # 1 BY <1>1, <2>2, <3>1
    <3>3. i - 1 \in 1 .. Len(queue') /\ (i - 1) + 1 = i BY <1>2, <3>2
    <3>4. queue'[i - 1] = y BY <1>1, <3>1, <3>3
    <3>5. QED BY <3>3, <3>4 DEF InQueue
  <2>3. QED BY <2>1, <2>2
<1>7. QED BY <1>1, <1>4, <1>5, <1>6

\* What the steps of a worker thread do to the places of the tasks.
LEMMA PlacesThread ==
    ASSUME PlaceInv, NEW t \in Threads, NEW w \in Workers, ThreadStep(t, w) \/ TimeOut(t, w)
    PROVE  Places' /\ CalledBusy'
<1>0. WorkersOK /\ ThreadsOK /\ HistoryOK /\ queue \in Seq(Tasks) /\ Places /\ CalledBusy
  BY DEF PlaceInv, HandInv, LockInv, TypeInv, TypeOK, PoolOK
<1>1. ASSUME UNCHANGED <<queue, runs, fate, cl>>,
             \A v \in Workers : wk'[v].task = wk[v].task,
             \A s \in Threads : th[s].pc \in Running =>
                 th'[s].pc \in Running /\ th'[s].of = th[s].of
      PROVE  Places' /\ CalledBusy'
  <2>1. Still BY <1>1 DEF Still, Hand
  <2>2. QED BY <1>0, <1>1, <2>1, PlacesStill, BusyStill
<1>2. CASE TakePermit(t, w) \/ TimeOut(t, w) \/ ReadShutdown(t, w)
           \/ (ReadTask(t, w) /\ wk[w].task = None)
  <2>1. /\ UNCHANGED <<queue, runs, fate, cl>> /\ th[t].pc \in {"wait", "read", "readShut"}
    BY <1>2 DEF TakePermit, TimeOut, ReadShutdown, ReadTask, At, pool
  <2>2. \A v \in Workers : wk'[v].task = wk[v].task
    BY <1>0, <1>2 DEF TakePermit, TimeOut, ReadShutdown, ReadTask, WorkersOK
  <2>3. \A s \in Threads : s # t => th'[s] = th[s]
    BY <1>0, <1>2 DEF TakePermit, TimeOut, ReadShutdown, ReadTask, ThreadsOK
  <2>4. QED BY <1>1, <2>1, <2>2, <2>3 DEF Running
<1>3. CASE Return(t, w) \/ Throw(t, w) \/ (Drain(t, w) /\ queue = << >>)
  <2>1. /\ UNCHANGED <<queue, runs, fate, cl, wk>> /\ th'[t].of = th[t].of
        /\ th'[t].pc \in {"drain", "catch", "clear"}
        /\ \A s \in Threads : s # t => th'[s] = th[s]
    BY <1>0, <1>3 DEF Return, Throw, Drain, At, ThreadsOK, pool
  <2>2. QED BY <1>1, <2>1 DEF Running
<1>4. CASE EnterDeath(t, w) \/ LookAgain(t, w) \/ Die(t, w) \/ LeaveDeath(t, w)
  <2>1. /\ UNCHANGED <<queue, runs, fate, cl>> /\ th[t].pc \in Deciding \cup {"death"}
    BY <1>4 DEF EnterDeath, LookAgain, Die, LeaveDeath, At, pool, Deciding
  <2>2. \A v \in Workers : wk'[v].task = wk[v].task
    <3>1. CASE EnterDeath(t, w) BY <1>0, <3>1 DEF EnterDeath, WorkersOK
    <3>2. CASE LookAgain(t, w) BY <3>2 DEF LookAgain
    <3>3. CASE Die(t, w) BY <1>0, <3>3 DEF Die, WorkersOK
    <3>4. CASE LeaveDeath(t, w) BY <1>0, <3>4 DEF LeaveDeath, WorkersOK
    <3>5. QED BY <1>4, <3>1, <3>2, <3>3, <3>4
  <2>3. \A s \in Threads : s # t => th'[s] = th[s]
    BY <1>0, <1>4 DEF EnterDeath, LookAgain, Die, LeaveDeath, ThreadsOK
  <2>4. QED BY <1>1, <2>1, <2>2, <2>3 DEF Running, Deciding
<1>5. ASSUME NEW s \in Threads, HandOver(t, w, s) \/ Restart(t, w, s)
      PROVE Places' /\ CalledBusy'
  <2>1. /\ UNCHANGED <<queue, runs, fate, cl>> /\ th[t].pc \in {"handing", "restart"}
        /\ th[s].pc = "gone" /\ wk' = [wk EXCEPT ![w].dead = FALSE]
    BY <1>5 DEF HandOver, Restart, Gone, At, pool
  <2>0. PICK p \in {"leave", "gone"} : th' = [th EXCEPT ![t].pc = p, ![s] = Started(w)]
    BY <1>5 DEF HandOver, Restart
  <2>2. \A v \in Workers : wk'[v].task = wk[v].task BY <1>0, <2>1 DEF WorkersOK
  <2>3. \A r \in Threads : r # t /\ r # s => th'[r] = th[r] BY <1>0, <2>0 DEF ThreadsOK
  <2>4. QED BY <1>1, <2>1, <2>2, <2>3 DEF Running
<1>6. CASE ReadTask(t, w) /\ wk[w].task # None
  <2> DEFINE x == wk[w].task
  <2>1. x \in Tasks BY <1>0, <1>6 DEF WorkersOK
  <2>2. /\ th[t].pc = "read" /\ th[t].of = w /\ UNCHANGED <<queue, fate, wk, cl>>
        /\ th' = [th EXCEPT ![t].pc = "run", ![t].fn = x] /\ runs' = [runs EXCEPT ![x] = @ + 1]
    BY <1>6 DEF ReadTask, At, Begin, pool
  <2>3. th'[t].pc = "run" /\ th'[t].of = w /\ \A s \in Threads : s # t => th'[s] = th[s]
    BY <1>0, <2>2 DEF ThreadsOK
  <2>4. runs[x] = 0
    <3> SUFFICES ASSUME runs[x] # 0 PROVE FALSE
      OBVIOUS
    <3>1. PICK s \in Threads : th[s].of = w /\ th[s].pc \in Running
      BY <1>0, <1>6 DEF CalledBusy
    <3>2. Serving(s, w) /\ Serving(t, w) /\ s # t BY <2>2, <3>1 DEF Serving, Running
    <3>3. QED BY <3>2 DEF PlaceInv, HandInv, ThreadInv, OneThreadPerWorker
  <2>5. InField(x) /\ x # None BY <1>6 DEF InField
  <2>6. runs'[x] = runs[x] + 1 /\ \A y \in Tasks : y # x => runs'[y] = runs[y]
    BY <1>0, <2>1, <2>2 DEF HistoryOK
  <2>7. ~InQueue(x) BY <1>0, <2>1, <2>5 DEF Places, QueueOnly
  <2>8. \A y \in Tasks : InQueue(y)' <=> InQueue(y) /\ y # x BY <2>2, <2>7 DEF InQueue
  <2>9. QueueOnce' BY <1>0, <2>2 DEF Places, QueueOnce
  <2>10. \A v \in Workers : v # w /\ wk[v].task # None => wk[v].task # x /\ wk[v].task \in Tasks
    BY <1>0, <2>5 DEF Places, FieldOnce, WorkersOK
  <2>11. CalledBusy'
    <3> SUFFICES ASSUME NEW v \in Workers, wk'[v].task # None, runs'[wk'[v].task] # 0
                 PROVE  \E s \in Threads : th'[s].of = v /\ th'[s].pc \in Running
      BY DEF CalledBusy
    <3>0. wk[v].task # None /\ runs'[wk[v].task] # 0 BY <2>2
    <3>1. CASE v = w BY <2>3, <3>1 DEF Running
    <3>2. CASE v # w
      <4>1. runs[wk[v].task] # 0 BY <2>6, <2>10, <3>0, <3>2
      <4>2. PICK s \in Threads : th[s].of = v /\ th[s].pc \in Running
        BY <1>0, <3>0, <4>1 DEF CalledBusy
      <4>3. s # t BY <2>2, <3>2, <4>2
      <4>4. QED BY <2>3, <4>2, <4>3
    <3>3. QED BY <3>1, <3>2
  <2> HIDE DEF x
  <2>12. Places' BY <1>0, <2>1, <2>2, <2>4, <2>5, <2>8, <2>9, PlacesBegin
  <2>13. QED BY <2>11, <2>12
<1>7. CASE Drain(t, w) /\ queue # << >>
  <2> DEFINE x == Head(queue)
  <2>1. /\ x \in Tasks /\ InQueue(x) /\ QueueOnce'
        /\ \A y \in Tasks : InQueue(y)' <=> InQueue(y) /\ y # x
    BY <1>0, <1>7, QueuePopped DEF Drain, Places
  <2>2. /\ th[t].pc = "drain" /\ UNCHANGED <<fate, wk, cl>>
        /\ th' = [th EXCEPT ![t].pc = "run", ![t].fn = x] /\ runs' = [runs EXCEPT ![x] = @ + 1]
    BY <1>7 DEF Drain, At, Begin
  <2> HIDE DEF x
  <2>3. /\ th'[t].pc = "run" /\ th'[t].of = th[t].of
        /\ \A s \in Threads : s # t => th'[s] = th[s]
    BY <1>0, <2>2 DEF ThreadsOK
  <2>4. runs[x] = 0 /\ ~InField(x) BY <1>0, <2>1 DEF Places, QueueOnly
  <2>5. \A y \in Tasks : y # x => runs'[y] = runs[y] BY <1>0, <2>2 DEF HistoryOK
  <2>6. \A v \in Workers : wk[v].task # None => wk[v].task # x /\ wk[v].task \in Tasks
    BY <1>0, <2>4 DEF InField, WorkersOK
  <2>7. \A s \in Threads : th[s].pc \in Running => th'[s].pc \in Running /\ th'[s].of = th[s].of
    BY <2>3 DEF Running
  <2>8. CalledBusy'
    <3> SUFFICES ASSUME NEW v \in Workers, wk'[v].task # None, runs'[wk'[v].task] # 0
                 PROVE  \E s \in Threads : th'[s].of = v /\ th'[s].pc \in Running
      BY DEF CalledBusy
    <3>1. wk[v].task # None /\ runs[wk[v].task] # 0 BY <2>2, <2>5, <2>6
    <3>2. PICK s \in Threads : th[s].of = v /\ th[s].pc \in Running
      BY <1>0, <3>1 DEF CalledBusy
    <3>3. QED BY <2>7, <3>2
  <2>9. Places' BY <1>0, <2>1, <2>2, <2>4, PlacesBegin
  <2>10. QED BY <2>8, <2>9
<1>8. CASE Clear(t, w) \/ Catch(t, w)
  <2>1. /\ th[t].pc \in {"clear", "catch"} /\ th[t].of = w
        /\ UNCHANGED <<queue, fate, runs, cl>>
        /\ wk'[w].task = None /\ \A v \in Workers : v # w => wk'[v].task = wk[v].task
        /\ \A s \in Threads : s # t => th'[s] = th[s]
    BY <1>0, <1>8 DEF Clear, Catch, At, ThreadsOK, WorkersOK, pool
  <2>2. wk[w].task # None /\ runs[wk[w].task] > 0
    BY <2>1 DEF PlaceInv, HandInv, HandParts, RunningHeld
  <2>3. wk[w].task \in Tasks BY <1>0, <2>2 DEF WorkersOK
  <2>4. Places' BY <1>0, <2>1, <2>2, <2>3, PlacesClear
  <2>5. CalledBusy'
    <3> SUFFICES ASSUME NEW v \in Workers, wk'[v].task # None, runs'[wk'[v].task] # 0
                 PROVE  \E s \in Threads : th'[s].of = v /\ th'[s].pc \in Running
      BY DEF CalledBusy
    <3>1. v # w /\ wk'[v].task = wk[v].task BY <2>1
    <3>2. PICK s \in Threads : th[s].of = v /\ th[s].pc \in Running
      BY <1>0, <2>1, <3>1 DEF CalledBusy
    <3>3. s # t BY <2>1, <3>1, <3>2
    <3>4. QED BY <2>1, <3>2, <3>3
  <2>6. QED BY <2>4, <2>5
<1>9. QED BY <1>2, <1>3, <1>4, <1>5, <1>6, <1>7, <1>8 DEF ThreadStep

LEMMA PlaceInvStep == PlaceInv /\ [Next]_vars => PlaceInv'
<1> SUFFICES ASSUME PlaceInv, [Next]_vars PROVE PlaceInv'
  OBVIOUS
<1>1. HandInv' BY HandInvStep DEF PlaceInv
<1>2. Places' /\ CalledBusy'
  <2>1. CASE UNCHANGED vars
    <3>1. Still /\ UNCHANGED <<fate, runs, wk, th>> BY <2>1 DEF Still, Hand, vars, pool
    <3>2. QED BY <3>1, PlacesStill, BusyStill DEF PlaceInv
  <2>2. ASSUME NEW c \in Clients, CallRun(c) \/ CallShutdown(c) \/ ClientStep(c)
        PROVE Places' /\ CalledBusy'
    BY <2>2, PlacesClient
  <2>3. ASSUME NEW t \in Threads, NEW w \in Workers, ThreadStep(t, w) \/ TimeOut(t, w)
        PROVE Places' /\ CalledBusy'
    BY <2>3, PlacesThread
  <2>4. QED BY <2>1, <2>2, <2>3 DEF Next, Terminated
<1>3. QED BY <1>1, <1>2 DEF PlaceInv

\* Whatever the spurious permits, time-outs, revivals and exceptions, a task is called
\* at most once, and one that run() accepted stays with its client, in the queue or in
\* the field of a worker until a thread calls it.
THEOREM TasksSurvive == Spec => []NoTaskVanishes
<1>1. PlaceInv => NoTaskVanishes
  <2> SUFFICES ASSUME PlaceInv, NEW x \in Tasks
               PROVE  /\ runs[x] <= 1
                      /\ fate[x] = "accepted" /\ runs[x] = 0 =>
                            \/ \E c \in Clients : cl[c].arg = x
                            \/ \E i \in 1 .. Len(queue) : queue[i] = x
                            \/ \E w \in Workers : wk[w].task = x
    BY DEF NoTaskVanishes
  <2>1. runs[x] <= 1 BY DEF PlaceInv, Places, CalledOnce
  <2>2. fate[x] = "accepted" /\ runs[x] = 0 =>
          InQueue(x) \/ InField(x) \/ \E c \in Clients : Hand(c, x)
    BY DEF PlaceInv, Places, AcceptedIn
  <2>3. QED BY <2>1, <2>2 DEF InQueue, InField, Hand
<1>2. QED BY <1>1, PlaceInvInit, PlaceInvStep, PTL DEF Spec

\* What the last look of a thread at `task` found still holds when the thread marks the
\* worker dead or starts another thread, whoever is inside run() meanwhile; and a new
\* thread is only started for a task that nobody has called.
THEOREM DecisionsStand == Spec => []DeathDecisionStands
<1>1. PlaceInv => DeathDecisionStands
  <2> SUFFICES ASSUME PlaceInv, NEW t \in Threads, NEW w \in Workers
               PROVE  /\ At(t, w, "dying") => wk[w].task = None
                      /\ At(t, w, "handing") => wk[w].task # None /\ runs[wk[w].task] = 0
    BY DEF DeathDecisionStands
  <2>1. At(t, w, "dying") => wk[w].task = None
    BY DEF PlaceInv, HandInv, Decided, At
  <2>2. ASSUME At(t, w, "handing") PROVE wk[w].task # None /\ runs[wk[w].task] = 0
    <3>1. wk[w].task # None BY <2>2 DEF PlaceInv, HandInv, Decided, At
    <3>2. \A s \in Threads : th[s].of = w /\ th[s].pc \in Running => s = t
      BY <2>2 DEF PlaceInv, HandInv, ThreadInv, OneThreadPerWorker, Serving, At, Running
    <3>3. ~ \E s \in Threads : th[s].of = w /\ th[s].pc \in Running
      BY <2>2, <3>2 DEF At, Running
    <3>4. QED BY <3>1, <3>3 DEF PlaceInv, CalledBusy
  <2>3. QED BY <2>1, <2>2
<1>2. QED BY <1>1, PlaceInvInit, PlaceInvStep, PTL DEF Spec
=============================================================================

------------------------- MODULE ElasticThreadPool -------------------------
(***************************************************************************)
(* std/sys/thread/ElasticThreadPool.hx: a pool that starts a worker thread *)
(* when a task finds every worker busy, queues the task when the pool is   *)
(* full, and lets a worker die when it has waited `threadTimeout` seconds. *)
(* Client threads call run() and shutdown() at any time; they and the      *)
(* worker threads interleave at every access to a field that the mutexes   *)
(* held by the step do not protect.  `maxThreadsCount`, a public field, is *)
(* the constant MaxThreads.                                                *)
(***************************************************************************)
EXTENDS Naturals, Sequences, FiniteSets

CONSTANTS
    Clients,      \* the threads that call run() and shutdown()
    Tasks,        \* the functions they submit, each of them once
    Throwing,     \* the tasks that may end with an exception
    MaxThreads,   \* maxThreadsCount
    Threads,      \* identities for the threads Thread.create makes
    None          \* null: no task, no owner

ASSUME MaxThreadsAssumption == MaxThreads \in Nat \ {0}
ASSUME NoneAssumption == None \notin Tasks \cup Clients \cup Threads
ASSUME ThreadsAssumption == Clients \cap Threads = {}

Workers == 1 .. MaxThreads

VARIABLES
    isShutdown,   \* _isShutdown
    poolSize,     \* pool.length: the workers 1 .. poolSize exist
    queue,        \* the deque of tasks
    mutex,        \* owner of the pool's mutex
    wk,           \* the fields of each Worker; permits are those of `waiter`
    th,           \* each thread: its place in loop(), its worker, the running fn
    cl,           \* each client: its place in run() or shutdown(), their locals
    fate, runs    \* history: what run() said of a task, how often it was called

pool == <<isShutdown, poolSize, queue, mutex>>
vars == <<pool, wk, th, cl, fate, runs>>

ThreadPC == {"gone", "wait", "read", "readShut", "run", "drain", "clear", "death",
             "last", "dying", "handing", "leave", "catch", "restart"}
ClientPC == {"idle", "acquire", "scan", "wake", "store", "signal", "release",
             "sacquire", "tell", "ring"}

PoolOK    == /\ isShutdown \in BOOLEAN /\ poolSize \in 0 .. MaxThreads
             /\ queue \in Seq(Tasks) /\ mutex \in Clients \cup {None}
WorkersOK == wk \in [Workers -> [task : Tasks \cup {None}, dead : BOOLEAN,
                                 told : BOOLEAN, permits : Nat,
                                 deathMutex : Clients \cup Threads \cup {None}]]
ThreadsOK == th \in [Threads -> [pc : ThreadPC, of : Workers, fn : Tasks \cup {None}]]
ClientsOK == cl \in [Clients -> [pc : ClientPC, arg : Tasks \cup {None},
                                 idx : 1 .. MaxThreads + 1,
                                 deadWorker : 0 .. MaxThreads, target : Workers]]
HistoryOK == /\ fate \in [Tasks -> {"new", "accepted", "rejected"}]
             /\ runs \in [Tasks -> Nat]
TypeOK == PoolOK /\ WorkersOK /\ ThreadsOK /\ ClientsOK /\ HistoryOK

Init ==
    /\ isShutdown = FALSE /\ poolSize = 0 /\ queue = <<>> /\ mutex = None
    /\ wk = [w \in Workers |-> [task |-> None, dead |-> FALSE, told |-> FALSE,
                                deathMutex |-> None, permits |-> 0]]
    /\ th = [t \in Threads |-> [pc |-> "gone", of |-> 1, fn |-> None]]
    /\ cl = [c \in Clients |-> [pc |-> "idle", arg |-> None, idx |-> 1,
                                deadWorker |-> 0, target |-> 1]]
    /\ fate = [x \in Tasks |-> "new"]
    /\ runs = [x \in Tasks |-> 0]

\* A thread serves its worker until it has marked it dead or started another thread
\* for it; after that it only releases deathMutex.
Serving(t, w) == th[t].pc \notin {"leave", "gone"} /\ th[t].of = w

Gone(t) == th[t].pc = "gone"

\* start(): a thread at the beginning of the loop of worker w.
Started(w) == [pc |-> "wait", of |-> w, fn |-> None]

-----------------------------------------------------------------------------
(* run(task), by client c *)

\* The test of _isShutdown, outside the mutex: rejected or on the way in.
CallRun(c) ==
    /\ cl[c].pc = "idle"
    /\ \E x \in Tasks :
         /\ fate[x] = "new"
         /\ \/ /\ isShutdown
               /\ fate' = [fate EXCEPT ![x] = "rejected"]
               /\ UNCHANGED cl
            \/ /\ ~isShutdown
               /\ fate' = [fate EXCEPT ![x] = "accepted"]
               /\ cl' = [cl EXCEPT ![c].pc = "acquire", ![c].arg = x]
    /\ UNCHANGED <<pool, wk, th, runs>>

\* Mutant of Acquire: run() does not take the pool's mutex.
AcquireUnlocked(c) ==
    /\ cl[c].pc = "acquire"
    /\ cl' = [cl EXCEPT ![c].pc = "scan", ![c].idx = 1, ![c].deadWorker = 0]
    /\ UNCHANGED <<pool, wk, th, fate, runs>>

Acquire(c) ==
    /\ cl[c].pc = "acquire"
    /\ mutex = None
    /\ mutex' = c
    /\ cl' = [cl EXCEPT ![c].pc = "scan", ![c].idx = 1, ![c].deadWorker = 0]
    /\ UNCHANGED <<isShutdown, poolSize, queue, wk, th, fate, runs>>

\* One turn of the loop over pool: remember the first dead worker, stop at the
\* first one without a task.  Workers write both fields without this mutex.
Scan(c, w) ==
    LET d == IF cl[c].deadWorker = 0 /\ wk[w].dead THEN w ELSE cl[c].deadWorker
    IN /\ cl[c].pc = "scan" /\ cl[c].idx = w /\ w <= poolSize
       /\ cl' = IF wk[w].task = None
                THEN [cl EXCEPT ![c].deadWorker = d, ![c].pc = "wake", ![c].target = w]
                ELSE [cl EXCEPT ![c].deadWorker = d, ![c].idx = w + 1]
       /\ UNCHANGED <<pool, wk, th, fate, runs>>

NotSubmitted(c) == cl[c].pc = "scan" /\ cl[c].idx > poolSize

CanGrow(c) == cl[c].deadWorker = 0 /\ poolSize < MaxThreads

\* Not submitted and no dead worker: new Worker(), which starts its thread t.
NewWorker(c, t) ==
    /\ NotSubmitted(c) /\ CanGrow(c) /\ Gone(t)
    /\ poolSize' = poolSize + 1
    /\ th' = [th EXCEPT ![t] = Started(poolSize + 1)]
    /\ cl' = [cl EXCEPT ![c].pc = "wake", ![c].target = poolSize + 1]
    /\ UNCHANGED <<isShutdown, queue, mutex, wk, fate, runs>>

\* The pool does not grow: wake the dead worker if there is one, else queue.add.
NoNewWorker(c) ==
    /\ NotSubmitted(c) /\ ~CanGrow(c)
    /\ IF cl[c].deadWorker # 0
       THEN /\ cl' = [cl EXCEPT ![c].pc = "wake", ![c].target = cl[c].deadWorker]
            /\ UNCHANGED queue
       ELSE /\ cl' = [cl EXCEPT ![c].pc = "release"]
            /\ queue' = Append(queue, cl[c].arg)
    /\ UNCHANGED <<isShutdown, poolSize, mutex, wk, th, fate, runs>>

\* Worker.wakeup: deathMutex.acquire(), then start() when the worker is dead.
Waking(c, w, l) == cl[c].pc = l /\ cl[c].target = w

\* Mutant of WakeAlive: wakeup() does not take deathMutex.
WakeAliveUnlocked(c, w) ==
    /\ Waking(c, w, "wake") /\ ~wk[w].dead
    /\ cl' = [cl EXCEPT ![c].pc = "store"]
    /\ UNCHANGED <<pool, wk, th, fate, runs>>

WakeAlive(c, w) ==
    /\ Waking(c, w, "wake") /\ wk[w].deathMutex = None /\ ~wk[w].dead
    /\ wk' = [wk EXCEPT ![w].deathMutex = c]
    /\ cl' = [cl EXCEPT ![c].pc = "store"]
    /\ UNCHANGED <<pool, th, fate, runs>>

WakeDead(c, w, t) ==
    /\ Waking(c, w, "wake") /\ wk[w].deathMutex = None /\ wk[w].dead /\ Gone(t)
    /\ wk' = [wk EXCEPT ![w].deathMutex = c, ![w].dead = FALSE]
    /\ th' = [th EXCEPT ![t] = Started(w)]
    /\ cl' = [cl EXCEPT ![c].pc = "store"]
    /\ UNCHANGED <<pool, fate, runs>>

\* this.task = task
Store(c, w) ==
    /\ Waking(c, w, "store")
    /\ wk' = [wk EXCEPT ![w].task = cl[c].arg]
    /\ cl' = [cl EXCEPT ![c].pc = "signal"]
    /\ UNCHANGED <<pool, th, fate, runs>>

\* waiter.release(); deathMutex.release()
Signal(c, w) ==
    /\ Waking(c, w, "signal")
    /\ wk' = [wk EXCEPT ![w].permits = @ + 1, ![w].deathMutex = None]
    /\ cl' = [cl EXCEPT ![c].pc = "release"]
    /\ UNCHANGED <<pool, th, fate, runs>>

\* mutex.release(), the end of run() and of shutdown()
Release(c) ==
    /\ cl[c].pc = "release"
    /\ mutex' = None
    /\ cl' = [cl EXCEPT ![c].pc = "idle", ![c].arg = None]
    /\ UNCHANGED <<isShutdown, poolSize, queue, wk, th, fate, runs>>

-----------------------------------------------------------------------------
(* shutdown(), by client c *)

\* The unprotected test; a call after the flag is set has no effect.
CallShutdown(c) ==
    /\ cl[c].pc = "idle" /\ ~isShutdown
    /\ cl' = [cl EXCEPT ![c].pc = "sacquire"]
    /\ UNCHANGED <<pool, wk, th, fate, runs>>

BeginShutdown(c) ==
    /\ cl[c].pc = "sacquire" /\ mutex = None
    /\ mutex' = c
    /\ isShutdown' = TRUE
    /\ cl' = [cl EXCEPT ![c].idx = 1, ![c].pc = IF poolSize = 0 THEN "release" ELSE "tell"]
    /\ UNCHANGED <<poolSize, queue, wk, th, fate, runs>>

Stopping(c, w, l) == cl[c].pc = l /\ cl[c].idx = w

\* Worker.shutdown: isShutdown = true
Tell(c, w) ==
    /\ Stopping(c, w, "tell")
    /\ wk' = [wk EXCEPT ![w].told = TRUE]
    /\ cl' = [cl EXCEPT ![c].pc = "ring"]
    /\ UNCHANGED <<pool, th, fate, runs>>

\* Then the next worker of the pool.
NextToStop(c, w) ==
    cl' = [cl EXCEPT ![c].idx = w + 1, ![c].pc = IF w = poolSize THEN "release" ELSE "tell"]

\* Mutant of Ring: Worker.shutdown sets the flag and does not wake the worker.
RingSilently(c, w) ==
    /\ Stopping(c, w, "ring")
    /\ NextToStop(c, w)
    /\ UNCHANGED <<pool, wk, th, fate, runs>>

\* Worker.shutdown: waiter.release()
Ring(c, w) ==
    /\ Stopping(c, w, "ring")
    /\ NextToStop(c, w)
    /\ wk' = [wk EXCEPT ![w].permits = @ + 1]
    /\ UNCHANGED <<pool, th, fate, runs>>

-----------------------------------------------------------------------------
(* Worker.loop(), by thread t of worker w *)

At(t, w, l) == th[t].pc = l /\ th[t].of = w

\* waiter.wait(timeout) returns true
TakePermit(t, w) ==
    /\ At(t, w, "wait") /\ wk[w].permits > 0
    /\ wk' = [wk EXCEPT ![w].permits = @ - 1]
    /\ th' = [th EXCEPT ![t].pc = "read"]
    /\ UNCHANGED <<pool, cl, fate, runs>>

\* waiter.wait(timeout) returns false
TimeOut(t, w) ==
    /\ At(t, w, "wait") /\ wk[w].permits = 0
    /\ th' = [th EXCEPT ![t].pc = "death"]
    /\ UNCHANGED <<pool, wk, cl, fate, runs>>

\* The call of a task begins.
Begin(t, x) ==
    /\ th' = [th EXCEPT ![t].pc = "run", ![t].fn = x]
    /\ runs' = [runs EXCEPT ![x] = @ + 1]

\* switch task: case fn; case null
ReadTask(t, w) ==
    /\ At(t, w, "read")
    /\ \/ wk[w].task # None /\ Begin(t, wk[w].task)
       \/ wk[w].task = None /\ th' = [th EXCEPT ![t].pc = "readShut"] /\ UNCHANGED runs
    /\ UNCHANGED <<pool, wk, cl, fate>>

\* if(isShutdown) break
ReadShutdown(t, w) ==
    /\ At(t, w, "readShut")
    /\ th' = [th EXCEPT ![t].pc = IF wk[w].told THEN "death" ELSE "wait"]
    /\ UNCHANGED <<pool, wk, cl, fate, runs>>

Return(t, w) ==
    /\ At(t, w, "run")
    /\ th' = [th EXCEPT ![t].pc = "drain", ![t].fn = None]
    /\ UNCHANGED <<pool, wk, cl, fate, runs>>

Throw(t, w) ==
    /\ At(t, w, "run") /\ th[t].fn \in Throwing
    /\ th' = [th EXCEPT ![t].pc = "catch", ![t].fn = None]
    /\ UNCHANGED <<pool, wk, cl, fate, runs>>

\* switch queue.pop(false): case fn; case null leaves the inner loop
Drain(t, w) ==
    /\ At(t, w, "drain")
    /\ \/ queue # <<>> /\ Begin(t, Head(queue)) /\ queue' = Tail(queue)
       \/ /\ queue = <<>>
          /\ th' = [th EXCEPT ![t].pc = "clear"]
          /\ UNCHANGED <<queue, runs>>
    /\ UNCHANGED <<isShutdown, poolSize, mutex, wk, cl, fate>>

\* task = null
Clear(t, w) ==
    /\ At(t, w, "clear")
    /\ wk' = [wk EXCEPT ![w].task = None]
    /\ th' = [th EXCEPT ![t].pc = "wait"]
    /\ UNCHANGED <<pool, cl, fate, runs>>

\* The end of loop(), a critical section of deathMutex on the thread's own account:
\* deathMutex.acquire()
EnterDeath(t, w) ==
    /\ At(t, w, "death") /\ wk[w].deathMutex = None
    /\ wk' = [wk EXCEPT ![w].deathMutex = t]
    /\ th' = [th EXCEPT ![t].pc = "last"]
    /\ UNCHANGED <<pool, cl, fate, runs>>

\* Mutant of LookAgain: the second look at `task` forgotten.
LookAgainBlindly(t, w) ==
    /\ At(t, w, "last")
    /\ th' = [th EXCEPT ![t].pc = "dying"]
    /\ UNCHANGED <<pool, wk, cl, fate, runs>>

\* if(task != null): a task was submitted right after the lock timed out
LookAgain(t, w) ==
    /\ At(t, w, "last")
    /\ th' = [th EXCEPT ![t].pc = IF wk[w].task = None THEN "dying" ELSE "handing"]
    /\ UNCHANGED <<pool, wk, cl, fate, runs>>

\* Mutant of Die: the worker is not marked dead.
DieSilently(t, w) ==
    /\ At(t, w, "dying")
    /\ th' = [th EXCEPT ![t].pc = "leave"]
    /\ UNCHANGED <<pool, wk, cl, fate, runs>>

\* else dead = true
Die(t, w) ==
    /\ At(t, w, "dying")
    /\ wk' = [wk EXCEPT ![w].dead = TRUE]
    /\ th' = [th EXCEPT ![t].pc = "leave"]
    /\ UNCHANGED <<pool, cl, fate, runs>>

\* start(): a new thread s goes on with the worker.
HandOver(t, w, s) ==
    /\ At(t, w, "handing") /\ Gone(s)
    /\ wk' = [wk EXCEPT ![w].dead = FALSE]
    /\ th' = [th EXCEPT ![t].pc = "leave", ![s] = Started(w)]
    /\ UNCHANGED <<pool, cl, fate, runs>>

\* deathMutex.release(), the end of the thread
LeaveDeath(t, w) ==
    /\ At(t, w, "leave")
    /\ wk' = [wk EXCEPT ![w].deathMutex = None]
    /\ th' = [th EXCEPT ![t].pc = "gone"]
    /\ UNCHANGED <<pool, cl, fate, runs>>

\* catch(e): task = null
Catch(t, w) ==
    /\ At(t, w, "catch")
    /\ wk' = [wk EXCEPT ![w].task = None]
    /\ th' = [th EXCEPT ![t].pc = "restart"]
    /\ UNCHANGED <<pool, cl, fate, runs>>

\* catch(e): start(); throw e ends this thread
Restart(t, w, s) ==
    /\ At(t, w, "restart") /\ Gone(s)
    /\ wk' = [wk EXCEPT ![w].dead = FALSE]
    /\ th' = [th EXCEPT ![t].pc = "gone", ![s] = Started(w)]
    /\ UNCHANGED <<pool, cl, fate, runs>>

-----------------------------------------------------------------------------
ClientStep(c) ==
    \/ Acquire(c) \/ NoNewWorker(c) \/ Release(c) \/ BeginShutdown(c)
    \/ \E t \in Threads : NewWorker(c, t)
    \/ \E w \in Workers :
         \/ Scan(c, w) \/ WakeAlive(c, w) \/ Store(c, w) \/ Signal(c, w)
         \/ \E t \in Threads : WakeDead(c, w, t)
         \/ Tell(c, w) \/ Ring(c, w)

\* The steps of a worker thread other than a time-out, which needs the time.
ThreadStep(t, w) ==
    \/ TakePermit(t, w) \/ ReadTask(t, w) \/ ReadShutdown(t, w) \/ Return(t, w)
    \/ Throw(t, w) \/ Drain(t, w) \/ Clear(t, w) \/ Catch(t, w)
    \/ EnterDeath(t, w) \/ LookAgain(t, w) \/ Die(t, w) \/ LeaveDeath(t, w)
    \/ \E s \in Threads : HandOver(t, w, s) \/ Restart(t, w, s)

\* Every call has returned and every worker is dead.
Terminated ==
    /\ \A c \in Clients : cl[c].pc = "idle"
    /\ \A t \in Threads : Gone(t)
    /\ UNCHANGED vars

Next ==
    \/ \E c \in Clients : CallRun(c) \/ CallShutdown(c) \/ ClientStep(c)
    \/ \E t \in Threads, w \in Workers : ThreadStep(t, w) \/ TimeOut(t, w)
    \/ Terminated

Spec == Init /\ [][Next]_vars

\* The operating system schedules every runnable thread and tasks return; no
\* client has to call anything, and nothing is assumed of the time-out.
Fairness == /\ \A c \in Clients : WF_vars(ClientStep(c))
            /\ \A t \in Threads : WF_vars(\E w \in Workers : ThreadStep(t, w))
FairSpec == Spec /\ Fairness

-----------------------------------------------------------------------------
(* Properties *)

\* A worker that is not dead has exactly one thread in its loop, a dead one has
\* none: no time-out, revival (wakeup), hand-over or restart after an exception
\* ever leaves a worker with two threads sharing `task`, or with none.
OneThreadPerWorker ==
    \A w \in Workers :
        IF w <= poolSize /\ ~wk[w].dead
        THEN \E t \in Threads : \A s \in Threads : Serving(s, w) <=> s = t
        ELSE \A t \in Threads : ~Serving(t, w)

\* Whatever the spurious permits, time-outs and exceptions, no task is called twice, and
\* a task run() accepted and no thread has called yet is in the hands of the
\* client still inside run(), in the queue, or in the field of a worker: no
\* worker's field is overwritten or cleared under a task that has not begun.
NoTaskVanishes ==
    \A x \in Tasks :
        /\ runs[x] <= 1
        /\ fate[x] = "accepted" /\ runs[x] = 0 =>
               \/ \E c \in Clients : cl[c].arg = x
               \/ \E i \in 1 .. Len(queue) : queue[i] = x
               \/ \E w \in Workers : wk[w].task = x

\* The wake-up of a task handed to a worker is never lost: until its thread has
\* called it, a permit is there (or on its way from wakeup(), which holds
\* deathMutex) or the thread is past wait() and about to read the field, and the
\* worker is not dead.
HandedTaskIsAwaited ==
    \A w \in Workers :
        wk[w].task # None /\ runs[wk[w].task] = 0 =>
            /\ ~wk[w].dead
            /\ \/ wk[w].permits > 0
               \/ \E c \in Clients : cl[c].pc = "signal" /\ cl[c].target = w
               \/ \E t \in Threads : At(t, w, "read")

\* What a thread reads in its last look at `task` still holds when it acts on it: a
\* worker about to be marked dead has been handed no task, and a new thread is only
\* started for a task that nobody has called.  wakeup() may have decided to hand over
\* a task before the time-out, but its store waits for deathMutex.
DeathDecisionStands ==
    \A t \in Threads, w \in Workers :
        /\ At(t, w, "dying") => wk[w].task = None
        /\ At(t, w, "handing") => wk[w].task # None /\ runs[wk[w].task] = 0

\* Every task handed to a worker is eventually called, even when its thread was
\* timing out or dying at that moment, and with no help from a time-out.
HandedTaskRuns ==
    \A x \in Tasks : (\E w \in Workers : wk[w].task = x) ~> (runs[x] > 0)

\* shutdown() ends the waiting loop of every worker it reaches by itself, not by
\* the time-out: the permit of Worker.shutdown is never used up without the flag
\* being seen later.  (A run() that passed its test before shutdown() may still
\* hand that worker a task, and then a new thread does wait for the time-out.)
ShutdownStopsWorkers ==
    \A c \in Clients, w \in Workers :
        (cl[c].pc = "ring" /\ cl[c].idx = w)
            ~> (wk[w].dead \/ \E t \in Threads : At(t, w, "death"))

\* What the documentation of shutdown() promises: all previously submitted tasks
\* are executed.  Once the pool is shut down, nobody is inside run() and every
\* worker is dead, no task may be left in the queue.
SubmittedTasksExecuted ==
    isShutdown /\ (\A c \in Clients : cl[c].pc = "idle") /\ (\A t \in Threads : Gone(t))
        => queue = <<>>
=============================================================================

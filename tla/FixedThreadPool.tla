-------------------------- MODULE FixedThreadPool --------------------------
(***************************************************************************)
(* std/sys/thread/FixedThreadPool.hx: a constant number of workers that    *)
(* take tasks from one Deque.  run() and shutdown() are called by several  *)
(* threads and use no mutex: each test, assignment and queue operation is  *)
(* a step.  A task may throw, which makes its worker start a new thread.   *)
(***************************************************************************)
EXTENDS Naturals, Sequences, SequencesExt

CONSTANTS
    Clients,        \* threads that call run() and shutdown()
    Workers,        \* the pool
    Tasks,          \* each is submitted at most once
    Failing,        \* the tasks that throw
    Pill,           \* shutdownTask
    None            \* no task

\* new() throws if threadsCount is less than 1.
ASSUME PoolAssumption == /\ Failing \subseteq Tasks /\ Pill \notin Tasks
                         /\ None \notin Tasks \cup {Pill}
                         /\ Workers # {} /\ Tasks \cap {"pop", "ended"} = {}

VARIABLES
    isShutdown,     \* _isShutdown
    queue,
    client,         \* of each client: the step it is at
    task,           \* the task it submits
    pills,          \* the workers for which it has not added shutdownTask
    worker,         \* of each worker: the task it executes, "pop", or "ended"
    submitted, early, executed  \* history: tasks submitted, those of them for which
                    \* run() had returned before any shutdown() began, tasks begun

calls == <<client, task, pills>>
vars == <<isShutdown, queue, calls, worker, submitted, early, executed>>

TypeOK ==
    /\ isShutdown \in BOOLEAN
    /\ queue \in Seq(Tasks \cup {Pill})
    /\ client \in [Clients -> {"outside", "add", "set", "pills"}]
    /\ task \in [Clients -> Tasks \cup {None}]
    /\ \A c \in Clients : client[c] = "add" <=> task[c] # None
    /\ pills \in [Clients -> SUBSET Workers]
    /\ \A c \in Clients : pills[c] # {} => client[c] = "pills" /\ isShutdown
    /\ worker \in [Workers -> Tasks \cup {"pop", "ended"}]
    /\ early \subseteq submitted /\ submitted \subseteq Tasks
    /\ executed \in Seq(Tasks)

Init ==
    /\ isShutdown = FALSE /\ queue = <<>>
    /\ client = [c \in Clients |-> "outside"] /\ task = [c \in Clients |-> None]
    /\ pills = [c \in Clients |-> {}]
    /\ worker = [w \in Workers |-> "pop"]
    /\ submitted = {} /\ early = {} /\ executed = <<>>

-----------------------------------------------------------------------------
(* Clients *)

\* run() of a pool that is not shut down; it throws when the pool is.
CallRun(c, t) ==
    /\ client[c] = "outside" /\ ~isShutdown /\ t \notin submitted
    /\ client' = [client EXCEPT ![c] = "add"] /\ task' = [task EXCEPT ![c] = t]
    /\ submitted' = submitted \cup {t}
    /\ UNCHANGED <<isShutdown, queue, pills, worker, early, executed>>

InShutdown == \E c \in Clients : client[c] \in {"set", "pills"}

AddTask(c) ==
    /\ client[c] = "add"
    /\ queue' = Append(queue, task[c])
    /\ early' = IF isShutdown \/ InShutdown THEN early ELSE early \cup {task[c]}
    /\ client' = [client EXCEPT ![c] = "outside"] /\ task' = [task EXCEPT ![c] = None]
    /\ UNCHANGED <<isShutdown, pills, worker, submitted, executed>>

CallShutdown(c) ==
    /\ client[c] = "outside" /\ ~isShutdown
    /\ client' = [client EXCEPT ![c] = "set"]
    /\ UNCHANGED <<isShutdown, queue, task, pills, worker, submitted, early, executed>>

SetShutdown(c) ==
    /\ client[c] = "set"
    /\ isShutdown' = TRUE
    /\ client' = [client EXCEPT ![c] = "pills"] /\ pills' = [pills EXCEPT ![c] = Workers]
    /\ UNCHANGED <<queue, task, worker, submitted, early, executed>>

\* Mutant of AddPill: the last worker gets no task to end it.
AddPillOneLess(c) ==
    /\ client[c] = "pills"
    /\ \E w \in pills[c] :
         /\ pills' = [pills EXCEPT ![c] = @ \ {w}]
         /\ IF pills[c] = {w} THEN UNCHANGED queue ELSE queue' = Append(queue, Pill)
    /\ client' = [client EXCEPT ![c] = IF pills'[c] = {} THEN "outside" ELSE "pills"]
    /\ UNCHANGED <<isShutdown, task, worker, submitted, early, executed>>

AddPill(c) ==
    /\ client[c] = "pills"
    /\ \E w \in pills[c] : pills' = [pills EXCEPT ![c] = @ \ {w}]
    /\ queue' = Append(queue, Pill)
    /\ client' = [client EXCEPT ![c] = IF pills'[c] = {} THEN "outside" ELSE "pills"]
    /\ UNCHANGED <<isShutdown, task, worker, submitted, early, executed>>

-----------------------------------------------------------------------------
(* Workers *)

\* Mutant of Pop: the task is read and not taken out.
Peek(w) ==
    /\ worker[w] = "pop" /\ queue # <<>> /\ Head(queue) # Pill
    /\ worker' = [worker EXCEPT ![w] = Head(queue)]
    /\ executed' = Append(executed, Head(queue))
    /\ UNCHANGED <<isShutdown, queue, calls, submitted, early>>

Pop(w) ==
    /\ worker[w] = "pop" /\ queue # <<>> /\ Head(queue) # Pill
    /\ queue' = Tail(queue)
    /\ worker' = [worker EXCEPT ![w] = Head(queue)]
    /\ executed' = Append(executed, Head(queue))
    /\ UNCHANGED <<isShutdown, calls, submitted, early>>

\* shutdownTask throws the exception that ends the loop.
End(w) ==
    /\ worker[w] = "pop" /\ queue # <<>> /\ Head(queue) = Pill
    /\ queue' = Tail(queue)
    /\ worker' = [worker EXCEPT ![w] = "ended"]
    /\ UNCHANGED <<isShutdown, calls, submitted, early, executed>>

\* The task returns and the loop goes on.
Return(w) ==
    /\ worker[w] \in Tasks \ Failing
    /\ worker' = [worker EXCEPT ![w] = "pop"]
    /\ UNCHANGED <<isShutdown, queue, calls, submitted, early, executed>>

\* Mutant of Throw: no new thread is created.
ThrowEnds(w) ==
    /\ worker[w] \in Failing
    /\ worker' = [worker EXCEPT ![w] = "ended"]
    /\ UNCHANGED <<isShutdown, queue, calls, submitted, early, executed>>

\* The task throws: a new thread runs the loop, the old one ends.
Throw(w) ==
    /\ worker[w] \in Failing
    /\ worker' = [worker EXCEPT ![w] = "pop"]
    /\ UNCHANGED <<isShutdown, queue, calls, submitted, early, executed>>

ClientStep(c) == AddTask(c) \/ SetShutdown(c) \/ AddPill(c)
WorkerStep(w) == Pop(w) \/ End(w) \/ Return(w) \/ Throw(w)

Next == \/ \E c \in Clients : \/ ClientStep(c) \/ CallShutdown(c)
                              \/ \E t \in Tasks : CallRun(c, t)
        \/ \E w \in Workers : WorkerStep(w)

\* Calls that have begun go on, and so do the workers; tasks return or throw.
Spec == /\ Init /\ [][Next]_vars
        /\ \A c \in Clients : WF_vars(ClientStep(c))
        /\ \A w \in Workers : WF_vars(WorkerStep(w))

-----------------------------------------------------------------------------
(* Properties *)

\* A task runs at most once, and no task is dropped: what has been submitted is on its
\* way, queued, or begun, whichever workers threw or ended.
EveryTaskSomewhere ==
    /\ \A t \in Tasks : (IF t \in ToSet(queue) THEN 1 ELSE 0)
                        + (IF t \in ToSet(executed) THEN 1 ELSE 0)
                        + (IF \E c \in Clients : task[c] = t THEN 1 ELSE 0)
                        = (IF t \in submitted THEN 1 ELSE 0)
    /\ IsInjective(executed)
    /\ \A i, j \in DOMAIN queue : queue[i] = queue[j] /\ queue[i] # Pill => i = j

\* While a task that was submitted before any shutdown began is queued, a worker is
\* there to take it: it is ahead of every task that ends a worker.
EarlyTasksAwaited ==
    (early \cap ToSet(queue)) # {} =>
        /\ \E w \in Workers : worker[w] # "ended"
        /\ \A i, j \in 1 .. Len(queue) :
             queue[i] \in early /\ queue[j] = Pill => i < j

\* "All previousely submitted tasks will be executed."
EarlyTasksRun == \A t \in Tasks : t \in early ~> t \in ToSet(executed)

\* Once shutdown() has been called every worker ends, also one that was restarted.
ShutdownEndsWorkers == isShutdown ~> \A w \in Workers : worker[w] = "ended"

\* A task that run() has taken without an exception is executed.
AcceptedTasksRun == \A t \in Tasks : t \in submitted ~> t \in ToSet(executed)
=============================================================================

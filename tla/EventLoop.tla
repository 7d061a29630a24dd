----------------------------- MODULE EventLoop -----------------------------
(***************************************************************************)
(* std/sys/thread/EventLoop.hx: the event loop of a thread, with MainLoop  *)
(* events on the main thread (std/haxe/MainLoop.hx).  Other threads and    *)
(* the callbacks themselves call repeat, cancel, run, promise and          *)
(* runPromised at any moment; each of them is one critical section of      *)
(* `mutex` and one action here.  The order in which due regular events run *)
(* is left open; `waitLock` is the counting lock that Lock.hx describes.   *)
(***************************************************************************)
EXTENDS Integers, Sequences, FiniteSetsExt, SequencesExt

CONSTANTS
    Events,         \* one-time events, each added at most once
    Regulars,       \* regular events, each scheduled at most once
    Interval,       \* [Regulars -> positive number]
    MainEvents,     \* MainLoop events
    Blocking,       \* the main events with isBlocking
    None,           \* no callback
    MaxPromised, MaxTime    \* bounds on promises and on the clock

ASSUME EventLoopAssumption ==
    /\ Interval \in [Regulars -> Nat \ {0}] /\ Blocking \subseteq MainEvents
    /\ None \notin Events \cup Regulars \cup MainEvents
    /\ MaxPromised \in Nat /\ MaxTime \in Nat

VARIABLES
    now,            \* Sys.time()
    isMainThread,   \* is this the loop of the main thread?
    stranger,       \* history: a thread without a promise has used the loop
    regulars,       \* the list regularEvents, as a set
    nextRunTime, cancelled,     \* of the regular events
    queue,          \* the pending part of oneTimeEvents
    promised,       \* promisedEventsCount
    permits,        \* of waitLock
    mains,          \* MainLoop.pending, as a set
    pc,             \* of the loop's thread; "job" is its work before loop()
    calling,        \* the callback being executed, or None
    batch,          \* oneTimersToRun
    due,            \* regularsToRun, or the main events tick() has yet to call
    nextEventAt, anyTime,
    ranAny,         \* eventsToRunIdx > 0
    added, executed \* history: one-time events in the order they came and began

who == <<isMainThread, stranger>>
shared == <<regulars, nextRunTime, cancelled, queue, promised, permits, mains, added>>
loop == <<pc, calling, batch, due, nextEventAt, anyTime, ranAny, executed>>
vars == <<now, who, shared, loop>>

Never == -1
Now == -2
NoTime == 0

TypeOK ==
    /\ now \in 0 .. MaxTime /\ isMainThread \in BOOLEAN /\ stranger \in BOOLEAN
    /\ regulars \subseteq Regulars \ cancelled /\ cancelled \subseteq Regulars
    /\ nextRunTime \in [Regulars -> Nat]
    /\ queue \in Seq(Events) /\ promised \in 0 .. MaxPromised /\ permits \in Nat
    /\ mains \subseteq MainEvents /\ (mains # {} => isMainThread)
    /\ pc \in {"job", "collect", "regulars", "oneTimers", "events", "tick", "decide",
               "waiting", "ended", "failed"}
    /\ calling \in Events \cup Regulars \cup MainEvents \cup {None}
    /\ calling # None => pc \in {"regulars", "events", "tick"}
    /\ batch \in Seq(Events) /\ (batch # <<>> => pc \in {"events", "failed"})
    /\ due \subseteq Regulars \cup MainEvents
    /\ nextEventAt \in {Now, Never} \cup Nat
    /\ anyTime \in BOOLEAN /\ ranAny \in BOOLEAN
    /\ added \in Seq(Events) /\ executed \in Seq(Events)

Init ==
    /\ now = 0 /\ isMainThread \in BOOLEAN /\ stranger = FALSE
    /\ regulars = {} /\ nextRunTime = [e \in Regulars |-> NoTime]
    /\ cancelled = {} /\ queue = <<>> /\ promised = 0 /\ permits = 0 /\ mains = {}
    /\ pc = "job" /\ calling = None /\ batch = <<>> /\ due = {}
    /\ nextEventAt = Never /\ anyTime = FALSE /\ ranAny = FALSE
    /\ added = <<>> /\ executed = <<>>

-----------------------------------------------------------------------------
(* Operations, called by the job, by callbacks and by other threads *)

OnLoopThread == pc = "job" \/ calling # None

\* The loop's own thread adds, or a thread that has a promise to keep; or any other.
Adding == stranger' = (stranger \/ ~(OnLoopThread \/ promised > 0))

Fresh(e) == e \notin ToSet(added)

\* Mutant of Run: the waiting loop is not told.
RunSilently(e) ==
    /\ Adding /\ Fresh(e)
    /\ queue' = Append(queue, e) /\ added' = Append(added, e)
    /\ UNCHANGED <<now, isMainThread, regulars, nextRunTime, cancelled, promised,
                   permits, mains, loop>>

\* run()
Run(e) ==
    /\ Adding /\ Fresh(e)
    /\ queue' = Append(queue, e) /\ added' = Append(added, e)
    /\ permits' = permits + 1
    /\ UNCHANGED <<now, isMainThread, regulars, nextRunTime, cancelled, promised,
                   mains, loop>>

\* runPromised()
RunPromised(e) ==
    /\ promised > 0 /\ Fresh(e)
    /\ queue' = Append(queue, e) /\ added' = Append(added, e)
    /\ promised' = promised - 1
    /\ permits' = permits + 1
    /\ UNCHANGED <<now, who, regulars, nextRunTime, cancelled, mains, loop>>

Promise ==
    /\ Adding /\ promised < MaxPromised
    /\ promised' = promised + 1
    /\ UNCHANGED <<now, isMainThread, regulars, nextRunTime, cancelled, queue,
                   permits, mains, added, loop>>

\* repeat(): a handler is new, its event has neither been in the list nor cancelled.
Repeat(e) ==
    /\ Adding /\ nextRunTime[e] = NoTime
    /\ regulars' = regulars \cup {e}
    /\ nextRunTime' = [nextRunTime EXCEPT ![e] = now + Interval[e]]
    /\ permits' = permits + 1
    /\ UNCHANGED <<now, isMainThread, cancelled, queue, promised, mains, added, loop>>

Cancel(e) ==
    /\ nextRunTime[e] # NoTime /\ e \notin cancelled
    /\ cancelled' = cancelled \cup {e}
    /\ regulars' = regulars \ {e}
    /\ UNCHANGED <<now, who, nextRunTime, queue, promised, permits, mains, added, loop>>

\* MainLoop.add() and MainEvent.stop(), which only the main thread calls.
AddMain(m) ==
    /\ isMainThread /\ OnLoopThread /\ m \notin mains \cup due
    /\ mains' = mains \cup {m}
    /\ UNCHANGED <<now, who, regulars, nextRunTime, cancelled, queue, promised,
                   permits, added, loop>>

StopMain(m) ==
    /\ OnLoopThread /\ m \in mains
    /\ mains' = mains \ {m}
    /\ UNCHANGED <<now, who, regulars, nextRunTime, cancelled, queue, promised,
                   permits, added, loop>>

TimePasses ==
    /\ now < MaxTime
    /\ now' = now + 1
    /\ UNCHANGED <<who, shared, loop>>

-----------------------------------------------------------------------------
(* loop() and __progress() *)

StartLoop ==
    /\ pc = "job"
    /\ pc' = "collect"
    /\ UNCHANGED <<now, who, shared, calling, batch, due, nextEventAt, anyTime,
                   ranAny, executed>>

DueAt(t) == {e \in regulars : nextRunTime[e] <= t}

\* When the next event is expected to run.
NextEvent(t) == IF DueAt(t) # {} THEN Now
                ELSE IF regulars = {} THEN Never
                ELSE Min({nextRunTime[e] : e \in regulars})

\* Sys.time() was read before the mutex was acquired: t may lie behind.
Collect ==
    /\ pc = "collect"
    /\ permits' = 0
    /\ \E t \in {now - 1, now} :
         /\ due' = DueAt(t)
         /\ nextRunTime' = [e \in Regulars |->
                              IF e \in DueAt(t) THEN nextRunTime[e] + Interval[e]
                              ELSE nextRunTime[e]]
         /\ nextEventAt' = NextEvent(t)
    /\ pc' = "regulars"
    /\ UNCHANGED <<now, who, regulars, cancelled, queue, promised, mains, added,
                   calling, batch, anyTime, ranAny, executed>>

\* The next of the collected regular events, left out when it has been cancelled.
RunRegular(e) ==
    /\ pc = "regulars" /\ calling = None /\ e \in due
    /\ due' = due \ {e}
    /\ calling' = IF e \in cancelled THEN None ELSE e
    /\ UNCHANGED <<now, who, shared, pc, batch, nextEventAt, anyTime, ranAny, executed>>

RegularsDone ==
    /\ pc = "regulars" /\ calling = None /\ due = {}
    /\ pc' = "oneTimers"
    /\ UNCHANGED <<now, who, shared, calling, batch, due, nextEventAt, anyTime,
                   ranAny, executed>>

\* Mutant of CollectOneTimers: the loop is reset here as well.
CollectOneTimersDrain ==
    /\ pc = "oneTimers"
    /\ batch' = queue /\ queue' = <<>> /\ permits' = 0
    /\ ranAny' = (queue # <<>>)
    /\ anyTime' = (promised > 0)
    /\ pc' = "events"
    /\ UNCHANGED <<now, who, regulars, nextRunTime, cancelled, promised, mains, added,
                   calling, due, nextEventAt, executed>>

\* Mutant of CollectOneTimers: the index is reset but the events stay in the array.
CollectAgain ==
    /\ pc = "oneTimers"
    /\ batch' = queue /\ UNCHANGED queue
    /\ ranAny' = (queue # <<>>)
    /\ anyTime' = (promised > 0)
    /\ pc' = "events"
    /\ UNCHANGED <<now, who, regulars, nextRunTime, cancelled, promised, permits,
                   mains, added,
                   calling, due, nextEventAt, executed>>

CollectOneTimers ==
    /\ pc = "oneTimers"
    /\ batch' = queue /\ queue' = <<>>
    /\ ranAny' = (queue # <<>>)
    /\ anyTime' = (promised > 0)
    /\ pc' = "events"
    /\ UNCHANGED <<now, who, regulars, nextRunTime, cancelled, promised, permits,
                   mains, added,
                   calling, due, nextEventAt, executed>>

RunEvent ==
    /\ pc = "events" /\ calling = None /\ batch # <<>>
    /\ calling' = Head(batch) /\ batch' = Tail(batch)
    /\ executed' = Append(executed, Head(batch))
    /\ UNCHANGED <<now, who, shared, pc, due, nextEventAt, anyTime, ranAny>>

\* MainLoop.tick() on the main thread: any of the main events may be delayed.
EventsDone ==
    /\ pc = "events" /\ calling = None /\ batch = <<>>
    /\ IF isMainThread THEN pc' = "tick" /\ due' \in SUBSET mains
                       ELSE pc' = "decide" /\ UNCHANGED due
    /\ UNCHANGED <<now, who, shared, calling, batch, nextEventAt, anyTime, ranAny,
                   executed>>

\* call(), which does nothing when the event has been stopped meanwhile.
RunMain(m) ==
    /\ pc = "tick" /\ calling = None /\ m \in due
    /\ due' = due \ {m}
    /\ calling' = IF m \in mains THEN m ELSE None
    /\ UNCHANGED <<now, who, shared, pc, batch, nextEventAt, anyTime, ranAny, executed>>

HasEvents == mains \cap Blocking # {}

TickDone ==
    /\ pc = "tick" /\ calling = None /\ due = {}
    /\ ranAny' = (ranAny \/ HasEvents)
    /\ pc' = "decide"
    /\ UNCHANGED <<now, who, shared, calling, batch, due, nextEventAt, anyTime,
                   executed>>

\* The callback returns, or its exception leaves loop().
Return ==
    /\ calling # None
    /\ calling' = None
    /\ UNCHANGED <<now, who, shared, pc, batch, due, nextEventAt, anyTime, ranAny,
                   executed>>

Throw ==
    /\ calling # None
    /\ calling' = None /\ pc' = "failed"
    /\ UNCHANGED <<now, who, shared, batch, due, nextEventAt, anyTime, ranAny,
                   executed>>

\* Mutant of Decide: the loop waits although nothing is expected.
DecideWaits ==
    /\ pc = "decide"
    /\ pc' = IF ranAny \/ nextEventAt = Now THEN "collect" ELSE "waiting"
    /\ UNCHANGED <<now, who, shared, calling, batch, due, nextEventAt, anyTime,
                   ranAny, executed>>

Decide ==
    /\ pc = "decide"
    /\ pc' = CASE ranAny \/ nextEventAt = Now -> "collect"
               [] ~ranAny /\ nextEventAt = Never /\ ~anyTime -> "ended"
               [] OTHER -> "waiting"
    /\ UNCHANGED <<now, who, shared, calling, batch, due, nextEventAt, anyTime,
                   ranAny, executed>>

TimedOut == nextEventAt # Never /\ now >= nextEventAt

\* waitLock.wait(): a permit, or the time-out when an event is due at a known time.
Wake ==
    /\ pc = "waiting"
    /\ \/ permits > 0 /\ permits' = permits - 1
       \/ permits = 0 /\ TimedOut /\ UNCHANGED permits
    /\ pc' = "collect"
    /\ UNCHANGED <<now, who, regulars, nextRunTime, cancelled, queue, promised,
                   mains, added,
                   calling, batch, due, nextEventAt, anyTime, ranAny, executed>>

LoopStep ==
    \/ StartLoop \/ Collect \/ RegularsDone \/ CollectOneTimers \/ RunEvent \/ EventsDone
    \/ TickDone \/ Return \/ Decide \/ Wake
    \/ \E e \in Regulars : RunRegular(e)
    \/ \E m \in MainEvents : RunMain(m)

Operation ==
    \/ Promise
    \/ \E e \in Events : Run(e) \/ RunPromised(e)
    \/ \E e \in Regulars : Repeat(e) \/ Cancel(e)
    \/ \E m \in MainEvents : AddMain(m) \/ StopMain(m)

Next == LoopStep \/ Operation \/ Throw \/ TimePasses

Spec == Init /\ [][Next]_vars

\* The thread of the loop runs, callbacks return, and time goes on.
LiveSpec == Spec /\ WF_vars(LoopStep) /\ WF_vars(TimePasses)

-----------------------------------------------------------------------------
(* Properties *)

\* One-time events run in the order in which they were added, each once, and none is
\* lost between the queue, the loop's own array and the callbacks, however calls of
\* run() and runPromised() interleave with the two critical sections.
InOrderOnce == executed \o batch \o queue = added

\* The loop does not wait past the time of a regular event, nor at all with a
\* one-time event in the queue, unless a permit is there to wake it: not even when
\* the event is added between the two critical sections or just before wait().
NeverOversleeps ==
    pc = "waiting" /\ permits = 0 =>
        /\ queue = <<>>
        /\ \A e \in regulars : nextEventAt # Never /\ nextEventAt <= nextRunTime[e]

\* loop() "runs until all repeating events are cancelled and no more events are
\* expected": when it returns nothing is left to do or promised, as long as only
\* its own thread and threads that have promised an event use it.
LoopRunsUntilDone ==
    pc = "ended" /\ ~stranger => queue = <<>> /\ regulars = {} /\ promised = 0

\* So it is on every thread but the main one.
EndedMeansDone == ~isMainThread => LoopRunsUntilDone

\* An event that has been added runs, unless the loop ends by an exception, or has
\* ended when a thread without a promise adds it, or on the main thread.
EventsRun ==
    \A e \in Events : e \in ToSet(added) ~>
        \/ e \in ToSet(executed) \/ pc = "failed"
        \/ pc = "ended" /\ (stranger \/ isMainThread)

\* The loop returns when everything is done for good (a last wait may be for an event
\* that was cancelled, at a time that the clock must reach).
LoopEnds ==
    <>[](queue = <<>> /\ regulars = {} /\ promised = 0 /\ mains = {})
        => <>(pc \in {"ended", "failed"} \/ nextEventAt > MaxTime)
=============================================================================

--------------------------- MODULE EventLoopProofs ---------------------------
(***************************************************************************)
(* Proofs about EventLoop, for any events, intervals and bounds: one-time  *)
(* events keep their order, the loop does not sleep past an event, and off *)
(* the main thread it returns only when everything is done.                *)
(***************************************************************************)
EXTENDS EventLoop, SequenceTheorems, WellFoundedInduction, TLAPS

(***************************************************************************)
(* Type correctness.  A regular event in the list or cancelled has a time: *)
(* NoTime marks the events that repeat() has not been called with.         *)
(***************************************************************************)
Unscheduled == \A e \in Regulars : nextRunTime[e] = NoTime => e \notin regulars \cup cancelled

TypeInv == TypeOK /\ Unscheduled

\* The time of the next event is a lower bound of the times of the list.
LEMMA MinOfNats ==
    ASSUME NEW S \in SUBSET Nat, S # {}
    PROVE  Min(S) \in S /\ \A y \in S : Min(S) <= y
<1> DEFINE R == {ss \in Nat \X Nat : ss[1] < ss[2]}
<1>1. IsWellFoundedOn(R, Nat) BY NatLessThanWellFounded DEF OpToRel
<1> HIDE DEF R
<1>2. PICK x \in S : \A y \in S : ~(<<y, x>> \in R) BY <1>1, WFMin
<1>3. \A y \in S : <<y, x>> \in Nat \X Nat OBVIOUS
<1>4. \A y \in S : ~(y < x) BY <1>2, <1>3 DEF R
<1>5. \A y \in S : x <= y BY <1>4
<1>6. QED BY <1>5 DEF Min

LEMMA NextEventBound ==
    ASSUME TypeInv, NEW t \in Int
    PROVE  /\ NextEvent(t) \in {Now, Never} \cup Nat
           /\ DueAt(t) # {} => NextEvent(t) = Now
           /\ NextEvent(t) = Never => regulars = {} /\ DueAt(t) = {}
           /\ NextEvent(t) # Now => \A e \in regulars : NextEvent(t) <= nextRunTime[e]
<1> DEFINE times == {nextRunTime[e] : e \in regulars}
<1>1. times \in SUBSET Nat BY DEF TypeInv, TypeOK
<1>2. ASSUME DueAt(t) = {}, regulars # {}
      PROVE  /\ NextEvent(t) \in Nat /\ \A e \in regulars : NextEvent(t) <= nextRunTime[e]
  <2>1. times # {} /\ \A e \in regulars : nextRunTime[e] \in times BY <1>2
  <2>2. NextEvent(t) = Min(times) BY <1>2 DEF NextEvent
  <2> HIDE DEF times
  <2>3. Min(times) \in times /\ \A y \in times : Min(times) <= y BY <1>1, <2>1, MinOfNats
  <2>4. QED BY <1>1, <2>1, <2>2, <2>3
<1>3. DueAt(t) # {} => NextEvent(t) = Now BY DEF NextEvent
<1>4. regulars = {} /\ DueAt(t) = {} => NextEvent(t) = Never BY DEF NextEvent
<1>5. Now # Never /\ \A n \in Nat : n # Never BY DEF Now, Never
<1>6. QED BY <1>2, <1>3, <1>4, <1>5

LEMMA TypeInit == Init => TypeInv
<1> SUFFICES ASSUME Init PROVE TypeInv
  OBVIOUS
<1>1. 0 \in 0 .. MaxTime /\ 0 \in 0 .. MaxPromised /\ 0 \in Nat BY EventLoopAssumption
<1>2. << >> \in Seq(Events) OBVIOUS
<1>3. nextRunTime \in [Regulars -> Nat] BY DEF Init, NoTime
<1>4. TypeOK BY <1>1, <1>2, <1>3 DEF Init, TypeOK
<1>5. QED BY <1>4 DEF TypeInv, Unscheduled, Init

LEMMA TypeOperation == TypeInv /\ Operation => TypeInv'
<1> SUFFICES ASSUME TypeInv, Operation PROVE TypeInv'
  OBVIOUS
<1> USE EventLoopAssumption DEF TypeInv, TypeOK, Unscheduled, who, loop, Adding
<1>1. CASE Promise BY <1>1 DEF Promise
<1>2. ASSUME NEW e \in Events, Run(e) PROVE TypeInv'
  BY <1>2 DEF Run
<1>3. ASSUME NEW e \in Events, RunPromised(e) PROVE TypeInv'
  BY <1>3 DEF RunPromised
<1>4. ASSUME NEW e \in Regulars, Repeat(e) PROVE TypeInv'
  <2>1. now + Interval[e] \in Nat /\ now + Interval[e] # 0 OBVIOUS
  <2>2. QED BY <1>4, <2>1 DEF Repeat, NoTime
<1>5. ASSUME NEW e \in Regulars, Cancel(e) PROVE TypeInv'
  BY <1>5 DEF Cancel
<1>6. ASSUME NEW m \in MainEvents, AddMain(m) PROVE TypeInv'
  BY <1>6 DEF AddMain
<1>7. ASSUME NEW m \in MainEvents, StopMain(m) PROVE TypeInv'
  BY <1>7 DEF StopMain
<1>8. QED BY <1>1, <1>2, <1>3, <1>4, <1>5, <1>6, <1>7 DEF Operation

LEMMA TypeLoop == TypeInv /\ (LoopStep \/ Throw \/ TimePasses) => TypeInv'
<1> SUFFICES ASSUME TypeInv, LoopStep \/ Throw \/ TimePasses PROVE TypeInv'
  OBVIOUS
<1> USE EventLoopAssumption DEF TypeInv, TypeOK, Unscheduled, who, shared, loop
<1>1. CASE StartLoop BY <1>1 DEF StartLoop
<1>2. CASE Collect
  <2>1. PICK t \in {now - 1, now} :
          /\ due' = DueAt(t)
          /\ nextRunTime' = [e \in Regulars |-> IF e \in DueAt(t)
                                                THEN nextRunTime[e] + Interval[e]
                                                ELSE nextRunTime[e]]
          /\ nextEventAt' = NextEvent(t)
    BY <1>2 DEF Collect
  <2>2. t \in Int OBVIOUS
  <2>3. nextEventAt' \in {Now, Never} \cup Nat BY <2>1, <2>2, NextEventBound
  <2>4. \A e \in Regulars : /\ nextRunTime[e] + Interval[e] \in Nat
                            /\ nextRunTime[e] + Interval[e] # 0
    OBVIOUS
  <2>5. nextRunTime' \in [Regulars -> Nat] BY <2>1, <2>4
  <2>6. Unscheduled' BY <1>2, <2>1, <2>4 DEF Collect, NoTime
  <2>7. due' \subseteq Regulars BY <2>1 DEF DueAt
  <2>8. QED BY <1>2, <2>3, <2>5, <2>6, <2>7 DEF Collect
<1>3. ASSUME NEW e \in Regulars, RunRegular(e) PROVE TypeInv'
  BY <1>3 DEF RunRegular
<1>4. CASE RegularsDone BY <1>4 DEF RegularsDone
<1>5. CASE CollectOneTimers BY <1>5 DEF CollectOneTimers
<1>6. CASE RunEvent
  <2>1. /\ batch # << >> /\ calling' = Head(batch) /\ batch' = Tail(batch) /\ pc = "events"
        /\ executed' = Append(executed, Head(batch))
        /\ UNCHANGED <<now, who, shared, pc, due, nextEventAt, anyTime, ranAny>>
    BY <1>6 DEF RunEvent
  <2>2. Head(batch) \in Events /\ Tail(batch) \in Seq(Events) BY <2>1
  <2>3. Append(executed, Head(batch)) \in Seq(Events) BY <2>2
  <2>4. QED BY <2>1, <2>2, <2>3
<1>7. CASE EventsDone BY <1>7 DEF EventsDone
<1>8. ASSUME NEW m \in MainEvents, RunMain(m) PROVE TypeInv'
  BY <1>8 DEF RunMain
<1>9. CASE TickDone BY <1>9 DEF TickDone
<1>10. CASE Return BY <1>10 DEF Return
<1>11. CASE Throw BY <1>11 DEF Throw
<1>12. CASE Decide BY <1>12 DEF Decide
<1>13. CASE Wake BY <1>13 DEF Wake
<1>14. CASE TimePasses BY <1>14 DEF TimePasses
<1>15. QED BY <1>1, <1>2, <1>3, <1>4, <1>5, <1>6, <1>7, <1>8, <1>9, <1>10, <1>11, <1>12,
              <1>13, <1>14 DEF LoopStep

LEMMA TypeStep == TypeInv /\ [Next]_vars => TypeInv'
<1>1. TypeInv /\ UNCHANGED vars => TypeInv'
  BY DEF TypeInv, TypeOK, Unscheduled, vars, who, shared, loop
<1>2. QED BY <1>1, TypeOperation, TypeLoop DEF Next

\* Every variable of the loop stays within its type, and what the program counter
\* says of the callback and of the batch holds.
THEOREM TypeCorrect == Spec => []TypeOK
<1>1. TypeInv => TypeOK BY DEF TypeInv
<1>2. QED BY <1>1, TypeInit, TypeStep, PTL DEF Spec

-----------------------------------------------------------------------------
(***************************************************************************)
(* One-time events keep their order: what has run, the loop's own array    *)
(* and the queue are at every moment the events added so far.              *)
(***************************************************************************)
LEMMA Shift ==
    ASSUME NEW a \in Seq(Events), NEW b \in Seq(Events), NEW c \in Seq(Events), b # << >>
    PROVE  Append(a, Head(b)) \o Tail(b) \o c = a \o b \o c
<1>1. /\ Head(b) \in Events /\ Tail(b) \in Seq(Events) /\ <<Head(b)>> \in Seq(Events)
  OBVIOUS
<1>2. <<Head(b)>> \o Tail(b) = b OBVIOUS
<1>3. Append(a, Head(b)) = a \o <<Head(b)>> BY <1>1, AppendIsConcat
<1>4. (a \o <<Head(b)>>) \o Tail(b) = a \o (<<Head(b)>> \o Tail(b))
  BY <1>1, ConcatAssociative
<1>5. QED BY <1>2, <1>3, <1>4

LEMMA Added ==
    ASSUME NEW a \in Seq(Events), NEW q \in Seq(Events), NEW e \in Events
    PROVE  a \o Append(q, e) = Append(a \o q, e)
<1>1. <<e>> \in Seq(Events) /\ a \o q \in Seq(Events) BY ConcatProperties
<1>2. Append(q, e) = q \o <<e>> /\ Append(a \o q, e) = (a \o q) \o <<e>>
  BY <1>1, AppendIsConcat
<1>3. (a \o q) \o <<e>> = a \o (q \o <<e>>) BY <1>1, ConcatAssociative
<1>4. QED BY <1>2, <1>3

OrderInv == TypeInv /\ InOrderOnce

LEMMA OrderStep == OrderInv /\ [Next]_vars => OrderInv'
<1> SUFFICES ASSUME OrderInv, [Next]_vars PROVE InOrderOnce'
  BY TypeStep DEF OrderInv
<1>0. /\ queue \in Seq(Events) /\ batch \in Seq(Events) /\ executed \in Seq(Events)
      /\ executed \o batch \in Seq(Events) /\ executed \o batch \o queue = added
      /\ batch # << >> => pc \in {"events", "failed"}
  BY ConcatProperties DEF OrderInv, TypeInv, TypeOK, InOrderOnce
<1>1. ASSUME NEW e \in Events, Run(e) \/ RunPromised(e) PROVE InOrderOnce'
  <2>1. /\ queue' = Append(queue, e) /\ added' = Append(added, e)
        /\ UNCHANGED <<batch, executed>>
    BY <1>1 DEF Run, RunPromised, loop
  <2>2. QED BY <1>0, <2>1, Added DEF InOrderOnce
<1>2. CASE RunEvent
  <2>1. /\ batch # << >> /\ executed' = Append(executed, Head(batch)) /\ batch' = Tail(batch)
        /\ UNCHANGED <<queue, added>>
    BY <1>2 DEF RunEvent, shared
  <2>2. QED BY <1>0, <2>1, Shift DEF InOrderOnce
<1>3. CASE CollectOneTimers
  <2>1. /\ batch = << >> /\ batch' = queue /\ queue' = << >> /\ UNCHANGED <<executed, added>>
    BY <1>0, <1>3 DEF CollectOneTimers
  <2>2. executed \o << >> = executed BY <1>0, ConcatEmptySeq
  <2>3. (executed \o queue) \o << >> = executed \o queue
    BY <1>0, ConcatProperties, ConcatEmptySeq
  <2>4. QED BY <1>0, <2>1, <2>2, <2>3 DEF InOrderOnce
<1>4. ASSUME UNCHANGED <<queue, batch, executed, added>> PROVE InOrderOnce'
  BY <1>0, <1>4 DEF InOrderOnce
<1>5. CASE Operation
  <2>1. CASE Promise \/ (\E e \in Regulars : Repeat(e) \/ Cancel(e))
             \/ (\E m \in MainEvents : AddMain(m) \/ StopMain(m))
    BY <1>4, <2>1 DEF Promise, Repeat, Cancel, AddMain, StopMain, loop
  <2>2. QED BY <1>1, <1>5, <2>1 DEF Operation
<1>6. CASE LoopStep \/ Throw \/ TimePasses
  <2>1. CASE StartLoop \/ Collect \/ RegularsDone \/ EventsDone \/ TickDone \/ Return
             \/ Decide \/ Wake \/ Throw \/ TimePasses
             \/ (\E e \in Regulars : RunRegular(e)) \/ (\E m \in MainEvents : RunMain(m))
    BY <1>4, <2>1 DEF StartLoop, Collect, RegularsDone, EventsDone, TickDone, Return, Decide,
                      Wake, Throw, TimePasses, RunRegular, RunMain, shared, loop
  <2>2. QED BY <1>2, <1>3, <1>6, <2>1 DEF LoopStep
<1>7. CASE UNCHANGED vars BY <1>4, <1>7 DEF vars, shared, loop
<1>8. QED BY <1>5, <1>6, <1>7 DEF Next

\* One-time events run in the order in which they were added, each once, and none is
\* lost between the queue, the loop's own array and the callbacks.
THEOREM EventsKeepOrder == Spec => []InOrderOnce
<1>1. Init => OrderInv
  <2> SUFFICES ASSUME Init PROVE InOrderOnce
    BY TypeInit DEF OrderInv
  <2>1. << >> \in Seq(Events) OBVIOUS
  <2>2. << >> \o << >> = << >> BY <2>1, ConcatEmptySeq
  <2>3. QED BY <2>2 DEF Init, InOrderOnce
<1>2. OrderInv => InOrderOnce BY DEF OrderInv
<1>3. QED BY <1>1, <1>2, OrderStep, PTL DEF Spec

-----------------------------------------------------------------------------
(***************************************************************************)
(* The loop does not oversleep.  With no permit, the time it will wait for *)
(* was right when it was computed and no regular event was added since;    *)
(* and once the one-time events have been taken, none was added either.    *)
(***************************************************************************)
Timed  == {"regulars", "oneTimers", "events", "tick", "decide", "waiting"}
Taken  == {"events", "tick", "decide", "waiting"}

TimeKnown  == pc \in Timed /\ permits = 0 =>
                \A e \in regulars : nextEventAt # Never /\ nextEventAt <= nextRunTime[e]
QueueTaken == pc \in Taken /\ permits = 0 => queue = << >>

WaitInv == TypeInv /\ TimeKnown /\ QueueTaken

LEMMA WaitStep == WaitInv /\ [Next]_vars => WaitInv'
<1> SUFFICES ASSUME WaitInv, [Next]_vars PROVE TimeKnown' /\ QueueTaken'
  BY TypeStep DEF WaitInv
<1> TypeInv /\ TypeOK BY DEF WaitInv, TypeInv
<1>0. permits \in Nat /\ nextRunTime \in [Regulars -> Nat] /\ regulars \subseteq Regulars
      /\ now \in Nat
  BY DEF TypeOK
<1>1. ASSUME permits' = permits + 1 PROVE TimeKnown' /\ QueueTaken'
  BY <1>0, <1>1 DEF TimeKnown, QueueTaken
<1>2. ASSUME UNCHANGED <<permits, nextEventAt, nextRunTime, queue>>, regulars' \subseteq regulars,
             pc' \in Timed => pc \in Timed, pc' \in Taken => pc \in Taken
      PROVE  TimeKnown' /\ QueueTaken'
  BY <1>2 DEF WaitInv, TimeKnown, QueueTaken
<1>3. CASE Operation
  <2>1. CASE \/ \E e \in Events : Run(e) \/ RunPromised(e)
             \/ \E e \in Regulars : Repeat(e)
    BY <1>1, <2>1 DEF Run, RunPromised, Repeat
  <2>2. CASE Promise \/ (\E e \in Regulars : Cancel(e))
             \/ (\E m \in MainEvents : AddMain(m) \/ StopMain(m))
    BY <1>2, <2>2 DEF Promise, Cancel, AddMain, StopMain, loop
  <2>3. QED BY <1>3, <2>1, <2>2 DEF Operation
<1>4. CASE Collect
  <2>1. PICK t \in {now - 1, now} :
          /\ nextRunTime' = [e \in Regulars |-> IF e \in DueAt(t)
                                                THEN nextRunTime[e] + Interval[e]
                                                ELSE nextRunTime[e]]
          /\ nextEventAt' = NextEvent(t)
    BY <1>4 DEF Collect
  <2>2. t \in Int BY <1>0
  <2>3. pc' = "regulars" /\ regulars' = regulars BY <1>4 DEF Collect
  <2>4. QueueTaken' BY <2>3 DEF QueueTaken, Taken
  <2>5. CASE NextEvent(t) = Now
    <3>1. \A e \in regulars : nextRunTime'[e] \in Nat
      BY <1>0, <2>1, EventLoopAssumption
    <3>2. nextEventAt' # Never /\ \A n \in Nat : nextEventAt' <= n
      BY <2>1, <2>5 DEF Now, Never
    <3>3. TimeKnown' BY <2>3, <3>1, <3>2 DEF TimeKnown
    <3>4. QED BY <2>4, <3>3
  <2>6. CASE NextEvent(t) # Now
    <3>1. DueAt(t) = {} /\ \A e \in regulars : NextEvent(t) <= nextRunTime[e]
      BY <2>2, <2>6, NextEventBound
    <3>2. \A e \in regulars : nextRunTime'[e] = nextRunTime[e] BY <1>0, <2>1, <3>1
    <3>3. NextEvent(t) = Never => regulars = {} BY <2>2, NextEventBound
    <3>4. TimeKnown' BY <2>1, <2>3, <3>1, <3>2, <3>3 DEF TimeKnown
    <3>5. QED BY <2>4, <3>4
  <2>7. QED BY <2>5, <2>6
<1>5. CASE CollectOneTimers
  <2>1. /\ pc = "oneTimers" /\ pc' = "events" /\ queue' = << >>
        /\ UNCHANGED <<permits, nextEventAt, nextRunTime, regulars>>
    BY <1>5 DEF CollectOneTimers
  <2>2. QED BY <2>1 DEF WaitInv, TimeKnown, QueueTaken, Timed
<1>6. CASE Wake
  <2>1. pc' = "collect" BY <1>6 DEF Wake
  <2>2. QED BY <2>1 DEF TimeKnown, QueueTaken, Timed, Taken
<1>7. CASE StartLoop \/ RegularsDone \/ RunEvent \/ EventsDone \/ TickDone \/ Return
           \/ Decide \/ Throw \/ TimePasses
           \/ (\E e \in Regulars : RunRegular(e)) \/ (\E m \in MainEvents : RunMain(m))
  <2>1. UNCHANGED <<permits, nextEventAt, nextRunTime, queue, regulars>>
    BY <1>7 DEF StartLoop, RegularsDone, RunEvent, EventsDone, TickDone, Return, Decide,
                Throw, TimePasses, RunRegular, RunMain, shared, loop
  <2>2. \/ pc' = pc \/ pc' \in {"collect", "ended", "failed"}
        \/ pc = "regulars" /\ pc' = "oneTimers"
        \/ pc = "events" /\ pc' \in {"tick", "decide"}
        \/ pc = "tick" /\ pc' = "decide"
        \/ pc = "decide" /\ pc' = "waiting"
    BY <1>7 DEF StartLoop, RegularsDone, RunEvent, EventsDone, TickDone, Return, Decide,
                Throw, TimePasses, RunRegular, RunMain, loop
  <2>3. (pc' \in Timed => pc \in Timed) /\ (pc' \in Taken => pc \in Taken)
    BY <2>2 DEF Timed, Taken
  <2>4. QED BY <1>2, <2>1, <2>3
<1>8. CASE UNCHANGED vars BY <1>2, <1>8 DEF vars, shared, loop
<1>9. QED BY <1>3, <1>4, <1>5, <1>6, <1>7, <1>8 DEF Next, LoopStep

\* The loop never waits past the time of a regular event, nor with a one-time event in
\* the queue, unless a permit is there to wake it.
THEOREM NoOversleeping == Spec => []NeverOversleeps
<1>1. Init => WaitInv
  BY TypeInit DEF Init, WaitInv, TimeKnown, QueueTaken, Timed, Taken
<1>2. WaitInv => NeverOversleeps
  BY DEF WaitInv, TimeKnown, QueueTaken, Timed, Taken, NeverOversleeps
<1>3. QED BY <1>1, <1>2, WaitStep, PTL DEF Spec

-----------------------------------------------------------------------------
(***************************************************************************)
(* The loop returns when everything is done.  Off the main thread and used *)
(* by its own thread and by threads that keep a promise only, an iteration *)
(* that found no regular event to wait for either takes a one-time event   *)
(* or sees a promise, or leaves nothing that anyone could still add to.    *)
(***************************************************************************)
Expecting == regulars # {} \/ promised > 0 \/ queue # << >>

Unused == ~isMainThread /\ ~stranger /\ nextEventAt = Never

Found == Unused /\ pc \in {"regulars", "oneTimers"} =>
           /\ due = {} /\ calling = None
           /\ regulars = {} \/ promised > 0 \/ queue # << >>
Quiet == Unused /\ ranAny = FALSE /\ anyTime = FALSE /\ pc \in {"events", "decide", "ended"} =>
           batch = << >> /\ calling = None /\ ~Expecting
Ended == pc = "ended" => nextEventAt = Never /\ ranAny = FALSE /\ anyTime = FALSE
NoTick == isMainThread \/ pc # "tick"

DoneInv == TypeInv /\ Found /\ Quiet /\ Ended /\ NoTick

LEMMA DecideEnds ==
    ASSUME TypeOK, Decide
    PROVE  /\ pc' \in {"collect", "ended", "waiting"}
           /\ pc' = "ended" => nextEventAt = Never /\ ranAny = FALSE /\ anyTime = FALSE
<1>1. ranAny \in BOOLEAN /\ anyTime \in BOOLEAN BY DEF TypeOK
<1>2. CASE ranAny = TRUE \/ nextEventAt = Now
  <2>1. pc' = "collect" BY <1>1, <1>2 DEF Decide, Now, Never
  <2>2. QED BY <2>1
<1>3. CASE ranAny = FALSE /\ nextEventAt # Now /\ ~(nextEventAt = Never /\ anyTime = FALSE)
  <2>1. pc' = "waiting" BY <1>1, <1>3 DEF Decide
  <2>2. QED BY <2>1
<1>4. CASE ranAny = FALSE /\ nextEventAt = Never /\ anyTime = FALSE
  <2>1. pc' = "ended" BY <1>4 DEF Decide, Now, Never
  <2>2. QED BY <1>4, <2>1
<1>5. QED BY <1>1, <1>2, <1>3, <1>4

\* An operation of a thread that may use the loop, when it is not the loop's own.
LEMMA OthersPromised ==
    ASSUME Adding, ~stranger', calling = None, pc # "job"
    PROVE  ~stranger /\ promised > 0
BY DEF Adding, OnLoopThread

LEMMA DoneOperation == DoneInv /\ Operation => Found' /\ Quiet' /\ Ended' /\ NoTick'
<1> SUFFICES ASSUME DoneInv, Operation PROVE Found' /\ Quiet' /\ Ended' /\ NoTick'
  OBVIOUS
<1>0. /\ promised \in Nat /\ queue \in Seq(Events) /\ TypeOK /\ TypeOK'
      /\ Found /\ Quiet /\ Ended /\ NoTick
  BY TypeStep, TypeOperation DEF DoneInv, TypeInv, TypeOK
<1>1. UNCHANGED <<isMainThread, pc, calling, batch, due, nextEventAt, anyTime, ranAny>>
  BY DEF Operation, Promise, Run, RunPromised, Repeat, Cancel, AddMain, StopMain, loop, who
<1>2. Ended' /\ NoTick' BY <1>0, <1>1 DEF Ended, NoTick
<1>3. CASE \/ Promise \/ \E e \in Events : Run(e)
           \/ \E e \in Regulars : Repeat(e)
  <2>1. /\ Adding
        /\ \/ promised' = promised + 1 /\ UNCHANGED <<queue, regulars>>
           \/ promised' = promised /\ regulars' = regulars /\ \E e \in Events : queue' = Append(queue, e)
           \/ promised' = promised /\ queue' = queue /\ regulars \subseteq regulars'
    BY <1>3 DEF Promise, Run, Repeat
  <2>2. (\E e \in Events : queue' = Append(queue, e)) => queue' # << >>
    BY <1>0, AppendProperties
  <2>3. Found'
    <3> SUFFICES ASSUME Unused', pc' \in {"regulars", "oneTimers"}
                 PROVE  due' = {} /\ calling' = None
                        /\ (regulars' = {} \/ promised' > 0 \/ queue' # << >>)
      BY DEF Found
    <3>1. ~stranger BY <2>1 DEF Unused, Adding
    <3>2. Unused /\ pc \in {"regulars", "oneTimers"} BY <1>1, <3>1 DEF Unused
    <3>3. due = {} /\ calling = None BY <1>0, <3>2 DEF Found
    <3>4. ~stranger' /\ pc # "job" BY <3>2 DEF Unused
    <3>5. promised > 0 BY <2>1, <3>3, <3>4, OthersPromised
    <3>6. promised' > 0 BY <1>0, <2>1, <3>5
    <3>7. QED BY <1>1, <3>3, <3>6
  <2>4. Quiet'
    <3> SUFFICES ASSUME Unused', ranAny' = FALSE, anyTime' = FALSE,
                        pc' \in {"events", "decide", "ended"}
                 PROVE  FALSE
      BY DEF Quiet
    <3>1. ~stranger BY <2>1 DEF Unused, Adding
    <3>2. Unused /\ ranAny = FALSE /\ anyTime = FALSE /\ pc \in {"events", "decide", "ended"}
      BY <1>1, <3>1 DEF Unused
    <3>3. calling = None /\ ~(promised > 0) BY <1>0, <3>2 DEF Quiet, Expecting
    <3>4. ~stranger' /\ pc # "job" BY <3>2 DEF Unused
    <3>5. QED BY <2>1, <3>3, <3>4, OthersPromised
  <2>5. QED BY <1>2, <2>3, <2>4
<1>4. ASSUME NEW e \in Events, RunPromised(e) PROVE Found' /\ Quiet'
  <2>1. /\ promised > 0 /\ queue' = Append(queue, e) /\ stranger' = stranger
    BY <1>4 DEF RunPromised, who
  <2>2. queue' # << >> BY <1>0, <2>1, AppendProperties
  <2>3. Found' BY <1>0, <1>1, <2>1, <2>2 DEF Found, Unused
  <2>4. Quiet' BY <1>0, <1>1, <2>1 DEF Quiet, Unused, Expecting
  <2>5. QED BY <2>3, <2>4
<1>5. CASE \/ \E e \in Regulars : Cancel(e)
           \/ \E m \in MainEvents : AddMain(m) \/ StopMain(m)
  <2>1. /\ UNCHANGED <<stranger, promised, queue>> /\ regulars' \subseteq regulars
    BY <1>5 DEF Cancel, AddMain, StopMain, who
  <2>2. Found' BY <1>0, <1>1, <2>1 DEF Found, Unused
  <2>3. Quiet' BY <1>0, <1>1, <2>1 DEF Quiet, Unused, Expecting
  <2>4. QED BY <2>2, <2>3, <1>2
<1>6. QED BY <1>2, <1>3, <1>4, <1>5 DEF Operation

LEMMA DoneLoop == DoneInv /\ (LoopStep \/ Throw \/ TimePasses) => Found' /\ Quiet' /\ Ended' /\ NoTick'
<1> SUFFICES ASSUME DoneInv, LoopStep \/ Throw \/ TimePasses
             PROVE Found' /\ Quiet' /\ Ended' /\ NoTick'
  OBVIOUS
<1>0. TypeInv /\ TypeOK /\ Found /\ Quiet /\ Ended /\ NoTick /\ promised \in Nat
  BY DEF DoneInv, TypeInv, TypeOK
<1>1. isMainThread' = isMainThread /\ stranger' = stranger /\ promised' = promised
  BY DEF LoopStep, StartLoop, Collect, RunRegular, RegularsDone, CollectOneTimers, RunEvent,
         EventsDone, RunMain, TickDone, Return, Throw, Decide, Wake, TimePasses, who, shared
<1>2. ASSUME pc' \notin {"regulars", "oneTimers", "events", "decide", "ended", "tick"}
      PROVE  Found' /\ Quiet' /\ Ended' /\ NoTick'
  BY <1>2 DEF Found, Quiet, Ended, NoTick
<1>3. CASE StartLoop BY <1>2, <1>3 DEF StartLoop
<1>4. CASE Collect
  <2>1. PICK t \in {now - 1, now} : due' = DueAt(t) /\ nextEventAt' = NextEvent(t)
    BY <1>4 DEF Collect
  <2>2. t \in Int BY <1>0 DEF TypeOK
  <2>3. nextEventAt' = Never => regulars = {} /\ DueAt(t) = {}
    BY <1>0, <2>1, <2>2, NextEventBound
  <2>4. pc = "collect" /\ pc' = "regulars" /\ calling' = calling /\ regulars' = regulars
    BY <1>4 DEF Collect
  <2>5. calling = None BY <1>0, <2>4 DEF TypeOK
  <2>6. Found' BY <2>1, <2>3, <2>4, <2>5 DEF Found, Unused
  <2>7. QED BY <2>4, <2>6 DEF Quiet, Ended, NoTick
<1>5. ASSUME NEW e \in Regulars, RunRegular(e) PROVE Found' /\ Quiet' /\ Ended' /\ NoTick'
  <2>1. /\ pc = "regulars" /\ pc' = pc /\ due # {}
        /\ UNCHANGED <<nextEventAt, isMainThread, stranger>>
    BY <1>5 DEF RunRegular, who
  <2>2. Found' BY <1>0, <2>1 DEF Found, Unused
  <2>3. QED BY <2>1, <2>2 DEF Quiet, Ended, NoTick
<1>6. CASE RegularsDone
  <2>1. /\ pc = "regulars" /\ pc' = "oneTimers"
        /\ UNCHANGED <<nextEventAt, due, calling, regulars, queue>>
    BY <1>6 DEF RegularsDone, shared
  <2>2. Found' BY <1>0, <1>1, <2>1 DEF Found, Unused
  <2>3. QED BY <2>1, <2>2 DEF Quiet, Ended, NoTick
<1>7. CASE CollectOneTimers
  <2>1. /\ pc = "oneTimers" /\ pc' = "events" /\ batch' = queue /\ queue' = << >>
        /\ ranAny' = (queue # << >>) /\ anyTime' = (promised > 0)
        /\ UNCHANGED <<nextEventAt, calling, regulars>>
    BY <1>7 DEF CollectOneTimers
  <2>2. Quiet'
    <3> SUFFICES ASSUME Unused', ranAny' = FALSE, anyTime' = FALSE
                 PROVE  batch' = << >> /\ calling' = None /\ ~Expecting'
      BY DEF Quiet
    <3>1. queue = << >> BY <2>1
    <3>2. ~(promised > 0) BY <2>1
    <3>3. Unused BY <1>1, <2>1 DEF Unused
    <3>4. calling = None /\ regulars = {} BY <1>0, <2>1, <3>1, <3>2, <3>3 DEF Found
    <3>5. QED BY <1>1, <2>1, <3>1, <3>2, <3>4 DEF Expecting
  <2>3. QED BY <2>1, <2>2 DEF Found, Ended, NoTick
<1>8. CASE RunEvent
  <2>1. /\ pc = "events" /\ pc' = pc /\ batch # << >>
        /\ UNCHANGED <<nextEventAt, ranAny, anyTime>>
    BY <1>8 DEF RunEvent
  <2>2. Quiet' BY <1>0, <1>1, <2>1 DEF Quiet, Unused
  <2>3. QED BY <2>1, <2>2 DEF Found, Ended, NoTick
<1>9. CASE EventsDone
  <2>1. /\ pc = "events" /\ pc' \in {"tick", "decide"} /\ (pc' = "tick" => isMainThread)
        /\ UNCHANGED <<nextEventAt, ranAny, anyTime, batch, calling, regulars, queue>>
    BY <1>9 DEF EventsDone, shared
  <2>2. Quiet' BY <1>0, <1>1, <2>1 DEF Quiet, Unused, Expecting
  <2>3. QED BY <1>1, <2>1, <2>2 DEF Found, Ended, NoTick
<1>10. CASE TickDone \/ \E m \in MainEvents : RunMain(m)
  <2>1. pc = "tick" /\ pc' \in {"tick", "decide"} BY <1>10 DEF TickDone, RunMain
  <2>2. isMainThread BY <1>0, <2>1 DEF NoTick
  <2>3. QED BY <1>1, <2>1, <2>2 DEF Found, Quiet, Ended, NoTick, Unused
<1>11. CASE Return
  <2>1. /\ calling # None /\ calling' = None /\ pc' = pc
        /\ UNCHANGED <<nextEventAt, ranAny, anyTime, due, regulars, queue, batch>>
    BY <1>11 DEF Return, shared
  <2>2. Found' BY <1>0, <1>1, <2>1 DEF Found, Unused
  <2>3. Quiet' BY <1>0, <1>1, <2>1 DEF Quiet, Unused
  <2>4. QED BY <1>0, <1>1, <2>1, <2>2, <2>3 DEF Ended, NoTick
<1>12. CASE Throw BY <1>2, <1>12 DEF Throw
<1>13. CASE Decide
  <2>1. /\ pc = "decide"
        /\ UNCHANGED <<nextEventAt, ranAny, anyTime, due, regulars, queue, batch, calling>>
    BY <1>13 DEF Decide, shared
  <2>2. CASE pc' = "ended"
    <3>1. nextEventAt = Never /\ ranAny = FALSE /\ anyTime = FALSE
      BY <1>0, <1>13, <2>2, DecideEnds
    <3>2. Quiet' BY <1>0, <1>1, <2>1 DEF Quiet, Unused, Expecting
    <3>3. QED BY <2>1, <2>2, <3>1, <3>2 DEF Found, Ended, NoTick
  <2>3. QED BY <1>0, <1>2, <1>13, <2>2, DecideEnds
<1>14. CASE Wake BY <1>2, <1>14 DEF Wake
<1>15. CASE TimePasses
  <2>1. UNCHANGED <<shared, loop>> BY <1>15 DEF TimePasses
  <2>2. QED BY <1>0, <1>1, <2>1 DEF Found, Quiet, Ended, NoTick, Unused, Expecting, shared, loop
<1>16. QED BY <1>3, <1>4, <1>5, <1>6, <1>7, <1>8, <1>9, <1>10, <1>11, <1>12, <1>13, <1>14,
              <1>15 DEF LoopStep

\* loop() "runs until all repeating events are cancelled and no more events are
\* expected": on every thread but the main one, and as long as only its own thread and
\* threads with a promise use it, nothing is left or promised when it has returned.
THEOREM LoopEndsDone == Spec => []EndedMeansDone
<1>1. Init => DoneInv
  BY TypeInit DEF Init, DoneInv, Found, Quiet, Ended, NoTick
<1>2. DoneInv /\ [Next]_vars => DoneInv'
  <2>1. DoneInv /\ UNCHANGED vars => Found' /\ Quiet' /\ Ended' /\ NoTick'
    BY DEF DoneInv, Found, Quiet, Ended, NoTick, Unused, Expecting, vars, who, shared, loop
  <2>2. DoneInv /\ [Next]_vars => TypeInv' BY TypeStep DEF DoneInv
  <2>3. QED BY <2>1, <2>2, DoneOperation, DoneLoop DEF Next, DoneInv
<1>3. DoneInv => EndedMeansDone
  <2> SUFFICES ASSUME DoneInv, ~isMainThread, pc = "ended", ~stranger
               PROVE  queue = << >> /\ regulars = {} /\ promised = 0
    BY DEF EndedMeansDone, LoopRunsUntilDone
  <2>1. ~Expecting BY DEF DoneInv, Ended, Quiet, Unused
  <2>2. promised \in Nat BY DEF DoneInv, TypeInv, TypeOK
  <2>3. QED BY <2>1, <2>2 DEF Expecting
<1>4. QED BY <1>1, <1>2, <1>3, PTL DEF Spec
=============================================================================

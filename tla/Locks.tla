------------------------------- MODULE Locks -------------------------------
(***************************************************************************)
(* The Lock of a target, and the program that uses it: either one thread   *)
(* waits on it, as in EventLoop and in the workers of the thread pools, or *)
(* several do.  Both implementations are held against what Lock.hx says.   *)
(***************************************************************************)
EXTENDS Integers

CONSTANTS
    Threads,        \* that may call wait()
    MaxWaits, MaxReleases   \* bounds on the calls

ASSUME LocksAssumption == MaxWaits \in Nat /\ MaxReleases \in Nat

VARIABLES
    use,            \* the target, the threads that call wait(), and whether they do
                    \* it with a time-out: what the program is, it never changes
    waitCount, releaseCount, releaseEvent, myTicket,    \* of the C# lock
    releasedCount, waits,                               \* of the Java lock
    pc, timed, released, passed                         \* of both

cs == <<waitCount, releaseCount, releaseEvent, myTicket>>
java == <<releasedCount, waits>>
vars == <<use, cs, java, pc, timed, released, passed>>

Cs == INSTANCE CsLock
Java == INSTANCE JavaLock

TypeOK == IF use.target = "cs" THEN Cs!TypeOK ELSE Java!TypeOK

Init ==
    /\ use \in [target : {"cs", "java"}, users : SUBSET Threads, timeouts : BOOLEAN]
    /\ Cs!Init /\ Java!Init

\* Only some programs wait with a time-out.
AsUsed == UNCHANGED use /\ \A t \in Threads : timed'[t] => use.timeouts

OnCs(action) == use.target = "cs" /\ action /\ AsUsed /\ UNCHANGED java
OnJava(action) == use.target = "java" /\ action /\ AsUsed /\ UNCHANGED cs

\* Any thread calls release(), but only the users of the lock call wait().
Next == \/ OnCs(Cs!Release) \/ OnJava(Java!Release)
        \/ \E t \in use.users : OnCs(Cs!Wait(t)) \/ OnJava(Java!Wait(t))

\* What a thread inside wait() does when it is scheduled.
Step(t) == t \in use.users /\ (OnCs(Cs!Step(t)) \/ OnJava(Java!Step(t)))

Spec == Init /\ [][Next]_vars /\ \A t \in Threads : WF_vars(Step(t))

-----------------------------------------------------------------------------
(* Properties *)

Alone == \A s, t \in use.users : s = t

\* What stands for the variables of Lock.
Permits == IF ~Alone THEN 0 ELSE IF use.target = "cs" THEN Cs!Permits ELSE Java!Permits
State == [t \in Threads |-> IF ~Alone \/ pc[t] = "outside" THEN "outside"
                           ELSE IF timed[t] THEN "timed" ELSE "blocked"]

\* With one waiting thread tickets and event of C#, and the count of Java, are a Lock,
\* through time-outs, late releases and spurious wake-ups; several waiting threads are
\* not compared.
Promise == INSTANCE Lock WITH permits <- Permits, state <- State
IsALock == Promise!Spec

\* The part of it that says what may happen, without the fairness.
ActsAsLock == Promise!Init /\ [][Promise!Next]_(Promise!vars)

\* Lock.hx: each release allows exactly one wait to execute.  No more waits return
\* true than there were calls of release().
OneWaitPerRelease == passed <= released

\* On Java that holds for any mix of threads, time-outs and wake-ups; on C# with one
\* thread, or without time-outs: then no ticket is used twice.
NoFreePass ==
    use.target = "java" \/ Alone \/ ~use.timeouts => OneWaitPerRelease

\* And no fewer: the threads inside wait() do not all sleep while a release is left.
NoLostRelease == ~(IF use.target = "cs" THEN Cs!Stuck ELSE Java!Stuck)
=============================================================================

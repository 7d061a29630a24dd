------------------------------ MODULE JavaLock -----------------------------
(***************************************************************************)
(* std/java/_std/sys/thread/Lock.hx: the Lock of the Java target, a count  *)
(* under the object's monitor.  A wait lowers the count and sleeps while   *)
(* it is negative; release raises it and may notify one sleeping thread.   *)
(***************************************************************************)
EXTENDS Integers

CONSTANTS
    Threads,        \* that call wait()
    MaxWaits, MaxReleases   \* bounds on the calls

VARIABLES
    releasedCount,
    pc,             \* outside wait(), asleep in Object.wait(), or to take the monitor
                    \* again: awake, or expired when the time is up
    timed,          \* of each thread's call
    waits, released, passed \* history: calls, releases, waits that returned true

vars == <<releasedCount, pc, timed, waits, released, passed>>

TypeOK ==
    /\ releasedCount \in -MaxWaits .. MaxReleases
    /\ pc \in [Threads -> {"outside", "asleep", "awake", "expired"}]
    /\ timed \in [Threads -> BOOLEAN]
    /\ \A t \in Threads : pc[t] = "expired" => timed[t]
    /\ waits \in 0 .. MaxWaits /\ released \in 0 .. MaxReleases /\ passed \in 0 .. waits

Init ==
    /\ releasedCount = 0
    /\ pc = [t \in Threads |-> "outside"] /\ timed = [t \in Threads |-> FALSE]
    /\ waits = 0 /\ released = 0 /\ passed = 0

CanWait(t) == /\ pc[t] = "outside" /\ waits < MaxWaits
              /\ waits' = waits + 1

\* wait() while the count is positive
Pass(t) ==
    /\ CanWait(t) /\ releasedCount > 0
    /\ releasedCount' = releasedCount - 1
    /\ passed' = passed + 1
    /\ UNCHANGED <<pc, timed, released>>

Sleep(t) ==
    /\ CanWait(t) /\ releasedCount <= 0
    /\ releasedCount' = releasedCount - 1
    /\ \E b \in BOOLEAN : timed' = [timed EXCEPT ![t] = b]
    /\ pc' = [pc EXCEPT ![t] = "asleep"]
    /\ UNCHANGED <<released, passed>>

\* A wake-up without notify(), which the platform allows.
Spurious(t) ==
    /\ pc[t] = "asleep"
    /\ pc' = [pc EXCEPT ![t] = "awake"]
    /\ UNCHANGED <<releasedCount, timed, waits, released, passed>>

\* currentTimeMillis() has reached max, in or after Object.wait(t).
TimeOut(t) ==
    /\ pc[t] \in {"asleep", "awake"} /\ timed[t]
    /\ pc' = [pc EXCEPT ![t] = "expired"]
    /\ UNCHANGED <<releasedCount, timed, waits, released, passed>>

\* The loop around Object.wait(): it goes on while the count is negative.
Loop(t) ==
    /\ pc[t] = "awake"
    /\ IF releasedCount < 0
       THEN pc' = [pc EXCEPT ![t] = "asleep"] /\ UNCHANGED passed
       ELSE pc' = [pc EXCEPT ![t] = "outside"] /\ passed' = passed + 1
    /\ UNCHANGED <<releasedCount, timed, waits, released>>

\* A timed wait whose time is up returns true all the same if the count allows it.
Leave(t) ==
    /\ pc[t] = "expired"
    /\ IF releasedCount >= 0
       THEN passed' = passed + 1 /\ UNCHANGED releasedCount
       ELSE releasedCount' = releasedCount + 1 /\ UNCHANGED passed
    /\ pc' = [pc EXCEPT ![t] = "outside"]
    /\ UNCHANGED <<timed, waits, released>>

Asleep == {t \in Threads : pc[t] = "asleep"}

\* Mutant of Notify: a positive count is needed.
NotifyAbove(count) ==
    IF count > 0 /\ Asleep # {}
    THEN \E t \in Asleep : pc' = [pc EXCEPT ![t] = "awake"]
    ELSE UNCHANGED pc

\* notify() wakes any one of the threads that are asleep.
Notify(count) ==
    IF count >= 0 /\ Asleep # {}
    THEN \E t \in Asleep : pc' = [pc EXCEPT ![t] = "awake"]
    ELSE UNCHANGED pc

Release ==
    /\ released < MaxReleases
    /\ releasedCount' = releasedCount + 1
    /\ Notify(releasedCount + 1)
    /\ released' = released + 1
    /\ UNCHANGED <<timed, waits, passed>>

Step(t) == Loop(t) \/ Leave(t)

\* What a thread that uses the lock to wait may do.
Wait(t) == Pass(t) \/ Sleep(t) \/ Spurious(t) \/ TimeOut(t) \/ Step(t)

-----------------------------------------------------------------------------
(* What the count stands for *)

Inside == {t \in Threads : pc[t] # "outside"}

\* The releases that no wait has used, with one thread inside wait() or none.
Permits == releasedCount + (IF Inside = {} THEN 0 ELSE 1)

\* All the threads inside wait() sleep, and a release is left over for one of them.
Stuck == Inside # {} /\ Inside = Asleep /\ passed # released
=============================================================================

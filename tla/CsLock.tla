------------------------------- MODULE CsLock ------------------------------
(***************************************************************************)
(* std/cs/_std/sys/thread/Lock.hx: the Lock of the C# target, made of a    *)
(* ManualResetEvent and of tickets.  A wait takes a ticket under lockObj   *)
(* and then waits for the event without it.                                *)
(***************************************************************************)
EXTENDS Integers

CONSTANTS
    Threads,        \* that call wait()
    MaxWaits, MaxReleases   \* bounds on the calls

VARIABLES
    waitCount, releaseCount,
    releaseEvent,   \* is the event set?
    pc,             \* outside wait(), queued (about to call WaitOne), waiting in it,
                    \* woken or expired (WaitOne has returned true or false)
    myTicket, timed,        \* of each thread's call
    released, passed        \* history: calls of release(), waits that returned true

lock == <<waitCount, releaseCount, releaseEvent>>
call == <<pc, myTicket, timed>>
vars == <<lock, call, released, passed>>

TypeOK ==
    /\ waitCount \in 1 .. MaxWaits + 1
    /\ releaseCount \in 0 .. MaxReleases + MaxWaits
    /\ releaseEvent \in BOOLEAN
    /\ pc \in [Threads -> {"outside", "queued", "waiting", "woken", "expired"}]
    /\ myTicket \in [Threads -> 0 .. MaxWaits] /\ timed \in [Threads -> BOOLEAN]
    /\ \A t \in Threads : /\ pc[t] # "outside" => myTicket[t] \in 1 .. waitCount - 1
                          /\ pc[t] = "expired" => timed[t]
    /\ released \in 0 .. MaxReleases /\ passed \in 0 .. MaxWaits

Init ==
    /\ waitCount = 1 /\ releaseCount = 0 /\ releaseEvent = FALSE
    /\ pc = [t \in Threads |-> "outside"]
    /\ myTicket = [t \in Threads |-> 0] /\ timed = [t \in Threads |-> FALSE]
    /\ released = 0 /\ passed = 0

CanWait(t) == pc[t] = "outside" /\ waitCount <= MaxWaits

\* wait() with a ticket that has been released already.
Pass(t) ==
    /\ CanWait(t) /\ waitCount <= releaseCount
    /\ waitCount' = waitCount + 1
    /\ passed' = passed + 1
    /\ UNCHANGED <<releaseCount, releaseEvent, call, released>>

\* wait() with a later ticket: the event is reset, lockObj is given up.
Queue(t) ==
    /\ CanWait(t) /\ waitCount > releaseCount
    /\ myTicket' = [myTicket EXCEPT ![t] = waitCount]
    /\ waitCount' = waitCount + 1
    /\ releaseEvent' = FALSE
    /\ \E b \in BOOLEAN : timed' = [timed EXCEPT ![t] = b]
    /\ pc' = [pc EXCEPT ![t] = "queued"]
    /\ UNCHANGED <<releaseCount, released, passed>>

\* WaitOne() returns at once when the event is set.
WaitOne(t) ==
    /\ pc[t] = "queued"
    /\ pc' = [pc EXCEPT ![t] = IF releaseEvent THEN "woken" ELSE "waiting"]
    /\ UNCHANGED <<lock, myTicket, timed, released, passed>>

\* The ticket is compared with releaseCount, read without lockObj.
Check(t) ==
    /\ pc[t] = "woken"
    /\ IF myTicket[t] <= releaseCount
       THEN pc' = [pc EXCEPT ![t] = "outside"] /\ passed' = passed + 1
       ELSE pc' = [pc EXCEPT ![t] = "queued"] /\ UNCHANGED passed
    /\ UNCHANGED <<lock, myTicket, timed, released>>

\* No seconds are left, or WaitOne() returns false.
TimeOut(t) ==
    /\ pc[t] \in {"queued", "waiting"} /\ timed[t]
    /\ pc' = [pc EXCEPT ![t] = "expired"]
    /\ UNCHANGED <<lock, myTicket, timed, released, passed>>

\* release() with the threads at `state`: Set() wakes those waiting in WaitOne.
SetEvent(state) ==
    /\ releaseCount' = releaseCount + 1 /\ releaseEvent' = TRUE
    /\ pc' = [t \in Threads |-> IF state[t] = "waiting" THEN "woken" ELSE state[t]]

\* A wait that has timed out calls release() and returns false.
Leave(t) ==
    /\ pc[t] = "expired"
    /\ SetEvent([pc EXCEPT ![t] = "outside"])
    /\ UNCHANGED <<waitCount, myTicket, timed, released, passed>>

Release ==
    /\ released < MaxReleases
    /\ SetEvent(pc)
    /\ released' = released + 1
    /\ UNCHANGED <<waitCount, myTicket, timed, passed>>

Step(t) == WaitOne(t) \/ Check(t) \/ Leave(t)

\* What a thread that uses the lock to wait may do.
Wait(t) == Pass(t) \/ Queue(t) \/ TimeOut(t) \/ Step(t)

-----------------------------------------------------------------------------
(* What the tickets stand for *)

Inside == {t \in Threads : pc[t] # "outside"}

\* The releases that no wait has used: the ticket of the one thread inside wait() is
\* still to be used.
Permits == releaseCount - (waitCount - 1) + (IF Inside = {} THEN 0 ELSE 1)

\* All the threads inside wait() sleep, and a release is left over for one of them.
Stuck == /\ Inside # {} /\ passed # released
         /\ \A t \in Inside : pc[t] = "waiting"
=============================================================================

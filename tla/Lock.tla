-------------------------------- MODULE Lock -------------------------------
(***************************************************************************)
(* std/sys/thread/Lock.hx: what a Lock promises on every target.  Each     *)
(* release lets exactly one wait return true, in whatever order they come; *)
(* a wait with a time-out may return false instead.                        *)
(***************************************************************************)
EXTENDS Naturals

CONSTANT Threads    \* that call wait()

VARIABLES
    permits,        \* releases that no wait has used yet
    state           \* of each thread: outside, or blocked with or without a time-out

vars == <<permits, state>>

TypeOK == /\ permits \in Nat
          /\ state \in [Threads -> {"outside", "blocked", "timed"}]

Init == permits = 0 /\ state = [t \in Threads |-> "outside"]

\* A lock that has been released before: wait returns at once.
Pass(t) == /\ state[t] = "outside" /\ permits > 0
           /\ permits' = permits - 1
           /\ UNCHANGED state

Block(t) == /\ state[t] = "outside" /\ permits = 0
            /\ \E s \in {"blocked", "timed"} : state' = [state EXCEPT ![t] = s]
            /\ UNCHANGED permits

Unblock(t) == /\ state[t] # "outside" /\ permits > 0
              /\ permits' = permits - 1
              /\ state' = [state EXCEPT ![t] = "outside"]

\* wait returns false; a release that comes at the same moment stays for the next.
TimeOut(t) == /\ state[t] = "timed"
              /\ state' = [state EXCEPT ![t] = "outside"]
              /\ UNCHANGED permits

Release == permits' = permits + 1 /\ UNCHANGED state

Next == Release \/ \E t \in Threads : Pass(t) \/ Block(t) \/ Unblock(t) \/ TimeOut(t)

Spec == Init /\ [][Next]_vars /\ WF_vars(\E t \in Threads : Unblock(t))
=============================================================================

---------------------------- MODULE MCEventLoop ----------------------------
(* Instances of EventLoop for TLC: regular events with intervals 1 and 2. *)
EXTENDS EventLoop, TLC

CONSTANTS r1, r2
MCInterval == [e \in Regulars |-> IF e = r1 THEN 1 ELSE 2]

Symmetry == Permutations(Events)
=============================================================================

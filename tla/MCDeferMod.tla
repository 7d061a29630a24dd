----------------------------- MODULE MCDeferMod ----------------------------
(* Instances of DeferMod for TLC. *)
EXTENDS DeferMod, TLC

\* The simple expressions are interchangeable.
Symmetry == Permutations(Exprs)
=============================================================================

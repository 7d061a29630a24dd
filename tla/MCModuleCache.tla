--------------------------- MODULE MCModuleCache ---------------------------
(* Instances of ModuleCache for TLC. *)
EXTENDS ModuleCache, TLC

\* Any module can be the root of a request: they are interchangeable.
Symmetry == Permutations(Modules)
=============================================================================

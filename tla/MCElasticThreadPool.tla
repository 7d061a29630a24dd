------------------------ MODULE MCElasticThreadPool ------------------------
(* Instances of ElasticThreadPool for TLC. *)
EXTENDS ElasticThreadPool, TLC

\* Clients, tasks that do not throw and thread identities are interchangeable.
Symmetry == Permutations(Clients) \cup Permutations(Threads)
                \cup Permutations(Tasks \ Throwing)
=============================================================================

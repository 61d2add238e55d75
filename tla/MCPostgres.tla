----------------------------- MODULE MCPostgres -----------------------------
(* PostgresRepository for TLC: callers and ids are interchangeable. *)
EXTENDS PostgresRepository, TLC

Symmetry == Permutations(Callers) \cup Permutations(Ids)
=============================================================================

---------------------------- MODULE MCMigrations ----------------------------
(* Migrations for TLC: the replicas of a rolling deployment, of which the *)
(* older release has no 0003.                                             *)
EXTENDS Migrations, TLC

CONSTANTS s1, s2, s3

Rollout == (s1 :> {1, 2}) @@ (s2 :> {1, 2, 3}) @@ (s3 :> {1, 2, 3})
=============================================================================

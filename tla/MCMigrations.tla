---------------------------- MODULE MCMigrations ----------------------------
(* Instances of Migrations for TLC. *)
EXTENDS Migrations, TLC

\* Sessions are interchangeable.
Symmetry == Permutations(Session)
=============================================================================

----------------------------- MODULE MCMigrations -----------------------------
(***************************************************************************)
(* Two replicas of a new release and one of the old release it replaces.   *)
(***************************************************************************)
EXTENDS Migrations, TLC

CONSTANTS r1, r2, r3

MCKnown == (r1 :> 2) @@ (r2 :> 2) @@ (r3 :> 1)
=============================================================================

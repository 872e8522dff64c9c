---------------------------- MODULE MCMigration ----------------------------
(* Paths for the runs of Migration. *)
EXTENDS Migration

CONSTANTS sst1, sst2
=============================================================================

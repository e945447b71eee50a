----------------------------- MODULE MCMigration -----------------------------
(* Instances of Migration for TLC. *)
EXTENDS Migration

\* fewer parts than the 20, 1 and 3 statements of the scripts: two of a version
\* are enough to be interrupted between
MCParts == <<2, 1, 2>>
=============================================================================

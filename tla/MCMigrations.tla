----------------------------- MODULE MCMigrations -----------------------------
(* A small instance of Migrations: one document with up to two old jobs.     *)
EXTENDS Migrations
=============================================================================

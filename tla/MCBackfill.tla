------------------------------ MODULE MCBackfill ------------------------------
(* A small instance of Backfill. *)
EXTENDS Backfill
=============================================================================

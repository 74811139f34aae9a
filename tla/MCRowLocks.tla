----------------------------- MODULE MCRowLocks -----------------------------
(***************************************************************************)
(* A small instance of RowLocks: two runs, the recovery endpoint in two    *)
(* sessions, and clients.                                                  *)
(***************************************************************************)
EXTENDS RowLocks
=============================================================================

------------------------------ MODULE MCAccess -------------------------------
(* A user with one browser, and an admin. *)
EXTENDS Access

CONSTANT b1
=============================================================================

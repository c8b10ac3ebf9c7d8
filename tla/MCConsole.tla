----------------------------- MODULE MCConsole -----------------------------
(* Three keys, of all kinds, on two entries of the table of handlers. *)
EXTENDS Console
=============================================================================

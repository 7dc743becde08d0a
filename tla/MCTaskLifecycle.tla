--------------------------- MODULE MCTaskLifecycle ---------------------------
(***************************************************************************)
(* One task, two calls at a time.                                          *)
(***************************************************************************)
EXTENDS TaskLifecycle

CONSTANTS p1, p2, north

Everything == [p \in People |-> Permissions]
=============================================================================

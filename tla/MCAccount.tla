----------------------------- MODULE MCAccount -----------------------------
(***************************************************************************)
(* A person with up to two identities, one listing, and two requests at a  *)
(* time, one of which may die.                                             *)
(***************************************************************************)
EXTENDS AccountProperties
=============================================================================

------------------------------ MODULE MCBadge ------------------------------
(***************************************************************************)
(* Enough requests to pass both gates and lose one of them again, two      *)
(* listings, and two handlers at a time, one of which may die.             *)
(***************************************************************************)
EXTENDS Badge
=============================================================================

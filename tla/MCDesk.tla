------------------------------- MODULE MCDesk -------------------------------
(***************************************************************************)
(* A member's ticket, another's, a dispute, two reviewers, one mail, and   *)
(* two requests at a time.                                                 *)
(***************************************************************************)
EXTENDS Desk
=============================================================================

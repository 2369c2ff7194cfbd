------------------------------ MODULE MCMarket ------------------------------
(***************************************************************************)
(* An owner, a listing and a campaign, two deals, and two requests at a    *)
(* time, one of which may die.  Files and handlers are interchangeable.    *)
(***************************************************************************)
EXTENDS Market, TLC

Interchangeable == Permutations(Files) \cup Permutations(Handlers)
=============================================================================

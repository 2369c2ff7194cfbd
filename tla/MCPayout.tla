------------------------------ MODULE MCPayout ------------------------------
(***************************************************************************)
(* Two deals of different worth; two accounts, one of which should not be. *)
(***************************************************************************)
EXTENDS Payout, TLC

CONSTANTS d1, d2

NetOf(d) == IF d = d1 THEN 1 ELSE 2
Alike == Permutations(Handlers) \cup Permutations(Accounts)
=============================================================================

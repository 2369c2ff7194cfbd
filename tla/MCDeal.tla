------------------------------- MODULE MCDeal -------------------------------
(***************************************************************************)
(* Instances of Deal for TLC.  The verified quantities of the hybrid deal  *)
(* earn none of the pool, a part that is not a whole number of units, and  *)
(* more than all of it.  A dispute is like any other.  To mark an event as *)
(* processed only stops its redelivery, so the run of the hybrid deal      *)
(* leaves every mark out: what an invariant or an action property could    *)
(* meet, it meets without.                                                 *)
(***************************************************************************)
EXTENDS DealProperties, MCTerms, TLC

HybridQuantities == {0, 27, 1000}
DisputesAreAlike == Permutations(DPs)
NothingIsMarked == processed = {}
=============================================================================

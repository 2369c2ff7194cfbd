------------------------------ MODULE MCTerms ------------------------------
(***************************************************************************)
(* The deals that the instances of Deal and DealRace use: a fixed-price    *)
(* one of 1.00, and a hybrid one of 0.50 with a pool of 1.00 at 10p for    *)
(* every 5 views, with a fee of 10% on each side.                          *)
(***************************************************************************)

FixedTerms ==
    [ pricing_model |-> "fixed", listed_price |-> 100, pool_max_budget |-> 0,
      rate_unit_pence |-> 0, rate_unit_quantity |-> 1,
      seller_pct |-> 10, buyer_pct |-> 10 ]
FixedCharge == 110

HybridTerms ==
    [ pricing_model |-> "per_view", listed_price |-> 50, pool_max_budget |-> 100,
      rate_unit_pence |-> 10, rate_unit_quantity |-> 5,
      seller_pct |-> 10, buyer_pct |-> 10 ]
HybridCharge == 165
=============================================================================

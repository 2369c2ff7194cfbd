---------------------------- MODULE MCSettlement ----------------------------
(***************************************************************************)
(* Instances of Settlement for TLC.  The fees include the default ones, no *)
(* fee and a fee of everything; the pools are a multiple of the price of a *)
(* unit and not; the views reach past the end of every pool.               *)
(***************************************************************************)
EXTENDS Settlement

MCPoolTerms ==
    [ pool_max_budget : {0, 1, 37, 100}, rate_unit_pence : {1, 7, 10},
      rate_unit_quantity : {1, 3}, seller_pct : {0, 10, 33, 100}, buyer_pct : {0, 5, 50} ]

MCAffiliatePrograms ==
    [ owners : {1, 2, 3}, pool_max_budget : {1, 10, 25}, payout_fee_percent : {0, 10, 33},
      funding_fee_percent : {0, 5} ]
=============================================================================

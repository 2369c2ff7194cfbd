------------------------------- MODULE Money -------------------------------
(***************************************************************************)
(* The fee and settlement arithmetic of backend/money.py, in whole pence.  *)
(* Python's // on non-negative integers is \div.  A deal or program enters *)
(* as the numbers the code reads from its row.                             *)
(***************************************************************************)
EXTENDS Integers, Sequences
Lesser(a, b) == IF a <= b THEN a ELSE b
Greater(a, b) == IF a >= b THEN a ELSE b

\* Mutant of DealMoney: the net is rounded by itself, not derived from the fee.
RoundedNet(listed_price, seller_pct, buyer_pct) ==
  LET buyer_fee  == (listed_price * buyer_pct) \div 100
      seller_fee == (listed_price * seller_pct) \div 100
  IN  [ buyer_fee     |-> buyer_fee,
        seller_fee    |-> seller_fee,
        charge_amount |-> listed_price + buyer_fee,
        net_to_owner  |-> (listed_price * (100 - seller_pct)) \div 100,
        platform_take |-> buyer_fee + seller_fee ]

\* All fees are on the listed price, each rounded down on its own.
DealMoney(listed_price, seller_pct, buyer_pct) ==
  LET buyer_fee  == (listed_price * buyer_pct) \div 100
      seller_fee == (listed_price * seller_pct) \div 100
  IN  [ buyer_fee     |-> buyer_fee,
        seller_fee    |-> seller_fee,
        charge_amount |-> listed_price + buyer_fee,
        net_to_owner  |-> listed_price - seller_fee,
        platform_take |-> buyer_fee + seller_fee ]

\* What the business is charged at funding: the fixed part and the pool, each
\* with its own buyer fee, in one PaymentIntent.
TotalChargeFor(listed_price, pool_max_budget, seller_pct, buyer_pct) ==
    DealMoney(listed_price, seller_pct, buyer_pct).charge_amount
  + DealMoney(pool_max_budget, seller_pct, buyer_pct).charge_amount

\* Mutant of PoolSettlementFor: the whole pool goes back.
WholePoolBack(terms, verified_quantity) ==
  LET units == verified_quantity \div terms.rate_unit_quantity
      gross == Lesser(units * terms.rate_unit_pence, terms.pool_max_budget)
      charged == DealMoney(terms.pool_max_budget, terms.seller_pct, terms.buyer_pct)
      kept == DealMoney(gross, terms.seller_pct, terms.buyer_pct)
  IN  [ pool_gross         |-> gross,
        pool_net_to_owner  |-> kept.net_to_owner,
        pool_platform_take |-> kept.platform_take,
        refund_to_business |-> charged.charge_amount ]

\* Settling a per-view pool: whole units only, never more than was funded;
\* what was charged for the pool and is not kept for the released slice goes
\* back to the business.
PoolSettlementFor(terms, verified_quantity) ==
  LET units == verified_quantity \div terms.rate_unit_quantity
      gross == Lesser(units * terms.rate_unit_pence, terms.pool_max_budget)
      charged == DealMoney(terms.pool_max_budget, terms.seller_pct, terms.buyer_pct)
      kept == DealMoney(gross, terms.seller_pct, terms.buyer_pct)
  IN  [ pool_gross         |-> gross,
        pool_net_to_owner  |-> kept.net_to_owner,
        pool_platform_take |-> kept.platform_take,
        refund_to_business |-> charged.charge_amount - kept.charge_amount ]

\* Settling an affiliate pool over the owners' commissions, in the order the
\* code meets them.  Over-committed pools are scaled down in proportion; what
\* an owner gets is clamped to what is left of the aggregate net.
AffiliateSettlementFor(program, commissions) ==
  LET owners == DOMAIN commissions
      earned[n \in 0..Len(commissions)] ==
          IF n = 0 THEN 0 ELSE earned[n - 1] + commissions[n]
      total == earned[Len(commissions)]
      capped == Lesser(total, program.pool_max_budget)
      charged == DealMoney(program.pool_max_budget, program.payout_fee_percent,
                           program.funding_fee_percent)
      kept == DealMoney(capped, program.payout_fee_percent, program.funding_fee_percent)
      share(n) == IF total = 0 THEN 0 ELSE (commissions[n] * capped) \div total
      deserved(n) == DealMoney(share(n), program.payout_fee_percent, 0).net_to_owner
      left[n \in 0..Len(commissions)] ==
          IF n = 0 THEN kept.net_to_owner
          ELSE left[n - 1] - Greater(0, Lesser(deserved(n), left[n - 1]))
  IN  [ total_commission_capped |-> capped,
        refund_to_business      |-> Greater(0, charged.charge_amount - kept.charge_amount),
        platform_take           |-> kept.platform_take,
        net_to_owner            |-> [n \in owners |-> left[n - 1] - left[n]] ]
=============================================================================

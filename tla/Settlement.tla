----------------------------- MODULE Settlement -----------------------------
(***************************************************************************)
(* The arithmetic of backend/money.py followed over a campaign: the views  *)
(* a reviewer would verify on a pool deal grow one by one, and the owners  *)
(* of an affiliate program earn one commission after another.  After each  *)
(* step the settlement is the one the program would make at that moment.   *)
(***************************************************************************)
EXTENDS Money, Functions, FiniteSetsExt

CONSTANTS
    PoolTerms,          \* the pool deals looked at
    AffiliatePrograms,  \* the affiliate programs looked at
    Commissions,        \* what one sale can earn
    MaxViews,           \* bound on the verified quantity
    MaxEarned           \* bound on the commission of one owner

VARIABLE account    \* a pool deal and the views to verify, or a program and its owners

\* A program has an owner to pay, a price is for some quantity, and fees are
\* percentages.
Percentage == 0..100
ASSUME SettlementAssumption ==
    /\ PoolTerms \subseteq [ pool_max_budget : Nat, rate_unit_pence : Nat,
                             rate_unit_quantity : Nat \ {0},
                             seller_pct : Percentage, buyer_pct : Percentage ]
    /\ AffiliatePrograms \subseteq [ owners : Nat \ {0}, pool_max_budget : Nat,
                                     payout_fee_percent : Percentage,
                                     funding_fee_percent : Percentage ]
    /\ Commissions \subseteq Nat /\ MaxViews \in Nat /\ MaxEarned \in Nat

IsPool == account.kind = "pool"
IsProgram == account.kind = "program"

WalkInit ==
    \/ \E t \in PoolTerms : account = [kind |-> "pool", terms |-> t, views |-> 0]
    \/ \E p \in AffiliatePrograms :
          account = [kind |-> "program", terms |-> p, earned |-> [n \in 1..p.owners |-> 0]]

View ==
    /\ IsPool
    /\ account.views < MaxViews
    /\ account' = [account EXCEPT !.views = @ + 1]

Earning ==
    /\ IsProgram
    /\ \E n \in DOMAIN account.earned, c \in Commissions :
          /\ account.earned[n] + c <= MaxEarned
          /\ account' = [account EXCEPT !.earned[n] = @ + c]

WalkNext == View \/ Earning

WalkSpec == WalkInit /\ [][WalkNext]_account

-----------------------------------------------------------------------------
terms == account.terms
earned == account.earned

pool == PoolSettlementFor(terms, account.views)
PoolCharge == DealMoney(terms.pool_max_budget, terms.seller_pct, terms.buyer_pct).charge_amount

\* What the business paid for the pool is split without a penny made or lost:
\* to the owner, to the platform, back to the business, and no part is
\* negative (money.py pool_settlement_for).
PoolIsConserved == IsPool =>
    /\ pool.pool_net_to_owner + pool.pool_platform_take + pool.refund_to_business = PoolCharge
    /\ pool.pool_net_to_owner >= 0 /\ pool.pool_platform_take >= 0
    /\ pool.refund_to_business >= 0

affiliate == AffiliateSettlementFor(terms, earned)
PaidOut == FoldFunction(+, 0, affiliate.net_to_owner)
Kept == DealMoney(affiliate.total_commission_capped, terms.payout_fee_percent,
                  terms.funding_fee_percent).net_to_owner

\* The owners together never get more than the net kept for them, and what
\* rounding leaves behind is less than a penny an owner
\* (money.py affiliate_settlement_for: "at most a few pence").
AffiliateSlackIsPennies == IsProgram =>
    /\ PaidOut <= Kept
    /\ Kept - PaidOut < Cardinality(DOMAIN earned)
    /\ \A n \in DOMAIN earned : affiliate.net_to_owner[n] >= 0

\* No settlement creates money, and what rounding leaves behind is nothing for a
\* pool and less than a penny an owner for a program (money.py
\* pool_settlement_for, affiliate_settlement_for: "at most a few pence").
SplitsLoseNoPenny == PoolIsConserved /\ AffiliateSlackIsPennies
=============================================================================

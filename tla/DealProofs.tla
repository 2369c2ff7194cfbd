----------------------------- MODULE DealProofs -----------------------------
(***************************************************************************)
(* Theorems about Deal, for every price, fee, pool, set of PaymentIntents, *)
(* set of disputes and bound on outside refunds: its types and its row,    *)
(* then its money and its ledger.                                          *)
(*                                                                         *)
(* TypeOK and PaidOnceForVerifiedWork are not inductive.  IInv adds what   *)
(* they lean on: an event names an object Stripe made (EventsNameObjects), *)
(* the stamps on the row come in order and stay (StampsInOrder), Stripe's  *)
(* one Transfer and paid_at tell the same story (PaidAsTransferred), and   *)
(* a frozen deal has its badge and remembers where it was (FrozenIsMarked).*)
(*                                                                         *)
(* That Deal implements Escrow, spends no more than it collected, honours  *)
(* an open grace window, keeps a ledger that says what Stripe did and      *)
(* counts its absorbed losses needs more.  MInv adds that the status tells *)
(* whether the deal was funded (FundedIsStatus), that Stripe moved money   *)
(* only out of the deal's own charge and only when the row says so         *)
(* (MoneyFollowsRow), and that evidence sent back stays stale until there  *)
(* is more (StaleDuringGrace).  LInv relates each row of the ledger to     *)
(* what it records (RowIsTrue, AllRecorded, Distinct).  HeldByDispute says *)
(* what an open dispute does to its deal, when there is but one.           *)
(***************************************************************************)
EXTENDS DealProperties, TLAPS

\* Every event Stripe sent names an object that exists.
EventsNameObjects ==
    \A e \in sent :
        /\ e.type = "payment_intent.succeeded" => e.obj \in PIs
        /\ e.type = "charge.refunded" => e.obj \in DOMAIN refunds
        /\ e.type \in DisputeEvents =>
              e.obj \in DPs /\ dispute[e.obj].status \in DisputeStatus

\* A paid deal was verified, a verified one was funded and had evidence, and
\* a funded one knows the charge that paid for it.
StampsInOrder ==
    /\ deal.funded_at => /\ deal.charge_id \in PIs
                         /\ deal.payment_intent_id = deal.charge_id
    /\ deal.verified_at => /\ deal.funded_at /\ has_proof
                           /\ HasPool => verified_quantity # None
    /\ deal.paid_at => deal.verified_at /\ deal.status = "paid"

\* paid_at is set exactly when the one Transfer was made on the deal's charge.
PaidAsTransferred ==
    /\ deal.paid_at <=> transfers # <<>>
    /\ deal.paid_at => /\ Len(transfers) = 1
                       /\ deal.transfer_id = 1
                       /\ transfers[1].charge = deal.charge_id

\* A frozen deal wears the badge and remembers a status it can be frozen from,
\* and a dispute that was recorded after the payout finds the deal paid.
FrozenIsMarked ==
    /\ deal.status = "disputed" =>
          /\ deal.dispute_status # None
          /\ CanTransition(deal.status_before_dispute, "disputed")
    /\ \A dp \in DPs : disputes[dp].payout_already_released => deal.paid_at

IInv ==
    /\ TypeOK
    /\ EventsNameObjects
    /\ StampsInOrder
    /\ PaidAsTransferred
    /\ FrozenIsMarked

\* What a step may do to the status: the table's moves and putting a thawed deal
\* back; and what it may do to a frozen one.
LegalMove ==
    deal'.status # deal.status =>
        \/ CanTransition(deal.status, deal'.status)
        \/ deal.status = "disputed" /\ deal'.status = deal.status_before_dispute

ThawMove ==
    deal.status = "disputed" /\ deal'.status # "disputed"
        => deal'.status \in {deal.status_before_dispute, "refunded"}

\* The columns that an effect leaves alone.
SameStamps(d, r) ==
    /\ r.funded_at = d.funded_at /\ r.verified_at = d.verified_at /\ r.paid_at = d.paid_at
    /\ r.payment_intent_id = d.payment_intent_id /\ r.charge_id = d.charge_id
    /\ r.transfer_id = d.transfer_id
SameBadge(d, r) ==
    /\ r.dispute_status = d.dispute_status
    /\ r.status_before_dispute = d.status_before_dispute

-----------------------------------------------------------------------------
\* The table.

LEMMA TableSources ==
    ASSUME NEW s
    PROVE  /\ CanTransition(s, "approved") => s = "awaiting_approval"
           /\ CanTransition(s, "awaiting_funding") => s = "approved"
           /\ CanTransition(s, "funded") => s \in {"approved", "awaiting_funding"}
           /\ CanTransition(s, "cancelled") => s \notin {"disputed", "paid"}
           /\ CanTransition(s, "proof_submitted") => s \notin {"disputed", "paid"}
           /\ CanTransition(s, "disputed") => s \in Status \ {"disputed", "paid", "refunded"}
           /\ CanTransition(s, "disputed") => CanTransition(s, "refunded")
           /\ ~CanTransition("paid", s)
           /\ CanTransition("disputed", "refunded")
BY DEF CanTransition, AllowedTransitions, Status

-----------------------------------------------------------------------------
\* The arithmetic stays within its types.

LEMMA MoneyIsInt ==
    \A price, s, b \in Int :
        /\ DealMoney(price, s, b).net_to_owner \in Int
        /\ DealMoney(price, s, b).charge_amount \in Int
BY DEF DealMoney

LEMMA TermTypes ==
    /\ Terms.listed_price \in Nat /\ Terms.pool_max_budget \in Nat
    /\ Terms.rate_unit_pence \in Nat /\ Terms.rate_unit_quantity \in Nat \ {0}
    /\ Terms.seller_pct \in Int /\ Terms.buyer_pct \in Int
BY TermsAssumption

LEMMA FixedNetIsInt == FixedNet \in Int
BY MoneyIsInt, TermTypes DEF FixedNet

LEMMA ChargeIsInt == Charge \in Int
BY MoneyIsInt, TermTypes, ChargeAssumption DEF TotalChargeFor

LEMMA PoolTypes ==
    ASSUME NEW q \in Nat
    PROVE  /\ PoolSettlementFor(Terms, q).pool_gross \in Nat
           /\ PoolSettlementFor(Terms, q).pool_net_to_owner \in Int
           /\ PoolSettlementFor(Terms, q).refund_to_business \in Int
<1> DEFINE units == q \div Terms.rate_unit_quantity
           gross == Lesser(units * Terms.rate_unit_pence, Terms.pool_max_budget)
<1>1. units \in Nat
  BY TermTypes
<1>2. units * Terms.rate_unit_pence \in Nat
  <2> HIDE DEF units
  <2> QED BY <1>1, TermTypes
<1>3. gross \in Nat
  <2> HIDE DEF units
  <2> QED BY <1>2, TermTypes DEF Lesser
<1>4. \A g \in Int :
          /\ DealMoney(g, Terms.seller_pct, Terms.buyer_pct).net_to_owner \in Int
          /\ DealMoney(g, Terms.seller_pct, Terms.buyer_pct).charge_amount \in Int
  BY MoneyIsInt, TermTypes
<1>5. gross \in Int /\ Terms.pool_max_budget \in Int
  BY <1>3, TermTypes
<1> QED
  BY <1>3, <1>4, <1>5 DEF PoolSettlementFor

-----------------------------------------------------------------------------
\* The effects keep the row in its type, and what else they touch.

LEMMA ApproveEffect ==
    ASSUME NEW d \in DealRow, NEW party
    PROVE  LET r == Approve(d, d, party)
           IN  /\ r \in DealRow /\ SameStamps(d, r) /\ SameBadge(d, r)
               /\ \/ r.status = d.status
                  \/ r.status = "approved" /\ CanTransition(d.status, "approved")
<1> DEFINE b == d.business_approved \/ party = "business"
           o == d.owner_approved \/ party = "owner"
           s == IF b /\ o /\ CanTransition(d.status, "approved") THEN "approved" ELSE d.status
<1>1. b \in BOOLEAN /\ o \in BOOLEAN
  OBVIOUS
<1>2. s \in Status
  BY DEF DealRow, Status
<1>3. Approve(d, d, party)
        = [d EXCEPT !.business_approved = b, !.owner_approved = o, !.status = s]
  BY DEF Approve
<1>4. s = d.status \/ (s = "approved" /\ CanTransition(d.status, "approved"))
  OBVIOUS
<1> HIDE DEF b, o, s
<1>5. Approve(d, d, party) \in DealRow
  BY <1>1, <1>2, <1>3 DEF DealRow
<1>6. Approve(d, d, party).status = s
  BY <1>3 DEF DealRow
<1>7. SameStamps(d, Approve(d, d, party)) /\ SameBadge(d, Approve(d, d, party))
  BY <1>3 DEF DealRow, SameStamps, SameBadge
<1> QED
  BY <1>4, <1>5, <1>6, <1>7

LEMMA DeclineEffect ==
    ASSUME NEW d \in DealRow
    PROVE  LET r == Decline(d)
           IN  /\ r \in DealRow /\ SameStamps(d, r) /\ SameBadge(d, r)
               /\ r.status = "cancelled"
BY DEF Decline, DealRow, Status, SameStamps, SameBadge

LEMMA SubmitProofEffect ==
    ASSUME NEW d \in DealRow
    PROVE  LET r == SubmitProof(d, d)
           IN  /\ r \in DealRow /\ SameStamps(d, r) /\ SameBadge(d, r)
               /\ \/ r.status = d.status
                  \/ r.status = "proof_submitted" /\ CanTransition(d.status, "proof_submitted")
BY DEF SubmitProof, DealRow, Status, SameStamps, SameBadge

LEMMA SendBackEffect ==
    ASSUME NEW d \in DealRow, NEW target \in Status, NEW grace \in BOOLEAN
    PROVE  LET r == SendBack(d, target, grace)
           IN  /\ r \in DealRow /\ SameStamps(d, r) /\ SameBadge(d, r)
               /\ r.status = target
<1> DEFINE g == IF grace THEN "open" ELSE d.proof_grace_deadline
<1>1. g \in {"none", "open", "past"}
  BY DEF DealRow
<1>2. SendBack(d, target, grace) = [d EXCEPT !.status = target, !.proof_grace_deadline = g]
  BY DEF SendBack
<1> HIDE DEF g
<1> QED
  BY <1>1, <1>2 DEF DealRow, SameStamps, SameBadge

LEMMA MarkPaidEffect ==
    ASSUME NEW d \in DealRow, NEW n \in Nat
    PROVE  LET r == MarkPaid(d, n)
           IN  /\ r \in DealRow /\ SameBadge(d, r)
               /\ r.funded_at = d.funded_at /\ r.verified_at = d.verified_at
               /\ r.payment_intent_id = d.payment_intent_id /\ r.charge_id = d.charge_id
               /\ r.status = "paid" /\ r.paid_at /\ r.transfer_id = n
BY DEF MarkPaid, DealRow, Status, SameBadge

LEMMA MarkSettledEffect ==
    ASSUME NEW d \in DealRow, NEW n \in Nat, NEW gross \in Nat
    PROVE  LET r == MarkSettled(d, n, gross)
           IN  /\ r \in DealRow /\ SameBadge(d, r)
               /\ r.funded_at = d.funded_at /\ r.verified_at = d.verified_at
               /\ r.payment_intent_id = d.payment_intent_id /\ r.charge_id = d.charge_id
               /\ r.status = "paid" /\ r.paid_at /\ r.transfer_id = n
BY DEF MarkSettled, MarkPaid, DealRow, Status, SameBadge

LEMMA PoolRefundedEffect ==
    ASSUME NEW d \in DealRow, NEW n \in Nat, NEW amount \in Nat
    PROVE  /\ MarkPoolRefunded(d, n, amount) \in DealRow
           /\ SameStamps(d, MarkPoolRefunded(d, n, amount))
           /\ SameBadge(d, MarkPoolRefunded(d, n, amount))
           /\ MarkPoolRefunded(d, n, amount).status = d.status
           /\ [d EXCEPT !.pool_refunded_amount = 0] \in DealRow
           /\ SameStamps(d, [d EXCEPT !.pool_refunded_amount = 0])
           /\ SameBadge(d, [d EXCEPT !.pool_refunded_amount = 0])
           /\ [d EXCEPT !.pool_refunded_amount = 0].status = d.status
BY DEF MarkPoolRefunded, DealRow, SameStamps, SameBadge

LEMMA MarkRefundedEffect ==
    ASSUME NEW d \in DealRow, NEW n \in Nat
    PROVE  LET r == MarkRefunded(d, n)
           IN  /\ r \in DealRow /\ SameStamps(d, r) /\ SameBadge(d, r)
               /\ r.status = "refunded"
BY DEF MarkRefunded, DealRow, Status, SameStamps, SameBadge

LEMMA StatusEffect ==
    ASSUME NEW d \in DealRow, NEW s \in Status
    PROVE  LET r == [d EXCEPT !.status = s]
           IN  /\ r \in DealRow /\ SameStamps(d, r) /\ SameBadge(d, r)
               /\ r.status = s
BY DEF DealRow, SameStamps, SameBadge

LEMMA MarkFundedEffect ==
    ASSUME NEW d \in DealRow, NEW p \in PIs
    PROVE  LET r == MarkFunded(d, p)
           IN  /\ r \in DealRow /\ SameBadge(d, r)
               /\ r.verified_at = d.verified_at /\ r.paid_at = d.paid_at
               /\ r.payment_intent_id = d.payment_intent_id
               /\ r.transfer_id = d.transfer_id
               /\ r.status = "funded" /\ r.funded_at /\ r.charge_id = p
<1>1. "funded" \in Status
  BY DEF Status
<1>2. MarkFunded(d, p) \in DealRow
  BY <1>1 DEF DealRow, MarkFunded
<1> QED
  BY <1>2 DEF DealRow, SameBadge, MarkFunded

LEMMA OpenDisputeEffect ==
    ASSUME NEW d \in DealRow, NEW s \in DisputeStatus
    PROVE  LET r == OpenDispute(d, d, s)
           IN  /\ r \in DealRow /\ SameStamps(d, r)
               /\ r.dispute_status = s
               /\ Freezes(d) => /\ r.status = "disputed"
                                /\ r.status_before_dispute = d.status
               /\ ~Freezes(d) => /\ r.status = d.status
                                 /\ r.status_before_dispute = d.status_before_dispute
BY DEF OpenDispute, DealRow, Status, SameStamps

LEMMA BadgeEffect ==
    ASSUME NEW d \in DealRow, NEW s \in DisputeStatus
    PROVE  LET r == [d EXCEPT !.dispute_status = s]
           IN  /\ r \in DealRow /\ SameStamps(d, r)
               /\ r.status = d.status /\ r.dispute_status = s
               /\ r.status_before_dispute = d.status_before_dispute
BY DEF DealRow, SameStamps

LEMMA CloseDisputeEffect ==
    ASSUME NEW d \in DealRow, NEW row \in DisputeRow, NEW outcome,
           d.status = "disputed" => d.status_before_dispute \in Status
    PROVE  LET r == CloseDispute(d, d, row, outcome)
               stays == row.payout_already_released \/ d.status # "disputed"
           IN  /\ r \in DealRow /\ SameStamps(d, r)
               /\ stays => r.status = d.status
               /\ ~stays => r.status \in {d.status_before_dispute, "refunded"}
<1>1. CASE row.payout_already_released \/ d.status # "disputed"
  BY <1>1 DEF CloseDispute, DealRow, SameStamps
<1>2. CASE ~(row.payout_already_released \/ d.status # "disputed")
  <2>1. d.status_before_dispute \in Status /\ d.status_before_dispute # None
    BY <1>2, NoneAssumption
  <2>2. PICK s \in {d.status_before_dispute, "refunded"} :
           CloseDispute(d, d, row, outcome)
             = [d EXCEPT !.dispute_status = None, !.status_before_dispute = None,
                         !.status = s]
    BY <1>2, <2>1 DEF CloseDispute
  <2>3. s \in Status
    BY <2>1 DEF Status
  <2> QED
    BY <1>2, <2>2, <2>3 DEF DealRow, SameStamps
<1> QED
  BY <1>1, <1>2

-----------------------------------------------------------------------------
\* What the steps have in common.

\* A step that leaves Stripe alone leaves its part of the invariant alone.
LEMMA StripeStays ==
    ASSUME IInv, UNCHANGED stripeVars
    PROVE  StripeTypeOK' /\ EventsNameObjects'
BY DEF IInv, TypeOK, StripeTypeOK, EventsNameObjects, stripeVars, transferVars, refundVars

\* A step that keeps the stamps and the badge, and moves the status by the table
\* without freezing or thawing, or from frozen to refunded.
LEMMA PlainMove ==
    ASSUME IInv, deal' \in DealRow, SameStamps(deal, deal'), SameBadge(deal, deal'),
           UNCHANGED <<disputes, transfers, verified_quantity>>, has_proof => has_proof',
           \/ deal'.status = deal.status
           \/ /\ CanTransition(deal.status, deal'.status)
              /\ deal'.status # "disputed"
              /\ deal.status = "disputed" => deal'.status = "refunded"
    PROVE  StampsInOrder' /\ PaidAsTransferred' /\ FrozenIsMarked' /\ LegalMove /\ ThawMove
<1>1. deal.status = "paid" => deal'.status = "paid"
  BY TableSources
<1>2. StampsInOrder'
  BY <1>1 DEF IInv, StampsInOrder, SameStamps
<1>3. PaidAsTransferred'
  BY DEF IInv, PaidAsTransferred, SameStamps
<1>4. FrozenIsMarked'
  BY DEF IInv, FrozenIsMarked, SameStamps, SameBadge
<1>5. LegalMove /\ ThawMove
  BY DEF LegalMove, ThawMove
<1> QED
  BY <1>2, <1>3, <1>4, <1>5

\* What each step is shown to do.
StepGood == IInv' /\ LegalMove /\ ThawMove

-----------------------------------------------------------------------------
\* The parties.

LEMMA ApproveDealStep ==
    ASSUME IInv, NEW party, ApproveDeal(party)
    PROVE  StepGood
<1>1. deal \in DealRow /\ deal' = Approve(deal, deal, party)
  BY DEF IInv, TypeOK, ApproveDeal
<1>2. /\ deal' \in DealRow /\ SameStamps(deal, deal') /\ SameBadge(deal, deal')
      /\ \/ deal'.status = deal.status
         \/ deal'.status = "approved" /\ CanTransition(deal.status, "approved")
  BY <1>1, ApproveEffect
<1>3. TypeOK'
  BY <1>2, StripeStays DEF IInv, TypeOK, ApproveDeal, rowVars, reviewVars, stripeVars
<1>4. EventsNameObjects'
  BY StripeStays DEF ApproveDeal
<1>5. StampsInOrder' /\ PaidAsTransferred' /\ FrozenIsMarked' /\ LegalMove /\ ThawMove
  BY <1>2, PlainMove, TableSources
  DEF ApproveDeal, rowVars, reviewVars, stripeVars, transferVars
<1> QED
  BY <1>3, <1>4, <1>5 DEF StepGood, IInv

LEMMA DeclineDealStep ==
    ASSUME IInv, DeclineDeal
    PROVE  StepGood
<1>1. deal \in DealRow /\ deal' = Decline(deal)
  BY DEF IInv, TypeOK, DeclineDeal
<1>2. /\ deal' \in DealRow /\ SameStamps(deal, deal') /\ SameBadge(deal, deal')
      /\ deal'.status = "cancelled" /\ CanTransition(deal.status, "cancelled")
  BY <1>1, DeclineEffect DEF DeclineDeal, DeclineAllowed
<1>3. TypeOK'
  BY <1>2, StripeStays DEF IInv, TypeOK, DeclineDeal, rowVars, reviewVars, stripeVars
<1>4. EventsNameObjects'
  BY StripeStays DEF DeclineDeal
<1>5. StampsInOrder' /\ PaidAsTransferred' /\ FrozenIsMarked' /\ LegalMove /\ ThawMove
  BY <1>2, PlainMove, TableSources
  DEF DeclineDeal, rowVars, reviewVars, stripeVars, transferVars
<1> QED
  BY <1>3, <1>4, <1>5 DEF StepGood, IInv

LEMMA SubmitDeliveryProofStep ==
    ASSUME IInv, SubmitDeliveryProof
    PROVE  StepGood
<1>1. deal \in DealRow /\ deal' = SubmitProof(deal, deal)
  BY DEF IInv, TypeOK, SubmitDeliveryProof
<1>2. /\ deal' \in DealRow /\ SameStamps(deal, deal') /\ SameBadge(deal, deal')
      /\ \/ deal'.status = deal.status
         \/ deal'.status = "proof_submitted" /\ CanTransition(deal.status, "proof_submitted")
  BY <1>1, SubmitProofEffect
<1>3. TypeOK'
  BY <1>2, StripeStays
  DEF IInv, TypeOK, SubmitDeliveryProof, rowVars, stripeVars
<1>4. EventsNameObjects'
  BY StripeStays DEF SubmitDeliveryProof
<1>5. StampsInOrder' /\ PaidAsTransferred' /\ FrozenIsMarked' /\ LegalMove /\ ThawMove
  BY <1>2, PlainMove, TableSources
  DEF SubmitDeliveryProof, rowVars, stripeVars, transferVars
<1> QED
  BY <1>3, <1>4, <1>5 DEF StepGood, IInv

\* The deadlines and the listing: no stamp, no status.
LEMMA QuietStep ==
    ASSUME IInv, RemoveSource \/ GraceDeadlinePasses
    PROVE  StepGood
<1>1. /\ deal' \in DealRow /\ SameStamps(deal, deal') /\ SameBadge(deal, deal')
      /\ deal'.status = deal.status
  <2>1. CASE RemoveSource
    BY <2>1 DEF IInv, TypeOK, RemoveSource, SameStamps, SameBadge
  <2>2. CASE GraceDeadlinePasses
    BY <2>2 DEF IInv, TypeOK, GraceDeadlinePasses, SameStamps, SameBadge, DealRow
  <2> QED
    BY <2>1, <2>2
<1>2. UNCHANGED <<rowVars, processed, reviewVars, stripeVars>>
  BY DEF RemoveSource, GraceDeadlinePasses
<1>3. source_removed' \in BOOLEAN
  BY DEF IInv, TypeOK, RemoveSource, GraceDeadlinePasses
<1>4. TypeOK'
  BY <1>1, <1>2, <1>3, StripeStays DEF IInv, TypeOK, rowVars, reviewVars, stripeVars
<1>5. EventsNameObjects'
  BY <1>2, StripeStays
<1>6. StampsInOrder' /\ PaidAsTransferred' /\ FrozenIsMarked' /\ LegalMove /\ ThawMove
  BY <1>1, <1>2, PlainMove DEF rowVars, reviewVars, stripeVars, transferVars
<1> QED
  BY <1>4, <1>5, <1>6 DEF StepGood, IInv

\* The PaymentIntent that a funding call makes.
LEMMA IntentMade ==
    ASSUME StripeTypeOK, EventsNameObjects, NEW p \in PIs, NEW status \in {"created", "offered"},
           CreateIntent(p, status),
           UNCHANGED <<transferVars, refundVars, dispute, sent>>
    PROVE  StripeTypeOK' /\ EventsNameObjects'
<1>1. intent' \in [PIs -> IntentStatus]
  BY DEF StripeTypeOK, CreateIntent, IntentStatus
<1>2. StripeTypeOK'
  BY <1>1 DEF StripeTypeOK, transferVars, refundVars
<1>3. EventsNameObjects'
  BY DEF EventsNameObjects, refundVars
<1> QED
  BY <1>2, <1>3

LEMMA FundDealStep ==
    ASSUME IInv, NEW p \in PIs, FundDeal(p)
    PROVE  StepGood
<1>1. deal \in DealRow /\ deal' = AwaitFunding(deal, p)
  BY DEF IInv, TypeOK, FundDeal
<1>2. /\ deal' \in DealRow /\ SameBadge(deal, deal')
      /\ deal'.funded_at = deal.funded_at /\ deal'.verified_at = deal.verified_at
      /\ deal'.paid_at = deal.paid_at
      /\ deal'.status = "awaiting_funding"
  BY <1>1 DEF AwaitFunding, DealRow, Status, SameBadge
<1>3. /\ ~deal.funded_at /\ ~deal.verified_at /\ ~deal.paid_at
      /\ CanTransition(deal.status, "awaiting_funding")
      /\ deal.status = "approved"
  BY TableSources DEF FundDeal, FundAllowed, IInv, StampsInOrder
<1>4. StripeTypeOK' /\ EventsNameObjects'
  BY IntentMade DEF FundDeal, IInv, TypeOK
<1>5. TypeOK'
  BY <1>2, <1>4 DEF IInv, TypeOK, FundDeal, rowVars, reviewVars
<1>6. StampsInOrder' /\ PaidAsTransferred'
  BY <1>2, <1>3 DEF IInv, StampsInOrder, PaidAsTransferred, FundDeal, transferVars
<1>7. FrozenIsMarked'
  BY <1>2, <1>3 DEF IInv, FrozenIsMarked, FundDeal, rowVars
<1>8. LegalMove /\ ThawMove
  BY <1>2, <1>3 DEF LegalMove, ThawMove
<1> QED
  BY <1>4, <1>5, <1>6, <1>7, <1>8 DEF StepGood, IInv

LEMMA FundDealRefusedStep ==
    ASSUME IInv, NEW p \in PIs, FundDealRefused(p)
    PROVE  StepGood
<1>1. StripeTypeOK' /\ EventsNameObjects'
  BY IntentMade DEF FundDealRefused, IInv, TypeOK
<1>2. TypeOK'
  BY <1>1 DEF IInv, TypeOK, FundDealRefused, dbVars
<1>3. SameStamps(deal, deal') /\ SameBadge(deal, deal') /\ deal' \in DealRow
  BY DEF IInv, TypeOK, FundDealRefused, dbVars, SameStamps, SameBadge
<1>4. StampsInOrder' /\ PaidAsTransferred' /\ FrozenIsMarked' /\ LegalMove /\ ThawMove
  BY <1>3, PlainMove DEF FundDealRefused, dbVars, transferVars
<1> QED
  BY <1>1, <1>2, <1>4 DEF StepGood, IInv

-----------------------------------------------------------------------------
\* The reviewers.

LEMMA VerifyApprovedStep ==
    ASSUME IInv, NEW q \in Quantities \cup {None}, VerifyApproved(q)
    PROVE  StepGood
<1>1. deal \in DealRow /\ deal' = MarkVerified(deal)
  BY DEF IInv, TypeOK, VerifyApproved
<1>2. /\ deal' \in DealRow /\ SameBadge(deal, deal')
      /\ deal'.funded_at = deal.funded_at /\ deal'.paid_at = deal.paid_at
      /\ deal'.payment_intent_id = deal.payment_intent_id
      /\ deal'.charge_id = deal.charge_id /\ deal'.transfer_id = deal.transfer_id
      /\ deal'.status = "verified" /\ deal'.verified_at
  BY <1>1 DEF MarkVerified, DealRow, Status, SameBadge
<1>3. /\ deal.funded_at /\ ~deal.verified_at /\ has_proof
      /\ deal.dispute_status = None
      /\ CanTransition(deal.status, "verified")
      /\ HasPool => q # None
      /\ verified_quantity' = q
  BY DEF VerifyApproved, VerifyAllowed, NoOpenDispute
<1>4. deal.status # "disputed" /\ ~deal.paid_at
  BY <1>3 DEF IInv, FrozenIsMarked, StampsInOrder
<1>5. q \in {None} \cup Nat
  BY TermsAssumption
<1>6. TypeOK'
  BY <1>2, <1>3, <1>5, StripeStays
  DEF IInv, TypeOK, VerifyApproved, rowVars, stripeVars
<1>7. EventsNameObjects'
  BY StripeStays DEF VerifyApproved
<1>8. StampsInOrder'
  BY <1>2, <1>3, <1>4 DEF IInv, StampsInOrder, VerifyApproved
<1>9. PaidAsTransferred' /\ FrozenIsMarked'
  BY <1>2, <1>4
  DEF IInv, PaidAsTransferred, FrozenIsMarked, VerifyApproved, rowVars, stripeVars,
      transferVars
<1>10. LegalMove /\ ThawMove
  BY <1>2, <1>3, <1>4 DEF LegalMove, ThawMove
<1> QED
  BY <1>6, <1>7, <1>8, <1>9, <1>10 DEF StepGood, IInv

LEMMA VerifySentBackStep ==
    ASSUME IInv, NEW target \in {"rejected", "changes_requested"}, NEW grace \in BOOLEAN,
           VerifySentBack(target, grace)
    PROVE  StepGood
<1>1. deal \in DealRow /\ deal' = SendBack(deal, target, grace) /\ target \in Status
  BY DEF IInv, TypeOK, VerifySentBack, Status
<1>2. /\ deal' \in DealRow /\ SameStamps(deal, deal') /\ SameBadge(deal, deal')
      /\ deal'.status = target
  BY <1>1, SendBackEffect
<1>3. deal.dispute_status = None /\ CanTransition(deal.status, target)
  BY DEF VerifySentBack, VerifyAllowed, NoOpenDispute
<1>4. deal.status # "disputed"
  BY <1>3 DEF IInv, FrozenIsMarked
<1>5. TypeOK'
  BY <1>2, StripeStays DEF IInv, TypeOK, VerifySentBack, rowVars, stripeVars
<1>6. EventsNameObjects'
  BY StripeStays DEF VerifySentBack
<1>7. StampsInOrder' /\ PaidAsTransferred' /\ FrozenIsMarked' /\ LegalMove /\ ThawMove
  BY <1>2, <1>3, <1>4, PlainMove DEF VerifySentBack, rowVars, stripeVars, transferVars
<1> QED
  BY <1>5, <1>6, <1>7 DEF StepGood, IInv

\* A Transfer on the charge of a deal that can be released: the first and only one.
LEMMA TransferMade ==
    ASSUME IInv, ReleaseAllowed(deal), NEW amount \in Int,
           CreateTransfer(deal.charge_id, amount)
    PROVE  /\ transfers' \in Seq(Transfer) /\ transferred' \in [PIs -> Nat]
           /\ Len(transfers') = 1 /\ transfers'[1].charge = deal.charge_id
           /\ ~deal.paid_at /\ deal.verified_at /\ deal.status = "verified"
           /\ CanTransition("verified", "paid")
<1>1. /\ ~deal.paid_at /\ deal.verified_at /\ deal.status = "verified"
      /\ CanTransition("verified", "paid")
  BY DEF ReleaseAllowed, PayoutEligible
<1>2. transfers = <<>> /\ deal.charge_id \in PIs
  BY <1>1 DEF IInv, PaidAsTransferred, StampsInOrder
<1>3. /\ transferred \in [PIs -> Nat] /\ amount > 0 /\ amount \in Nat
      /\ transferred' = [transferred EXCEPT ![deal.charge_id]
                           = transferred[deal.charge_id] + amount]
  BY DEF CreateTransfer, CanTransfer, IInv, TypeOK, StripeTypeOK
<1>4. transferred' \in [PIs -> Nat]
  BY <1>2, <1>3
<1>5. transfers' = Append(<<>>, [charge |-> deal.charge_id, amount |-> amount])
  BY <1>2 DEF CreateTransfer
<1>6. [charge |-> deal.charge_id, amount |-> amount] \in Transfer
  BY <1>2, <1>3 DEF Transfer
<1>7. transfers' \in Seq(Transfer) /\ Len(transfers') = 1
  BY <1>5, <1>6
<1>8. transfers'[1].charge = deal.charge_id
  BY <1>5
<1> QED
  BY <1>1, <1>4, <1>7, <1>8

\* A Refund, of any of the deal's charges, and the event that reports it.
LEMMA RefundMade ==
    ASSUME StripeTypeOK, EventsNameObjects, NEW p \in PIs, NEW amount \in Int,
           NEW by \in {"program", "dashboard"},
           CreateRefund(p, amount, by), UNCHANGED dispute
    PROVE  /\ refunds' \in Seq(Refund)
           /\ refunded' \in [PIs -> [program: Nat, dashboard: Nat]]
           /\ sent' \subseteq Event /\ sent \subseteq sent'
           /\ Len(refunds') \in Nat
           /\ amount \in Nat
           /\ EventsNameObjects'
<1> DEFINE new == Ev("charge.refunded", Len(refunds) + 1)
<1>1. /\ refunds \in Seq(Refund) /\ amount \in Nat
      /\ refunded \in [PIs -> [program: Nat, dashboard: Nat]]
      /\ sent \subseteq Event
  BY DEF CreateRefund, CanRefund, StripeTypeOK
<1>2. [charge |-> p, amount |-> amount, by |-> by] \in Refund
  BY <1>1 DEF Refund
<1>3. refunds' \in Seq(Refund) /\ Len(refunds') = Len(refunds) + 1
  BY <1>1, <1>2 DEF CreateRefund
<1>4. refunded' \in [PIs -> [program: Nat, dashboard: Nat]]
  <2>1. refunded[p][by] + amount \in Nat
    BY <1>1
  <2>2. [refunded[p] EXCEPT ![by] = refunded[p][by] + amount]
          \in [program: Nat, dashboard: Nat]
    BY <1>1, <2>1
  <2>3. refunded' = [refunded EXCEPT ![p] =
                       [refunded[p] EXCEPT ![by] = refunded[p][by] + amount]]
    BY <1>1 DEF CreateRefund
  <2> QED
    BY <1>1, <2>2, <2>3
<1>5. sent' = sent \cup {new} /\ new \in Event
  BY <1>1 DEF CreateRefund, Ev, Event
<1>6. \A e \in sent' : e \in sent \/ e = new
  BY <1>5
<1>7. DOMAIN refunds \subseteq DOMAIN refunds' /\ Len(refunds) + 1 \in DOMAIN refunds'
  BY <1>1, <1>3
<1>8. /\ new.type = "charge.refunded" /\ new.obj = Len(refunds) + 1
      /\ "charge.refunded" \notin DisputeEvents
  BY DEF Ev, DisputeEvents
<1> HIDE DEF new
<1>9. EventsNameObjects'
  BY <1>6, <1>7, <1>8 DEF EventsNameObjects
<1> QED
  BY <1>1, <1>3, <1>4, <1>5, <1>9

LEMMA EntryTypes ==
    ASSUME NEW kind \in LedgerKind, NEW amount \in Int,
           NEW obj \in {"payment_intent", "charge", "transfer", "refund", "dispute"},
           NEW id \in PIs \cup DPs \cup Nat, ledger \in Seq(LedgerRow)
    PROVE  /\ Entry(kind, amount, RefTo(obj, id)) \in LedgerRow
           /\ Append(ledger, Entry(kind, amount, RefTo(obj, id))) \in Seq(LedgerRow)
<1>1. Entry(kind, amount, RefTo(obj, id)) \in LedgerRow
  BY DEF Entry, RefTo, LedgerRow, Ref
<1> QED
  BY <1>1

\* What making the payout does to the part of the invariant that is about it.
LEMMA PayoutStep ==
    ASSUME IInv, ReleaseAllowed(deal), Len(transfers') = 1,
           transfers'[1].charge = deal.charge_id,
           ~deal.paid_at, deal.verified_at, deal.status = "verified",
           CanTransition("verified", "paid"),
           SameBadge(deal, deal'), deal'.funded_at = deal.funded_at,
           deal'.verified_at = deal.verified_at,
           deal'.payment_intent_id = deal.payment_intent_id,
           deal'.charge_id = deal.charge_id,
           deal'.status = "paid", deal'.paid_at, deal'.transfer_id = 1,
           UNCHANGED <<disputes, has_proof, verified_quantity>>
    PROVE  StampsInOrder' /\ PaidAsTransferred' /\ FrozenIsMarked' /\ LegalMove /\ ThawMove
<1>1. StampsInOrder'
  BY DEF IInv, StampsInOrder
<1>2. PaidAsTransferred'
  <2>1. Len(transfers') # Len(<<>>)
    OBVIOUS
  <2>2. transfers' # <<>>
    BY <2>1, Zenon
  <2> QED
    BY <2>2 DEF PaidAsTransferred
<1>3. FrozenIsMarked'
  BY DEF IInv, FrozenIsMarked
<1> QED
  BY <1>1, <1>2, <1>3 DEF LegalMove, ThawMove

LEMMA ReleasePayoutStep ==
    ASSUME IInv, ReleasePayout
    PROVE  StepGood
<1>1. /\ deal \in DealRow /\ ReleaseAllowed(deal)
      /\ CreateTransfer(deal.charge_id, FixedNet)
      /\ deal' = MarkPaid(deal, Len(transfers'))
      /\ ledger' = Append(ledger, Entry("deal_payout", -FixedNet,
                                        RefTo("transfer", Len(transfers'))))
  BY DEF IInv, TypeOK, ReleasePayout, Log, PayoutEntry
<1>2. /\ transfers' \in Seq(Transfer) /\ transferred' \in [PIs -> Nat]
      /\ Len(transfers') = 1 /\ transfers'[1].charge = deal.charge_id
      /\ ~deal.paid_at /\ deal.verified_at /\ deal.status = "verified"
      /\ CanTransition("verified", "paid")
  BY <1>1, TransferMade, FixedNetIsInt
<1>3. /\ deal' \in DealRow /\ SameBadge(deal, deal')
      /\ deal'.funded_at = deal.funded_at /\ deal'.verified_at = deal.verified_at
      /\ deal'.payment_intent_id = deal.payment_intent_id
      /\ deal'.charge_id = deal.charge_id
      /\ deal'.status = "paid" /\ deal'.paid_at /\ deal'.transfer_id = 1
  <2>1. deal' = MarkPaid(deal, 1) /\ 1 \in Nat
    BY <1>1, <1>2
  <2> QED
    BY <1>1, <2>1, MarkPaidEffect
<1>4. ledger' \in Seq(LedgerRow)
  <2>1. -FixedNet \in Int /\ "deal_payout" \in LedgerKind
    BY FixedNetIsInt DEF LedgerKind
  <2> QED
    BY <1>1, <1>2, <2>1, EntryTypes DEF IInv, TypeOK
<1>5. StripeTypeOK' /\ EventsNameObjects'
  BY <1>2 DEF IInv, TypeOK, StripeTypeOK, EventsNameObjects, ReleasePayout, refundVars
<1>6. TypeOK'
  BY <1>3, <1>4, <1>5 DEF IInv, TypeOK, ReleasePayout, reviewVars
<1>7. StampsInOrder' /\ PaidAsTransferred' /\ FrozenIsMarked' /\ LegalMove /\ ThawMove
  BY <1>1, <1>2, <1>3, PayoutStep DEF ReleasePayout, reviewVars
<1> QED
  BY <1>5, <1>6, <1>7 DEF StepGood, IInv

LEMMA RefundDealStep ==
    ASSUME IInv, RefundDeal
    PROVE  StepGood
<1> DEFINE p == deal.payment_intent_id
           amount == Charge - Refunded(p)
<1>1. /\ deal \in DealRow /\ RefundAllowed(deal)
      /\ CreateRefund(p, amount, "program")
      /\ deal' = MarkRefunded(deal, Len(refunds'))
      /\ ledger' = Append(ledger, Entry("deal_refund", -Charge,
                                        RefTo("refund", Len(refunds'))))
      /\ UNCHANGED <<disputes, processed, reviewVars, source_removed,
                     intent, transferVars, dispute>>
  BY DEF IInv, TypeOK, RefundDeal, Log, RefundEntry
<1>2. p \in PIs /\ deal.status # "disputed" /\ CanTransition(deal.status, "refunded")
  BY <1>1 DEF RefundAllowed, NoOpenDispute, IInv, StampsInOrder, FrozenIsMarked
<1>3. amount \in Int /\ Charge \in Int
  BY <1>2, ChargeIsInt DEF Refunded, IInv, TypeOK, StripeTypeOK
<1>4. /\ refunds' \in Seq(Refund)
      /\ refunded' \in [PIs -> [program: Nat, dashboard: Nat]]
      /\ sent' \subseteq Event /\ sent \subseteq sent'
      /\ Len(refunds') \in Nat
      /\ EventsNameObjects'
  <2> HIDE DEF p, amount
  <2> QED
    BY <1>1, <1>2, <1>3, RefundMade DEF IInv, TypeOK
<1>5. /\ deal' \in DealRow /\ SameStamps(deal, deal') /\ SameBadge(deal, deal')
      /\ deal'.status = "refunded"
  BY <1>1, <1>4, MarkRefundedEffect
<1>6. ledger' \in Seq(LedgerRow)
  <2>1. -Charge \in Int /\ "deal_refund" \in LedgerKind
    BY <1>3 DEF LedgerKind
  <2> QED
    BY <1>1, <1>4, <2>1, EntryTypes DEF IInv, TypeOK
<1>7. StripeTypeOK'
  BY <1>1, <1>4 DEF IInv, TypeOK, StripeTypeOK, transferVars
<1>8. TypeOK'
  BY <1>1, <1>4, <1>5, <1>6, <1>7 DEF IInv, TypeOK, reviewVars
<1>9. StampsInOrder' /\ PaidAsTransferred' /\ FrozenIsMarked' /\ LegalMove /\ ThawMove
  BY <1>1, <1>2, <1>5, PlainMove DEF reviewVars, transferVars
<1> QED
  BY <1>4, <1>8, <1>9 DEF StepGood, IInv

LEMMA SettlePoolStep ==
    ASSUME IInv, NEW refundable \in BOOLEAN, SettlePool(refundable)
    PROVE  StepGood
<1> DEFINE pool    == PoolSettlementFor(Terms, verified_quantity)
           net     == FixedNet + pool.pool_net_to_owner
           unused  == pool.refund_to_business
           settled == MarkSettled(deal, Len(transfers'), pool.pool_gross)
           payout  == PayoutEntry(net, Len(transfers'))
<1>1. /\ deal \in DealRow /\ ReleaseAllowed(deal)
      /\ CreateTransfer(deal.charge_id, net)
      /\ verified_quantity \in Nat
      /\ UNCHANGED <<disputes, processed, reviewVars, source_removed, intent, dispute>>
  BY DEF IInv, TypeOK, SettlePool, SettleAllowed
<1>2. pool.pool_gross \in Nat /\ net \in Int /\ unused \in Int
  BY <1>1, PoolTypes, FixedNetIsInt
<1>3. /\ transfers' \in Seq(Transfer) /\ transferred' \in [PIs -> Nat]
      /\ Len(transfers') = 1 /\ transfers'[1].charge = deal.charge_id
      /\ ~deal.paid_at /\ deal.verified_at /\ deal.status = "verified"
      /\ CanTransition("verified", "paid")
  <2> HIDE DEF net
  <2> QED
    BY <1>1, <1>2, TransferMade
<1>4. /\ settled \in DealRow /\ SameBadge(deal, settled)
      /\ settled.funded_at = deal.funded_at /\ settled.verified_at = deal.verified_at
      /\ settled.payment_intent_id = deal.payment_intent_id
      /\ settled.charge_id = deal.charge_id
      /\ settled.status = "paid" /\ settled.paid_at /\ settled.transfer_id = 1
  <2>1. PICK gross \in Nat : gross = pool.pool_gross
    BY <1>2
  <2>2. settled = MarkSettled(deal, 1, gross) /\ 1 \in Nat
    BY <1>3, <2>1
  <2>3. deal \in DealRow
    BY <1>1
  <2> HIDE DEF settled
  <2> QED
    BY <2>2, <2>3, MarkSettledEffect
<1>5. payout \in LedgerRow /\ Append(ledger, payout) \in Seq(LedgerRow)
  <2>1. -net \in Int /\ "deal_payout" \in LedgerKind
    BY <1>2 DEF LedgerKind
  <2> HIDE DEF net
  <2> QED
    BY <1>3, <2>1, EntryTypes DEF IInv, TypeOK, PayoutEntry
<1>6. /\ deal' \in DealRow /\ SameStamps(settled, deal') /\ SameBadge(settled, deal')
      /\ deal'.status = settled.status
      /\ ledger' \in Seq(LedgerRow)
      /\ StripeTypeOK' /\ sent \subseteq sent' /\ EventsNameObjects'
  <2>1. CASE /\ CreateRefund(deal.payment_intent_id, unused, "program")
             /\ deal' = MarkPoolRefunded(settled, Len(refunds'), unused)
             /\ ledger' = ledger \o <<payout, RefundEntry(unused, Len(refunds'))>>
    <3>1. deal.payment_intent_id \in PIs
      BY <1>3 DEF IInv, StampsInOrder
    <3> HIDE DEF unused, settled, payout
    <3>2. /\ refunds' \in Seq(Refund)
          /\ refunded' \in [PIs -> [program: Nat, dashboard: Nat]]
          /\ sent' \subseteq Event /\ sent \subseteq sent'
          /\ Len(refunds') \in Nat /\ unused \in Nat
          /\ EventsNameObjects'
      BY <1>1, <1>2, <2>1, <3>1, RefundMade DEF IInv, TypeOK
    <3>3. /\ deal' \in DealRow /\ SameStamps(settled, deal') /\ SameBadge(settled, deal')
          /\ deal'.status = settled.status
      BY <1>4, <2>1, <3>2, PoolRefundedEffect
    <3>4. RefundEntry(unused, Len(refunds')) \in LedgerRow
      <4>1. -unused \in Int /\ "deal_refund" \in LedgerKind
        BY <1>2 DEF LedgerKind
      <4> QED
        BY <3>2, <4>1, EntryTypes DEF RefundEntry, IInv, TypeOK
    <3>5. ledger' \in Seq(LedgerRow)
      BY <1>5, <2>1, <3>4 DEF IInv, TypeOK
    <3>6. StripeTypeOK'
      BY <1>1, <1>3, <3>2 DEF IInv, TypeOK, StripeTypeOK
    <3> QED
      BY <3>2, <3>3, <3>5, <3>6
  <2>2. CASE /\ deal' \in {[settled EXCEPT !.pool_refunded_amount = 0], settled}
             /\ ledger' = Append(ledger, payout)
             /\ UNCHANGED <<refundVars, sent>>
    <3>1. StripeTypeOK' /\ EventsNameObjects' /\ sent \subseteq sent'
      BY <1>1, <1>3, <2>2
      DEF IInv, TypeOK, StripeTypeOK, EventsNameObjects, refundVars
    <3> HIDE DEF settled, payout
    <3>2. /\ deal' \in DealRow /\ SameStamps(settled, deal') /\ SameBadge(settled, deal')
          /\ deal'.status = settled.status
      <4>1. SameStamps(settled, settled) /\ SameBadge(settled, settled)
        BY DEF SameStamps, SameBadge
      <4> QED
        BY <1>4, <2>2, <4>1, PoolRefundedEffect
    <3> QED
      BY <1>5, <2>2, <3>1, <3>2
  <2> QED
    BY <1>3, <2>1, <2>2 DEF SettlePool
<1>7. /\ SameBadge(deal, deal')
      /\ deal'.funded_at = deal.funded_at /\ deal'.verified_at = deal.verified_at
      /\ deal'.payment_intent_id = deal.payment_intent_id
      /\ deal'.charge_id = deal.charge_id
      /\ deal'.status = "paid" /\ deal'.paid_at /\ deal'.transfer_id = 1
  <2> HIDE DEF settled
  <2> QED
    BY <1>4, <1>6 DEF SameStamps, SameBadge
<1>8. TypeOK'
  BY <1>1, <1>6 DEF IInv, TypeOK, reviewVars
<1>9. StampsInOrder' /\ PaidAsTransferred' /\ FrozenIsMarked' /\ LegalMove /\ ThawMove
  BY <1>1, <1>3, <1>7, PayoutStep DEF reviewVars
<1> QED
  BY <1>6, <1>8, <1>9 DEF StepGood, IInv

-----------------------------------------------------------------------------
\* Stripe's events.

LEMMA FundsStep ==
    ASSUME IInv, NEW p \in PIs, Funds(p, deal),
           UNCHANGED <<disputes, reviewVars, source_removed, stripeVars>>,
           processed' \subseteq sent
    PROVE  StepGood
<1>1. /\ deal \in DealRow /\ deal' = MarkFunded(deal, p)
      /\ deal.payment_intent_id = p /\ ~deal.funded_at
      /\ CanTransition(deal.status, "funded")
      /\ ledger' = Append(ledger, Entry("deal_charge", Charge, RefTo("payment_intent", p)))
  BY DEF IInv, TypeOK, Funds, Log
<1>2. /\ deal' \in DealRow /\ SameBadge(deal, deal')
      /\ deal'.verified_at = deal.verified_at /\ deal'.paid_at = deal.paid_at
      /\ deal'.payment_intent_id = deal.payment_intent_id
      /\ deal'.status = "funded" /\ deal'.funded_at /\ deal'.charge_id = p
  BY <1>1, MarkFundedEffect
<1>3. ~deal.verified_at /\ ~deal.paid_at /\ deal.status # "disputed"
  BY <1>1, TableSources DEF IInv, StampsInOrder
<1>4. ledger' \in Seq(LedgerRow)
  <2>1. "deal_charge" \in LedgerKind
    BY DEF LedgerKind
  <2> QED
    BY <1>1, <2>1, ChargeIsInt, EntryTypes DEF IInv, TypeOK
<1>5. StripeTypeOK' /\ EventsNameObjects'
  BY StripeStays
<1>6. TypeOK'
  BY <1>2, <1>4, <1>5 DEF IInv, TypeOK, reviewVars, stripeVars
<1>7. StampsInOrder'
  BY <1>1, <1>2, <1>3 DEF StampsInOrder
<1>8. PaidAsTransferred' /\ FrozenIsMarked'
  BY <1>2, <1>3
  DEF IInv, PaidAsTransferred, FrozenIsMarked, stripeVars, transferVars
<1>9. LegalMove /\ ThawMove
  BY <1>1, <1>2, <1>3 DEF LegalMove, ThawMove
<1> QED
  BY <1>5, <1>6, <1>7, <1>8, <1>9 DEF StepGood, IInv

\* An event that leaves the deal and its rows as they are.
LEMMA IgnoredStep ==
    ASSUME IInv, processed' \subseteq sent,
           UNCHANGED <<deal, rowVars, reviewVars, source_removed, stripeVars>>
    PROVE  StepGood
<1>1. StripeTypeOK' /\ EventsNameObjects'
  BY StripeStays
<1>2. TypeOK'
  BY <1>1 DEF IInv, TypeOK, rowVars, reviewVars, stripeVars
<1>3. deal' \in DealRow /\ SameStamps(deal, deal') /\ SameBadge(deal, deal')
  BY DEF IInv, TypeOK, SameStamps, SameBadge
<1>4. StampsInOrder' /\ PaidAsTransferred' /\ FrozenIsMarked' /\ LegalMove /\ ThawMove
  BY <1>3, PlainMove DEF rowVars, reviewVars, stripeVars, transferVars
<1> QED
  BY <1>1, <1>2, <1>4 DEF StepGood, IInv

LEMMA RefreshDealStep ==
    ASSUME IInv, RefreshDeal(deal)
    PROVE  StepGood
BY FundsStep DEF RefreshDeal, IInv, TypeOK

LEMMA Acknowledged ==
    ASSUME IInv, NEW e \in sent, Acknowledge(e)
    PROVE  processed' \subseteq sent
BY DEF IInv, TypeOK, Acknowledge

LEMMA OnPaymentSucceededStep ==
    ASSUME IInv, NEW e \in sent, OnPaymentSucceeded(e, deal)
    PROVE  StepGood
<1>1. processed' \subseteq sent /\ e.obj \in PIs
  BY Acknowledged DEF OnPaymentSucceeded, IInv, EventsNameObjects
<1>2. CASE Funds(e.obj, deal)
  BY <1>1, <1>2, FundsStep DEF OnPaymentSucceeded
<1>3. CASE UNCHANGED <<deal, ledger>>
  BY <1>1, <1>3, IgnoredStep DEF OnPaymentSucceeded, rowVars
<1> QED
  BY <1>2, <1>3 DEF OnPaymentSucceeded

LEMMA OnChargeRefundedStep ==
    ASSUME IInv, NEW e \in sent, OnChargeRefunded(e, deal)
    PROVE  StepGood
<1> DEFINE p == refunds[e.obj].charge
<1>1. processed' \subseteq sent /\ e.obj \in DOMAIN refunds
  BY Acknowledged DEF OnChargeRefunded, IInv, EventsNameObjects
<1>2. CASE UNCHANGED <<deal, ledger>>
  BY <1>1, <1>2, IgnoredStep DEF OnChargeRefunded, rowVars
<1>3. CASE /\ CanTransition(deal.status, "refunded")
           /\ deal' = [deal EXCEPT !.status = "refunded"]
           /\ ledger' = Append(ledger, Entry("deal_refund", -Refunded(p), RefTo("charge", p)))
  <2>1. p \in PIs
    <3>1. refunds[e.obj] \in Refund
      BY <1>1 DEF IInv, TypeOK, StripeTypeOK
    <3> QED
      BY <3>1 DEF Refund
  <2>2. /\ deal' \in DealRow /\ SameStamps(deal, deal') /\ SameBadge(deal, deal')
        /\ deal'.status = "refunded"
    BY <1>3, StatusEffect DEF IInv, TypeOK, Status
  <2>3. ledger' \in Seq(LedgerRow)
    <3>1. -Refunded(p) \in Int /\ "deal_refund" \in LedgerKind
      BY <2>1 DEF LedgerKind, Refunded, IInv, TypeOK, StripeTypeOK
    <3> HIDE DEF p
    <3> QED
      BY <1>3, <2>1, <3>1, EntryTypes DEF IInv, TypeOK
  <2>4. UNCHANGED <<disputes, reviewVars, source_removed, stripeVars>>
    BY DEF OnChargeRefunded
  <2>5. StripeTypeOK' /\ EventsNameObjects'
    BY <2>4, StripeStays
  <2>6. TypeOK'
    BY <1>1, <2>2, <2>3, <2>4, <2>5 DEF IInv, TypeOK, reviewVars, stripeVars
  <2>7. StampsInOrder' /\ PaidAsTransferred' /\ FrozenIsMarked' /\ LegalMove /\ ThawMove
    BY <1>3, <2>2, <2>4, PlainMove DEF reviewVars, stripeVars, transferVars
  <2> QED
    BY <2>5, <2>6, <2>7 DEF StepGood, IInv
<1> QED
  BY <1>2, <1>3 DEF OnChargeRefunded, Log

\* The deal after a dispute event made sure that its dispute is on record.
LEMMA DealForEffect ==
    ASSUME IInv, NEW dp \in DPs, dispute[dp].status \in DisputeStatus
    PROVE  LET f == DealFor(dp, deal)
               row == RowFor(dp, deal)
           IN  /\ f \in DealRow /\ SameStamps(deal, f) /\ row \in DisputeRow
               /\ row.payout_already_released => deal.paid_at
               /\ f.status = "disputed" =>
                     /\ f.dispute_status # None
                     /\ CanTransition(f.status_before_dispute, "disputed")
               /\ \/ /\ f.status = deal.status
                     /\ f.status_before_dispute = deal.status_before_dispute
                  \/ /\ f.status = "disputed" /\ f.status_before_dispute = deal.status
                     /\ deal.status # "disputed" /\ CanTransition(deal.status, "disputed")
<1>1. deal \in DealRow /\ disputes[dp] \in DisputeRow
  BY DEF IInv, TypeOK
<1>2. CASE disputes[dp].recorded
  <2>1. DealFor(dp, deal) = deal /\ RowFor(dp, deal) = disputes[dp]
    BY <1>2 DEF DealFor, RowFor
  <2> QED
    BY <1>1, <2>1 DEF IInv, FrozenIsMarked, SameStamps
<1>3. CASE ~disputes[dp].recorded
  <2> DEFINE s == dispute[dp].status
             before == IF deal.paid_at THEN None ELSE deal.status
  <2>1. DealFor(dp, deal) = OpenDispute(deal, deal, s)
    BY <1>3 DEF DealFor
  <2>2. RowFor(dp, deal) =
          [ recorded |-> TRUE, status |-> s, outcome |-> None, closed_at |-> FALSE,
            payout_already_released |-> deal.paid_at, deal_status_before |-> before ]
    BY <1>3 DEF RowFor
  <2>3. before \in {None} \cup Status /\ deal.paid_at \in BOOLEAN
    BY <1>1 DEF DealRow
  <2>4. RowFor(dp, deal) \in DisputeRow /\ RowFor(dp, deal).payout_already_released = deal.paid_at
    <3> HIDE DEF before, s
    <3> QED
      BY <2>2, <2>3 DEF DisputeRow, s
  <2>5. s # None
    BY NoneAssumption
  <2>6. CASE Freezes(deal)
    <3>1. CanTransition(deal.status, "disputed") /\ deal.status # "disputed"
      BY <2>6, TableSources DEF Freezes
    <3> QED
      BY <1>1, <2>1, <2>4, <2>5, <2>6, <3>1, OpenDisputeEffect
  <2>7. CASE ~Freezes(deal)
    BY <1>1, <2>1, <2>4, <2>5, <2>7, OpenDisputeEffect DEF IInv, FrozenIsMarked
  <2> QED
    BY <2>6, <2>7
<1> QED
  BY <1>2, <1>3

\* What a dispute event does to the rest, once its effect on the deal is known.
LEMMA DisputeStep ==
    ASSUME IInv, NEW dp \in DPs, NEW row \in DisputeRow,
           row.payout_already_released => deal.paid_at,
           disputes' = [disputes EXCEPT ![dp] = row],
           deal' \in DealRow, SameStamps(deal, deal'),
           deal'.status = "disputed" =>
              /\ deal'.dispute_status # None
              /\ CanTransition(deal'.status_before_dispute, "disputed"),
           LegalMove, ThawMove,
           ledger' \in Seq(LedgerRow), processed' \subseteq sent,
           UNCHANGED <<reviewVars, source_removed, stripeVars>>
    PROVE  StepGood
<1>1. StripeTypeOK' /\ EventsNameObjects'
  BY StripeStays
<1>2. TypeOK'
  BY <1>1 DEF IInv, TypeOK, reviewVars, stripeVars
<1>3. deal.status = "paid" => deal'.status = "paid"
  BY TableSources DEF LegalMove
<1>4. StampsInOrder'
  BY <1>3 DEF IInv, StampsInOrder, SameStamps, reviewVars
<1>5. PaidAsTransferred'
  BY DEF IInv, PaidAsTransferred, SameStamps, stripeVars, transferVars
<1>6. FrozenIsMarked'
  BY DEF IInv, TypeOK, FrozenIsMarked, SameStamps
<1> QED
  BY <1>1, <1>2, <1>4, <1>5, <1>6 DEF StepGood, IInv

LEMMA EnsureOpenStep ==
    ASSUME IInv, NEW dp \in DPs, dispute[dp].status \in DisputeStatus,
           EnsureOpen(dp, deal), processed' \subseteq sent,
           UNCHANGED <<reviewVars, source_removed, stripeVars>>
    PROVE  StepGood
<1>1. /\ deal' = DealFor(dp, deal) /\ ledger' = ledger
      /\ disputes' = [disputes EXCEPT ![dp] = RowFor(dp, deal)]
  BY DEF EnsureOpen
<1>2. LegalMove /\ ThawMove
  BY <1>1, DealForEffect DEF LegalMove, ThawMove
<1> QED
  BY <1>1, <1>2, DealForEffect, DisputeStep DEF IInv, TypeOK

LEMMA UpdateStep ==
    ASSUME IInv, NEW dp \in DPs, dispute[dp].status \in DisputeStatus,
           Update(dp, deal), processed' \subseteq sent,
           UNCHANGED <<reviewVars, source_removed, stripeVars>>
    PROVE  StepGood
<1> DEFINE s == dispute[dp].status
           f == DealFor(dp, deal)
           row == [RowFor(dp, deal) EXCEPT !.status = s]
<1>1. /\ deal' = [f EXCEPT !.dispute_status = s] /\ ledger' = ledger
      /\ disputes' = [disputes EXCEPT ![dp] = row]
  BY DEF Update
<1>2. s # None
  BY NoneAssumption
<1>3. /\ deal' \in DealRow /\ SameStamps(deal, deal')
      /\ deal'.status = f.status /\ deal'.dispute_status # None
      /\ deal'.status_before_dispute = f.status_before_dispute
  <2>1. f \in DealRow /\ SameStamps(deal, f)
    BY DealForEffect
  <2> HIDE DEF f
  <2> QED
    BY <1>1, <1>2, <2>1, BadgeEffect DEF SameStamps
<1>4. row \in DisputeRow /\ (row.payout_already_released => deal.paid_at)
  BY DealForEffect DEF DisputeRow
<1>5. LegalMove /\ ThawMove
  BY <1>3, DealForEffect DEF LegalMove, ThawMove
<1>6. f.status = "disputed" => CanTransition(f.status_before_dispute, "disputed")
  BY DealForEffect
<1>7. ledger' \in Seq(LedgerRow)
  BY <1>1 DEF IInv, TypeOK
<1> HIDE DEF row, f
<1> QED
  BY <1>1, <1>3, <1>4, <1>5, <1>6, <1>7, DisputeStep

LEMMA CloseStep ==
    ASSUME IInv, NEW dp \in DPs, dispute[dp].status \in DisputeStatus,
           Close(dp, deal), processed' \subseteq sent,
           UNCHANGED <<reviewVars, source_removed, stripeVars>>
    PROVE  StepGood
<1> DEFINE outcome == dispute[dp].status
           f == DealFor(dp, deal)
           old == RowFor(dp, deal)
           row == [old EXCEPT !.status = outcome, !.outcome = outcome, !.closed_at = TRUE]
           stays == old.payout_already_released \/ f.status # "disputed"
<1>1. /\ deal' = CloseDispute(f, f, old, outcome)
      /\ disputes' = [disputes EXCEPT ![dp] = row]
      /\ \/ ledger' = ledger
         \/ ledger' = Append(ledger, Entry("dispute_lost", -Charge, RefTo("dispute", dp)))
  BY DEF Close, Decide, Thawed, Log, DealFor
<1>2. /\ f \in DealRow /\ SameStamps(deal, f) /\ old \in DisputeRow
      /\ old.payout_already_released => deal.paid_at
      /\ f.status = "disputed" => CanTransition(f.status_before_dispute, "disputed")
      /\ \/ /\ f.status = deal.status
            /\ f.status_before_dispute = deal.status_before_dispute
         \/ /\ f.status = "disputed" /\ f.status_before_dispute = deal.status
            /\ deal.status # "disputed" /\ CanTransition(deal.status, "disputed")
  BY DealForEffect
<1>3. f.status = "disputed" => f.status_before_dispute \in Status \ {"disputed"}
  BY <1>2, TableSources
<1>4. f.status = "disputed" => ~old.payout_already_released
  <2>1. deal.paid_at => deal.status = "paid" /\ ~CanTransition("paid", "disputed")
    BY TableSources DEF IInv, StampsInOrder
  <2> QED
    BY <1>2, <2>1
<1>5. /\ deal' \in DealRow /\ SameStamps(f, deal')
      /\ stays => deal'.status = f.status
      /\ ~stays => deal'.status \in {f.status_before_dispute, "refunded"}
  <2> HIDE DEF f, old
  <2> QED
    BY <1>1, <1>2, <1>3, CloseDisputeEffect
<1>6. SameStamps(deal, deal') /\ deal'.status # "disputed"
  BY <1>2, <1>3, <1>4, <1>5 DEF SameStamps
<1>7. LegalMove /\ ThawMove
  <2>1. f.status # "disputed" => deal'.status = deal.status
    BY <1>2, <1>5
  <2>2. CASE f.status = "disputed"
    <3>1. deal'.status \in {f.status_before_dispute, "refunded"}
      BY <1>4, <1>5, <2>2
    <3> QED
      BY <1>2, <2>2, <3>1, TableSources DEF LegalMove, ThawMove
  <2> QED
    BY <1>6, <2>1, <2>2 DEF LegalMove, ThawMove
<1>8. row \in DisputeRow /\ row.payout_already_released = old.payout_already_released
  <2> HIDE DEF old
  <2> QED
    BY <1>2 DEF DisputeRow
<1>9. ledger' \in Seq(LedgerRow)
  <2>1. -Charge \in Int /\ "dispute_lost" \in LedgerKind
    BY ChargeIsInt DEF LedgerKind
  <2> QED
    BY <1>1, <2>1, EntryTypes DEF IInv, TypeOK
<1> HIDE DEF row, old, f
<1> QED
  BY <1>1, <1>2, <1>5, <1>6, <1>7, <1>8, <1>9, DisputeStep

LEMMA OnDisputeStep ==
    ASSUME IInv, NEW e \in sent, OnDispute(e, deal)
    PROVE  StepGood
<1>1. /\ processed' \subseteq sent
      /\ e.obj \in DPs /\ dispute[e.obj].status \in DisputeStatus
      /\ UNCHANGED <<reviewVars, source_removed, stripeVars>>
  BY Acknowledged DEF OnDispute, IInv, EventsNameObjects
<1>2. CASE UNCHANGED <<deal, disputes, ledger>>
  BY <1>1, <1>2, IgnoredStep DEF rowVars
<1>3. CASE EnsureOpen(e.obj, deal)
  BY <1>1, <1>3, EnsureOpenStep
<1>4. CASE Update(e.obj, deal)
  BY <1>1, <1>4, UpdateStep
<1>5. CASE Close(e.obj, deal)
  BY <1>1, <1>5, CloseStep
<1> QED
  BY <1>2, <1>3, <1>4, <1>5 DEF OnDispute

-----------------------------------------------------------------------------
\* Stripe's own steps.

LEMMA StripeStepKeeps ==
    ASSUME StripeTypeOK, EventsNameObjects, StripeStep
    PROVE  /\ StripeTypeOK' /\ sent \subseteq sent' /\ EventsNameObjects'
           /\ transfers' = transfers
<1>1. ASSUME NEW p \in PIs, CustomerPays(p)
      PROVE  StripeTypeOK' /\ sent \subseteq sent' /\ EventsNameObjects'
             /\ transfers' = transfers
  <2>1. intent' \in [PIs -> IntentStatus]
    BY <1>1 DEF CustomerPays, StripeTypeOK, IntentStatus
  <2>2. sent' \subseteq Event
    BY <1>1 DEF CustomerPays, Ev, Event, StripeTypeOK
  <2>3. EventsNameObjects'
    BY <1>1 DEF CustomerPays, Ev, EventsNameObjects, refundVars, DisputeEvents
  <2> QED
    BY <1>1, <2>1, <2>2, <2>3
    DEF CustomerPays, StripeTypeOK, transferVars, refundVars
<1>2. ASSUME NEW p \in PIs, NEW amount \in PartialRefunds \cup {Charge - Refunded(p)},
             DashboardRefund(p, amount)
      PROVE  StripeTypeOK' /\ sent \subseteq sent' /\ EventsNameObjects'
             /\ transfers' = transfers
  <2>1. amount \in Int /\ CreateRefund(p, amount, "dashboard")
    BY <1>2, ChargeIsInt, PartialRefundsAssumption DEF DashboardRefund, Refunded, StripeTypeOK
  <2>2. UNCHANGED <<intent, transferVars, dispute>>
    BY <1>2 DEF DashboardRefund
  <2> QED
    BY <2>1, <2>2, RefundMade DEF StripeTypeOK, transferVars
<1>3. ASSUME NEW dp \in DPs, NEW s \in DisputeStatus, NEW c \in PIs \cup {None},
             dispute' = [dispute EXCEPT ![dp] = [charge |-> c, status |-> s]],
             NEW types \in SUBSET DisputeEvents,
             sent' = sent \cup {Ev(type, dp) : type \in types},
             UNCHANGED <<intent, transferVars, refundVars>>
      PROVE  StripeTypeOK' /\ sent \subseteq sent' /\ EventsNameObjects'
             /\ transfers' = transfers
  <2>1. dispute' \in [DPs -> [charge: PIs \cup {None}, status: DisputeStatus \cup {None}]]
    BY <1>3 DEF StripeTypeOK
  <2>2. sent' \subseteq Event
    BY <1>3 DEF Ev, Event, StripeTypeOK
  <2>3. \A e \in sent' : e \in sent \/ (e.type \in DisputeEvents /\ e.obj = dp)
    BY <1>3 DEF Ev
  <2>4. dispute'[dp].status = s /\ \A d \in DPs : d # dp => dispute'[d] = dispute[d]
    BY <1>3 DEF StripeTypeOK
  <2>5. "payment_intent.succeeded" \notin DisputeEvents /\ "charge.refunded" \notin DisputeEvents
    BY DEF DisputeEvents
  <2>6. EventsNameObjects'
    BY <1>3, <2>3, <2>4, <2>5 DEF EventsNameObjects, refundVars
  <2> QED
    BY <1>3, <2>1, <2>2, <2>6
    DEF StripeTypeOK, transferVars, refundVars
<1>4. ASSUME NEW dp \in DPs, NEW p \in PIs, CardholderDisputes(dp, p)
      PROVE  StripeTypeOK' /\ sent \subseteq sent' /\ EventsNameObjects'
             /\ transfers' = transfers
  <2> DEFINE types == {"charge.dispute.created", "charge.dispute.funds_withdrawn"}
  <2>1. types \in SUBSET DisputeEvents /\ "needs_response" \in DisputeStatus
    BY DEF DisputeEvents, DisputeStatus
  <2>2. sent' = sent \cup {Ev(type, dp) : type \in types}
    BY <1>4 DEF CardholderDisputes
  <2> HIDE DEF types
  <2> QED
    BY <1>3, <1>4, <2>1, <2>2 DEF CardholderDisputes
<1>5. ASSUME NEW dp \in DPs, DisputeProgresses(dp)
      PROVE  StripeTypeOK' /\ sent \subseteq sent' /\ EventsNameObjects'
             /\ transfers' = transfers
  <2> DEFINE types == {"charge.dispute.updated"}
  <2>1. types \in SUBSET DisputeEvents /\ "under_review" \in DisputeStatus
    BY DEF DisputeEvents, DisputeStatus
  <2>2. sent' = sent \cup {Ev(type, dp) : type \in types}
    BY <1>5 DEF DisputeProgresses
  <2>3. /\ dispute' = [dispute EXCEPT ![dp] = [charge |-> dispute[dp].charge,
                                               status |-> "under_review"]]
        /\ dispute[dp].charge \in PIs \cup {None}
    <3>1. dispute[dp] \in [charge: PIs \cup {None}, status: DisputeStatus \cup {None}]
      BY DEF StripeTypeOK
    <3>2. [dispute[dp] EXCEPT !.status = "under_review"]
            = [charge |-> dispute[dp].charge, status |-> "under_review"]
      BY <3>1
    <3>3. dispute' = [dispute EXCEPT ![dp] = [dispute[dp] EXCEPT !.status = "under_review"]]
      BY <1>5 DEF DisputeProgresses
    <3> QED
      BY <3>1, <3>2, <3>3
  <2> HIDE DEF types
  <2> QED
    BY <1>3, <1>5, <2>1, <2>2, <2>3 DEF DisputeProgresses
<1>6. ASSUME NEW dp \in DPs, NEW outcome \in {"won", "lost"}, DisputeEnds(dp, outcome)
      PROVE  StripeTypeOK' /\ sent \subseteq sent' /\ EventsNameObjects'
             /\ transfers' = transfers
  <2> DEFINE types == {"charge.dispute.closed"}
                \cup (IF outcome = "won" THEN {"charge.dispute.funds_reinstated"} ELSE {})
  <2>1. types \in SUBSET DisputeEvents /\ outcome \in DisputeStatus
    BY DEF DisputeEvents, DisputeStatus
  <2>2. sent' = sent \cup {Ev(type, dp) : type \in types}
    BY <1>6 DEF DisputeEnds
  <2>3. /\ dispute' = [dispute EXCEPT ![dp] = [charge |-> dispute[dp].charge,
                                               status |-> outcome]]
        /\ dispute[dp].charge \in PIs \cup {None}
    <3>1. dispute[dp] \in [charge: PIs \cup {None}, status: DisputeStatus \cup {None}]
      BY DEF StripeTypeOK
    <3>2. [dispute[dp] EXCEPT !.status = outcome]
            = [charge |-> dispute[dp].charge, status |-> outcome]
      BY <3>1
    <3>3. dispute' = [dispute EXCEPT ![dp] = [dispute[dp] EXCEPT !.status = outcome]]
      BY <1>6 DEF DisputeEnds
    <3> QED
      BY <3>1, <3>2, <3>3
  <2> HIDE DEF types
  <2> QED
    BY <1>3, <1>6, <2>1, <2>2, <2>3 DEF DisputeEnds
<1> QED
  BY <1>1, <1>2, <1>4, <1>5, <1>6 DEF StripeStep

LEMMA StripeActsStep ==
    ASSUME IInv, StripeActs
    PROVE  StepGood
<1>1. StripeTypeOK' /\ sent \subseteq sent' /\ EventsNameObjects' /\ transfers' = transfers
  BY StripeStepKeeps DEF StripeActs, IInv, TypeOK
<1>2. UNCHANGED dbVars
  BY DEF StripeActs
<1>3. TypeOK'
  BY <1>1, <1>2 DEF IInv, TypeOK, dbVars
<1>4. deal' \in DealRow /\ SameStamps(deal, deal') /\ SameBadge(deal, deal')
  BY <1>2 DEF IInv, TypeOK, SameStamps, SameBadge, dbVars
<1>5. StampsInOrder' /\ PaidAsTransferred' /\ FrozenIsMarked' /\ LegalMove /\ ThawMove
  BY <1>1, <1>2, <1>4, PlainMove DEF dbVars
<1> QED
  BY <1>1, <1>3, <1>5 DEF StepGood, IInv

-----------------------------------------------------------------------------
\* The invariant.

LEMMA InitGood == Init => IInv
<1> SUFFICES ASSUME Init PROVE IInv
  OBVIOUS
<1>1. PICK applied \in BOOLEAN : InitWith(NewDeal(applied))
  BY DEF Init
<1>2. deal = NewDeal(applied) /\ deal \in DealRow
  BY <1>1 DEF InitWith, NewDeal, DealRow, Status
<1>3. StripeTypeOK
  BY <1>1 DEF InitWith, StripeInit, StripeTypeOK, IntentStatus
<1>4. disputes \in [DPs -> DisputeRow]
  BY <1>1 DEF InitWith, DisputeRow
<1>5. TypeOK
  <2>1. ledger \in Seq(LedgerRow) /\ processed \subseteq sent
    BY <1>1 DEF InitWith, StripeInit
  <2>2. /\ has_proof \in BOOLEAN /\ fresh_proof \in BOOLEAN
        /\ verified_quantity \in {None} \cup Nat /\ source_removed \in BOOLEAN
    BY <1>1 DEF InitWith
  <2> QED
    BY <1>2, <1>3, <1>4, <2>1, <2>2 DEF TypeOK
<1>6. EventsNameObjects /\ PaidAsTransferred /\ StampsInOrder
  BY <1>1, <1>2
  DEF InitWith, StripeInit, EventsNameObjects, PaidAsTransferred, StampsInOrder, NewDeal
<1>7. FrozenIsMarked
  BY <1>1, <1>2 DEF InitWith, FrozenIsMarked, NewDeal
<1> QED
  BY <1>5, <1>6, <1>7 DEF IInv

LEMMA NextGood ==
    ASSUME IInv, [Next]_vars
    PROVE  StepGood
<1>1. CASE Parties
  BY <1>1, ApproveDealStep, FundDealStep, FundDealRefusedStep, DeclineDealStep,
     SubmitDeliveryProofStep, QuietStep, RefreshDealStep DEF Parties
<1>2. CASE Reviewers
  BY <1>2, VerifyApprovedStep, VerifySentBackStep, ReleasePayoutStep, RefundDealStep,
     SettlePoolStep DEF Reviewers
<1>3. CASE GraceDeadlinePasses
  BY <1>3, QuietStep
<1>4. CASE StripeActs
  BY <1>4, StripeActsStep
<1>5. ASSUME NEW e \in sent, Deliver(e)
      PROVE  StepGood
  BY <1>5, OnPaymentSucceededStep, OnChargeRefundedStep, OnDisputeStep DEF Deliver
<1>6. CASE UNCHANGED vars
  <2>1. processed' \subseteq sent
    BY <1>6 DEF vars, dbVars, IInv, TypeOK
  <2> QED
    BY <1>6, <2>1, IgnoredStep DEF vars, dbVars, rowVars, reviewVars
<1> QED
  BY <1>1, <1>2, <1>3, <1>4, <1>5, <1>6 DEF Next

THEOREM Invariance == Spec => []IInv
<1>1. IInv /\ [Next]_vars => IInv'
  BY NextGood DEF StepGood
<1> QED
  BY InitGood, <1>1, PTL DEF Spec

-----------------------------------------------------------------------------
\* The properties.

\* Every variable keeps its type, whatever the handlers and Stripe do.
THEOREM TypeCorrect == Spec => []TypeOK
<1>1. IInv => TypeOK
  BY DEF IInv
<1> QED
  BY Invariance, <1>1, PTL

\* The owner is paid at most once, and only for funded, evidenced and verified
\* work; the row and Stripe agree about it (services.py create_deal_payout and
\* settle_pool_deal).
THEOREM PaymentSafety == Spec => []PaidOnceForVerifiedWork
<1>1. IInv => PaidOnceForVerifiedWork
  <2> SUFFICES ASSUME IInv PROVE PaidOnceForVerifiedWork
    OBVIOUS
  <2>1. CASE transfers = <<>>
    BY <2>1 DEF IInv, PaidAsTransferred, PaidOnceForVerifiedWork
  <2>2. CASE transfers # <<>>
    <3>1. deal.paid_at /\ Len(transfers) = 1 /\ deal.transfer_id = 1
          /\ transfers[1].charge = deal.charge_id
      BY <2>2 DEF IInv, PaidAsTransferred
    <3>2. /\ deal.status = "paid" /\ deal.funded_at /\ deal.verified_at /\ has_proof
          /\ HasPool => verified_quantity # None
      BY <3>1 DEF IInv, StampsInOrder
    <3> QED
      BY <2>2, <3>1, <3>2 DEF PaidOnceForVerifiedWork
  <2> QED
    BY <2>1, <2>2
<1> QED
  BY Invariance, <1>1, PTL

\* However Stripe's events are repeated, delayed and reordered, the status moves
\* only as deal_state.py's table says or back to where the deal was frozen from.
THEOREM LegalMoves == Spec => MovesAreLegal
<1>1. IInv /\ [Next]_vars => [LegalMove]_vars
  BY NextGood DEF StepGood
<1> QED
  BY Invariance, <1>1, PTL DEF Spec, MovesAreLegal, LegalMove

\* No party and no reviewer moves a frozen deal: it is put back or refunded
\* (review.py _assert_no_open_dispute).
THEOREM FreezeIsRespected == Spec => FreezeHolds
<1>1. IInv /\ [Next]_vars => [ThawMove]_vars
  BY NextGood DEF StepGood
<1> QED
  BY Invariance, <1>1, PTL DEF Spec, FreezeHolds, ThawMove

-----------------------------------------------------------------------------
(*                        The money and the ledger                         *)

BeforeFunding == {"draft", "awaiting_approval", "approved", "awaiting_funding", "cancelled"}

FundedIsStatus == deal.funded_at <=> deal.status \notin BeforeFunding

\* Only a paid deal sent a Transfer, from its own charge; only a paid or a
\* refunded one sent money back; no more is returned than was charged, by
\* whomever; and the two payees never share more than the charge.
MoneyFollowsRow ==
    \A p \in PIs :
        /\ transferred[p] # 0 => deal.paid_at /\ p = deal.charge_id
        /\ refunded[p].program # 0 => /\ deal.funded_at /\ p = deal.charge_id
                                      /\ deal.paid_at \/ deal.status = "refunded"
        /\ Refunded(p) <= Charge
        /\ transferred[p] + refunded[p].program <= Charge

\* While the window is open, a deal without new evidence is where the reviewer
\* sent it, or frozen from there, or refunded.
SentBack == {"changes_requested", "rejected"}

StaleDuringGrace ==
    deal.proof_grace_deadline = "open" /\ ~fresh_proof =>
        \/ deal.status \in SentBack \cup {"refunded"}
        \/ deal.status = "disputed" /\ deal.status_before_dispute \in SentBack

MInv == FundedIsStatus /\ MoneyFollowsRow /\ StaleDuringGrace

\* What a step may do: a move of Escrow or none, and an approval inside an open
\* window only with new evidence.
EscrowMove == [E!EscrowNext]_(E!escrowVars)

GraceMove ==
    (/\ deal'.status = "verified" /\ deal.status \notin {"verified", "disputed"}
     /\ deal.proof_grace_deadline = "open") => fresh_proof

MoneyGood == MInv' /\ EscrowMove /\ GraceMove

-----------------------------------------------------------------------------
\* The table, read from the other end.

LEMMA TableTargets ==
    ASSUME NEW s
    PROVE  /\ ~CanTransition("refunded", s) /\ ~CanTransition("cancelled", s)
           /\ CanTransition("rejected", s) => s \in {"refunded", "disputed"}
           /\ CanTransition("changes_requested", s)
                 => s \in {"proof_submitted", "verified", "refunded", "disputed", "cancelled"}
           /\ CanTransition(s, "disputed") => s \notin BeforeFunding
           /\ CanTransition(s, "disputed") => s \notin {"disputed", "paid", "refunded"}
           /\ CanTransition(s, "refunded") => s \notin BeforeFunding
           /\ CanTransition(s, "proof_submitted") => s \notin BeforeFunding
           /\ CanTransition(s, "verified")
                 => s \in {"proof_submitted", "under_review", "changes_requested", "disputed"}
BY DEF CanTransition, AllowedTransitions, BeforeFunding

-----------------------------------------------------------------------------
\* Where the money is.

\* What toOwner, toBusiness and elsewhere of Escrow stand for.
SentToOwner == IF deal.funded_at THEN transferred[deal.charge_id] ELSE 0
SentToBusiness == IF deal.funded_at THEN refunded[deal.charge_id].program ELSE 0
SentElsewhere == IF deal.funded_at THEN refunded[deal.charge_id].dashboard ELSE 0

Sent == <<SentToOwner, SentToBusiness, SentElsewhere>>

\* A step that moves the phase along one of Escrow's quiet moves, and no money.
LEMMA QuietMove ==
    ASSUME UNCHANGED Sent,
           \/ phaseOf' = phaseOf
           \/ <<phaseOf, phaseOf'>> \in
                 {<<"open", "void">>, <<"held", "frozen">>, <<"frozen", "held">>,
                  <<"held", "returned">>, <<"frozen", "returned">>}
    PROVE  EscrowMove
BY DEF EscrowMove, E!EscrowNext, E!escrowVars, E!paidVars, E!Abandon, E!Freeze, E!Thaw,
       E!ReturnedElsewhere, E!Moves, Sent, SentToOwner, SentToBusiness, SentElsewhere

\* A step of the row alone that keeps the stamps moves the phase quietly.
LEMMA PhaseMoves ==
    ASSUME IInv, MInv, StepGood, SameStamps(deal, deal'), FundedIsStatus'
    PROVE  \/ phaseOf' = phaseOf
           \/ <<phaseOf, phaseOf'>> \in
                 {<<"open", "void">>, <<"held", "frozen">>, <<"frozen", "held">>,
                  <<"held", "returned">>, <<"frozen", "returned">>}
<1>1. deal.paid_at <=> deal'.paid_at
  BY DEF SameStamps
<1>2. deal.funded_at <=> deal'.funded_at
  BY DEF SameStamps
<1>3. CASE deal.paid_at
  BY <1>1, <1>3 DEF phaseOf
<1>4. CASE ~deal.paid_at /\ ~deal.funded_at
  <2>1. deal.status \in BeforeFunding /\ deal'.status \in BeforeFunding
    BY <1>2, <1>4 DEF MInv, FundedIsStatus
  <2>2. deal.status = "cancelled" => deal'.status = "cancelled"
    BY <2>1, TableTargets DEF StepGood, LegalMove
  <2> QED
    BY <1>1, <1>2, <1>4, <2>1, <2>2 DEF phaseOf, BeforeFunding
<1>5. CASE ~deal.paid_at /\ deal.funded_at
  <2>1. deal.status \notin BeforeFunding /\ deal'.status \notin BeforeFunding
    BY <1>2, <1>5 DEF MInv, FundedIsStatus
  <2>2. deal.status = "refunded" => deal'.status = "refunded"
    BY TableTargets DEF StepGood, LegalMove
  <2> QED
    BY <1>1, <1>2, <1>5, <2>1, <2>2 DEF phaseOf, BeforeFunding
<1> QED
  BY <1>3, <1>4, <1>5

\* A step of the row that makes no call that moves money, and no approval.
LEMMA MoneyStays ==
    ASSUME IInv, MInv, StepGood, SameStamps(deal, deal'), FundedIsStatus',
           UNCHANGED <<transferred, refunded, fresh_proof>>,
           deal'.proof_grace_deadline = "open" => deal.proof_grace_deadline = "open",
           deal'.status \in {"proof_submitted", "verified"} =>
              deal.status \in {deal'.status, "disputed"},
           deal'.status = "disputed" =>
              \/ deal.status = "disputed"
                 /\ deal'.status_before_dispute = deal.status_before_dispute
              \/ deal.status # "disputed" /\ deal'.status_before_dispute = deal.status
    PROVE  MoneyGood
<1>1. deal.status = "refunded" => deal'.status = "refunded"
  BY TableTargets DEF StepGood, LegalMove
<1>2. MoneyFollowsRow'
  BY <1>1 DEF MInv, MoneyFollowsRow, SameStamps, Refunded
<1>3. StaleDuringGrace'
  <2> SUFFICES ASSUME deal'.proof_grace_deadline = "open", ~fresh_proof'
               PROVE  \/ deal'.status \in SentBack \cup {"refunded"}
                      \/ /\ deal'.status = "disputed"
                         /\ deal'.status_before_dispute \in SentBack
    BY DEF StaleDuringGrace
  <2>1. \/ deal.status \in SentBack \cup {"refunded"}
        \/ deal.status = "disputed" /\ deal.status_before_dispute \in SentBack
    BY DEF MInv, StaleDuringGrace
  <2>2. CASE deal.status \in SentBack
    <3>1. deal'.status # "cancelled"
      BY <2>2 DEF MInv, FundedIsStatus, BeforeFunding, SentBack, SameStamps
    <3> QED
      BY <2>2, <3>1, TableTargets DEF StepGood, LegalMove, SentBack
  <2>3. CASE deal.status = "disputed" /\ deal.status_before_dispute \in SentBack
    BY <2>3 DEF StepGood, ThawMove
  <2> QED
    BY <1>1, <2>1, <2>2, <2>3
<1>4. EscrowMove
  <2>1. UNCHANGED Sent
    BY DEF Sent, SentToOwner, SentToBusiness, SentElsewhere, SameStamps
  <2> QED
    BY <2>1, PhaseMoves, QuietMove
<1> QED
  BY <1>2, <1>3, <1>4 DEF MoneyGood, MInv, GraceMove

-----------------------------------------------------------------------------
\* The arithmetic of one deal.

LEMMA ShareOfPrice ==
    ASSUME NEW price \in Nat, NEW pct \in 0..100
    PROVE  /\ (price * pct) \div 100 \in Nat
           /\ (price * pct) \div 100 <= price
<1>1. price * pct \in Nat /\ price * pct <= price * 100
  OBVIOUS
<1> DEFINE part == price * pct
<1>2. part \in Nat /\ part <= price * 100
  BY <1>1
<1> HIDE DEF part
<1>3. part \div 100 \in Nat /\ part \div 100 <= price
  BY <1>2
<1> QED
  BY <1>3 DEF part

\* The owner's net is between nothing and the price, and the business pays at
\* least the price (money.py compute_deal_money).
LEMMA NetWithinCharge ==
    ASSUME NEW price \in Nat, NEW s \in 0..100, NEW b \in 0..100
    PROVE  /\ DealMoney(price, s, b).net_to_owner \in Nat
           /\ DealMoney(price, s, b).charge_amount \in Nat
           /\ DealMoney(price, s, b).net_to_owner <= price
           /\ price <= DealMoney(price, s, b).charge_amount
           /\ DealMoney(price, s, b).net_to_owner <= DealMoney(price, s, b).charge_amount
<1> DEFINE sf == (price * s) \div 100
           bf == (price * b) \div 100
<1>1. sf \in Nat /\ sf <= price /\ bf \in Nat
  BY ShareOfPrice
<1>2. /\ DealMoney(price, s, b).net_to_owner = price - sf
      /\ DealMoney(price, s, b).charge_amount = price + bf
  BY DEF DealMoney
<1> HIDE DEF sf, bf
<1> QED
  BY <1>1, <1>2

\* The two payees of a settlement never share more than was charged.
LEMMA SettlementWithinCharge ==
    ASSUME NEW q \in Nat
    PROVE  LET pool == PoolSettlementFor(Terms, q)
           IN  FixedNet + pool.pool_net_to_owner + pool.refund_to_business <= Charge
<1> DEFINE s == Terms.seller_pct
           b == Terms.buyer_pct
           pool == PoolSettlementFor(Terms, q)
           gross == pool.pool_gross
           fixed == DealMoney(Terms.listed_price, s, b)
           charged == DealMoney(Terms.pool_max_budget, s, b)
           kept == DealMoney(gross, s, b)
<1>1. s \in 0..100 /\ b \in 0..100 /\ gross \in Nat
  BY TermsAssumption, PoolTypes
<1>2. /\ pool.pool_net_to_owner = kept.net_to_owner
      /\ pool.refund_to_business = charged.charge_amount - kept.charge_amount
  BY DEF PoolSettlementFor
<1>3. /\ FixedNet = fixed.net_to_owner
      /\ Charge = fixed.charge_amount + charged.charge_amount
  BY ChargeAssumption DEF FixedNet, TotalChargeFor
<1> HIDE DEF s, b, gross
<1>4. /\ fixed.net_to_owner \in Nat /\ fixed.charge_amount \in Nat
      /\ fixed.net_to_owner <= fixed.charge_amount
  BY <1>1, TermTypes, NetWithinCharge
<1>5. /\ kept.net_to_owner \in Nat /\ kept.charge_amount \in Nat
      /\ kept.net_to_owner <= kept.charge_amount
  BY <1>1, NetWithinCharge
<1>6. charged.charge_amount \in Nat
  BY <1>1, TermTypes, NetWithinCharge
<1> HIDE DEF fixed, charged, kept, pool
<1>7. pool.pool_net_to_owner + pool.refund_to_business <= charged.charge_amount
  BY <1>2, <1>5, <1>6
<1>8. FixedNet <= fixed.charge_amount /\ FixedNet \in Int
  BY <1>3, <1>4
<1>9. pool.pool_net_to_owner \in Int /\ pool.refund_to_business \in Int
  BY <1>2, <1>5, <1>6
<1>10. FixedNet + pool.pool_net_to_owner + pool.refund_to_business <= Charge
  BY <1>3, <1>4, <1>6, <1>7, <1>8, <1>9
<1> QED
  BY <1>10 DEF pool

-----------------------------------------------------------------------------
\* The parties and time.

LEMMA ApproveMoney ==
    ASSUME IInv, MInv, NEW party, ApproveDeal(party)
    PROVE  MoneyGood
<1>1. /\ deal \in DealRow /\ deal' = Approve(deal, deal, party) /\ ~deal.funded_at
      /\ StepGood
  BY ApproveDealStep DEF IInv, TypeOK, ApproveDeal, ApproveAllowed
<1>2. /\ SameStamps(deal, deal') /\ SameBadge(deal, deal')
      /\ deal'.status \in {deal.status, "approved"}
  BY <1>1, ApproveEffect
<1>3. deal'.proof_grace_deadline = deal.proof_grace_deadline
  BY <1>1 DEF Approve, DealRow
<1>4. FundedIsStatus'
  BY <1>1, <1>2 DEF MInv, FundedIsStatus, BeforeFunding, SameStamps
<1>5. UNCHANGED <<transferred, refunded, fresh_proof>>
  BY DEF ApproveDeal, reviewVars, stripeVars, transferVars, refundVars
<1>6. deal.status # "disputed"
  BY <1>1 DEF MInv, FundedIsStatus, BeforeFunding
<1> QED
  BY <1>1, <1>2, <1>3, <1>4, <1>5, <1>6, MoneyStays

LEMMA DeclineMoney ==
    ASSUME IInv, MInv, DeclineDeal
    PROVE  MoneyGood
<1>1. /\ deal \in DealRow /\ deal' = Decline(deal) /\ ~deal.funded_at
      /\ StepGood
  BY DeclineDealStep DEF IInv, TypeOK, DeclineDeal, DeclineAllowed
<1>2. SameStamps(deal, deal') /\ deal'.status = "cancelled"
  BY <1>1, DeclineEffect
<1>3. deal'.proof_grace_deadline = deal.proof_grace_deadline
  BY <1>1 DEF Decline, DealRow
<1>4. FundedIsStatus'
  BY <1>1, <1>2 DEF FundedIsStatus, BeforeFunding, SameStamps
<1>5. UNCHANGED <<transferred, refunded, fresh_proof>>
  BY DEF DeclineDeal, reviewVars, stripeVars, transferVars, refundVars
<1> QED
  BY <1>1, <1>2, <1>3, <1>4, <1>5, MoneyStays

\* New evidence: nothing is stale any more.
LEMMA SubmitMoney ==
    ASSUME IInv, MInv, SubmitDeliveryProof
    PROVE  MoneyGood
<1>1. /\ deal \in DealRow /\ deal' = SubmitProof(deal, deal) /\ deal.funded_at
      /\ deal.status \notin ProofClosedStates /\ fresh_proof'
      /\ StepGood
  BY SubmitDeliveryProofStep DEF IInv, TypeOK, SubmitDeliveryProof, SubmitProofAllowed
<1>2. /\ SameStamps(deal, deal')
      /\ deal'.status \in {deal.status, "proof_submitted"}
  BY <1>1, SubmitProofEffect
<1>3. FundedIsStatus'
  BY <1>1, <1>2 DEF MInv, FundedIsStatus, BeforeFunding, SameStamps
<1>4. UNCHANGED <<transferred, refunded>>
  BY DEF SubmitDeliveryProof, stripeVars, transferVars, refundVars
<1>5. MoneyFollowsRow'
  BY <1>1, <1>2, <1>4
  DEF MInv, MoneyFollowsRow, SameStamps, Refunded, ProofClosedStates, FinalStates
<1>6. StaleDuringGrace'
  BY <1>1 DEF StaleDuringGrace
<1>7. EscrowMove
  <2>1. UNCHANGED Sent
    BY <1>2, <1>4 DEF Sent, SentToOwner, SentToBusiness, SentElsewhere, SameStamps
  <2> QED
    BY <1>1, <1>2, <1>3, <2>1, PhaseMoves, QuietMove
<1>8. GraceMove
  BY <1>2 DEF GraceMove
<1> QED
  BY <1>3, <1>5, <1>6, <1>7, <1>8 DEF MoneyGood, MInv

LEMMA QuietMoney ==
    ASSUME IInv, MInv, RemoveSource \/ GraceDeadlinePasses
    PROVE  MoneyGood
<1>1. /\ SameStamps(deal, deal') /\ SameBadge(deal, deal') /\ deal'.status = deal.status
      /\ deal'.proof_grace_deadline = "open" => deal.proof_grace_deadline = "open"
  <2>1. CASE RemoveSource
    BY <2>1 DEF RemoveSource, SameStamps, SameBadge
  <2>2. CASE GraceDeadlinePasses
    BY <2>2 DEF IInv, TypeOK, GraceDeadlinePasses, SameStamps, SameBadge, DealRow
  <2> QED
    BY <2>1, <2>2
<1>2. StepGood
  BY QuietStep
<1>3. UNCHANGED <<transferred, refunded, fresh_proof>>
  BY DEF RemoveSource, GraceDeadlinePasses, reviewVars, stripeVars, transferVars, refundVars
<1>4. FundedIsStatus'
  BY <1>1 DEF MInv, FundedIsStatus, SameStamps
<1> QED
  BY <1>1, <1>2, <1>3, <1>4, MoneyStays DEF SameBadge

\* Before the deal is funded no charge of it was drawn on.
LEMMA NothingDrawn ==
    ASSUME IInv, MInv, ~deal.funded_at
    PROVE  /\ \A p \in PIs : transferred[p] = 0 /\ refunded[p].program = 0
           /\ ~deal.paid_at /\ deal.status \in BeforeFunding
           /\ deal.status # "disputed" /\ deal.status # "refunded"
<1>1. ~deal.paid_at
  BY DEF IInv, StampsInOrder
<1> QED
  BY <1>1 DEF MInv, MoneyFollowsRow, FundedIsStatus, BeforeFunding

LEMMA FundDealMoney ==
    ASSUME IInv, MInv, NEW p \in PIs, FundDeal(p)
    PROVE  MoneyGood
<1>1. /\ deal \in DealRow /\ deal' = AwaitFunding(deal, p) /\ ~deal.funded_at
      /\ CanTransition(deal.status, "awaiting_funding")
      /\ UNCHANGED <<transferred, refunded, fresh_proof>>
      /\ StepGood
  BY FundDealStep
  DEF IInv, TypeOK, FundDeal, FundAllowed, reviewVars, transferVars, refundVars
<1>2. /\ ~deal'.funded_at /\ deal'.status = "awaiting_funding"
      /\ deal'.paid_at = deal.paid_at
      /\ deal'.proof_grace_deadline = deal.proof_grace_deadline
  BY <1>1 DEF AwaitFunding, DealRow
<1>3. FundedIsStatus'
  BY <1>2 DEF FundedIsStatus, BeforeFunding
<1>4. /\ \A q \in PIs : transferred[q] = 0 /\ refunded[q].program = 0
      /\ ~deal.paid_at /\ deal.status = "approved"
  BY <1>1, NothingDrawn, TableSources
<1>5. MoneyFollowsRow'
  BY <1>1, <1>4 DEF MInv, MoneyFollowsRow, Refunded
<1>6. StaleDuringGrace'
  BY <1>1, <1>2, <1>4 DEF MInv, StaleDuringGrace, SentBack
<1>7. EscrowMove
  <2>1. UNCHANGED Sent
    BY <1>1, <1>2 DEF Sent, SentToOwner, SentToBusiness, SentElsewhere
  <2>2. phaseOf' = phaseOf
    BY <1>1, <1>2, <1>4 DEF phaseOf
  <2> QED
    BY <2>1, <2>2, QuietMove
<1>8. GraceMove
  BY <1>2 DEF GraceMove
<1> QED
  BY <1>3, <1>5, <1>6, <1>7, <1>8 DEF MoneyGood, MInv

\* A step that leaves the row and the money alone.
LEMMA UntouchedMoney ==
    ASSUME IInv, MInv, StepGood, UNCHANGED <<deal, fresh_proof, transferred, refunded>>
    PROVE  MoneyGood
<1>1. SameStamps(deal, deal')
  BY DEF SameStamps
<1>2. FundedIsStatus'
  BY DEF MInv, FundedIsStatus
<1> QED
  BY <1>1, <1>2, MoneyStays

LEMMA FundDealRefusedMoney ==
    ASSUME IInv, MInv, NEW p \in PIs, FundDealRefused(p)
    PROVE  MoneyGood
BY FundDealRefusedStep, UntouchedMoney DEF FundDealRefused, dbVars, transferVars, refundVars

-----------------------------------------------------------------------------
\* The reviewers.

\* The window holds approval back: a deal that can be verified inside it has new
\* evidence.
LEMMA VerifyApprovedMoney ==
    ASSUME IInv, MInv, NEW q \in Quantities \cup {None}, VerifyApproved(q)
    PROVE  MoneyGood
<1>1. /\ deal \in DealRow /\ deal' = MarkVerified(deal) /\ deal.funded_at
      /\ deal.dispute_status = None /\ CanTransition(deal.status, "verified")
      /\ ~(deal.status = "changes_requested" /\ deal.proof_grace_deadline = "open")
      /\ UNCHANGED <<transferred, refunded, fresh_proof>>
      /\ StepGood
  BY VerifyApprovedStep
  DEF IInv, TypeOK, VerifyApproved, VerifyAllowed, NoOpenDispute, stripeVars,
      transferVars, refundVars
<1>2. /\ deal'.funded_at /\ deal'.status = "verified" /\ deal'.paid_at = deal.paid_at
      /\ deal'.charge_id = deal.charge_id
      /\ deal'.proof_grace_deadline = deal.proof_grace_deadline
  BY <1>1 DEF MarkVerified, DealRow
<1>3. deal.status \in {"proof_submitted", "under_review", "changes_requested"} /\ ~deal.paid_at
  BY <1>1, TableTargets DEF IInv, FrozenIsMarked, StampsInOrder
<1>4. deal.proof_grace_deadline = "open" => fresh_proof
  BY <1>1, <1>3 DEF MInv, StaleDuringGrace, SentBack
<1>5. FundedIsStatus' /\ StaleDuringGrace' /\ GraceMove
  BY <1>1, <1>2, <1>4 DEF FundedIsStatus, BeforeFunding, StaleDuringGrace, GraceMove
<1>6. MoneyFollowsRow'
  BY <1>1, <1>2, <1>3 DEF MInv, MoneyFollowsRow, Refunded
<1>7. EscrowMove
  <2>1. UNCHANGED Sent
    BY <1>1, <1>2 DEF Sent, SentToOwner, SentToBusiness, SentElsewhere
  <2>2. phaseOf' = phaseOf
    BY <1>1, <1>2, <1>3 DEF phaseOf
  <2> QED
    BY <2>1, <2>2, QuietMove
<1> QED
  BY <1>5, <1>6, <1>7 DEF MoneyGood, MInv

LEMMA VerifySentBackMoney ==
    ASSUME IInv, MInv, NEW target \in {"rejected", "changes_requested"}, NEW grace \in BOOLEAN,
           VerifySentBack(target, grace)
    PROVE  MoneyGood
<1>1. /\ deal \in DealRow /\ deal' = SendBack(deal, target, grace) /\ deal.funded_at
      /\ CanTransition(deal.status, target) /\ target \in Status
      /\ UNCHANGED <<transferred, refunded>>
      /\ StepGood
  BY VerifySentBackStep
  DEF IInv, TypeOK, VerifySentBack, VerifyAllowed, stripeVars, transferVars, refundVars, Status
<1>2. SameStamps(deal, deal') /\ deal'.status = target
  BY <1>1, SendBackEffect
<1>3. FundedIsStatus' /\ StaleDuringGrace' /\ GraceMove
  BY <1>1, <1>2
  DEF FundedIsStatus, BeforeFunding, SameStamps, StaleDuringGrace, SentBack, GraceMove
<1>4. MoneyFollowsRow'
  BY <1>1, <1>2, TableTargets DEF MInv, MoneyFollowsRow, SameStamps, Refunded
<1>5. EscrowMove
  <2>1. UNCHANGED Sent
    BY <1>1, <1>2 DEF Sent, SentToOwner, SentToBusiness, SentElsewhere, SameStamps
  <2> QED
    BY <1>1, <1>2, <1>3, <2>1, PhaseMoves, QuietMove
<1> QED
  BY <1>3, <1>4, <1>5 DEF MoneyGood, MInv

\* What a Transfer does to the sums, and what a Refund does.
LEMMA TransferDraws ==
    ASSUME StripeTypeOK, NEW p \in PIs, NEW amount \in Int, CreateTransfer(p, amount)
    PROVE  /\ transferred'[p] = transferred[p] + amount
           /\ \A q \in PIs \ {p} : transferred'[q] = transferred[q]
           /\ amount \in 1..Charge
<1>1. transferred \in [PIs -> Nat] /\ Charge \in Int
  BY ChargeIsInt DEF StripeTypeOK
<1>2. /\ amount > 0 /\ transferred[p] + amount <= Charge
      /\ transferred' = [transferred EXCEPT ![p] = transferred[p] + amount]
  BY <1>1 DEF CreateTransfer, CanTransfer
<1> QED
  BY <1>1, <1>2

LEMMA RefundDraws ==
    ASSUME StripeTypeOK, NEW p \in PIs, NEW amount \in Int, NEW by \in {"program", "dashboard"},
           CreateRefund(p, amount, by)
    PROVE  /\ amount > 0 /\ Refunded(p) + amount <= Charge
           /\ by = "program" => /\ refunded'[p].program = refunded[p].program + amount
                                /\ refunded'[p].dashboard = refunded[p].dashboard
           /\ by = "dashboard" => /\ refunded'[p].dashboard = refunded[p].dashboard + amount
                                  /\ refunded'[p].program = refunded[p].program
           /\ \A q \in PIs \ {p} : refunded'[q] = refunded[q]
<1>1. refunded \in [PIs -> [program: Nat, dashboard: Nat]]
  BY DEF StripeTypeOK
<1>2. refunded' = [refunded EXCEPT ![p] =
                     [refunded[p] EXCEPT ![by] = refunded[p][by] + amount]]
  BY <1>1 DEF CreateRefund
<1>3. refunded'[p] = [refunded[p] EXCEPT ![by] = refunded[p][by] + amount]
  BY <1>1, <1>2
<1>4. \A q \in PIs \ {p} : refunded'[q] = refunded[q]
  BY <1>1, <1>2
<1>5. refunded[p] \in [program: Nat, dashboard: Nat]
  BY <1>1
<1>6. by = "program" => /\ refunded'[p].program = refunded[p].program + amount
                        /\ refunded'[p].dashboard = refunded[p].dashboard
  BY <1>3, <1>5
<1>7. by = "dashboard" => /\ refunded'[p].dashboard = refunded[p].dashboard + amount
                          /\ refunded'[p].program = refunded[p].program
  BY <1>3, <1>5
<1> QED
  BY <1>4, <1>6, <1>7 DEF CreateRefund, CanRefund

\* The payout, with what goes back to the business in the same request.
LEMMA PayoutMoney ==
    ASSUME IInv, MInv, StepGood, ~deal.paid_at, deal.verified_at, deal.status = "verified",
           deal'.funded_at = deal.funded_at, deal'.charge_id = deal.charge_id,
           deal'.status = "paid", deal'.paid_at,
           deal'.proof_grace_deadline = deal.proof_grace_deadline, fresh_proof' = fresh_proof,
           NEW amount \in 1..Charge, NEW back \in Nat, amount + back <= Charge,
           transferred'[deal.charge_id] = transferred[deal.charge_id] + amount,
           \A q \in PIs \ {deal.charge_id} : transferred'[q] = transferred[q],
           refunded'[deal.charge_id].program = refunded[deal.charge_id].program + back,
           refunded'[deal.charge_id].dashboard = refunded[deal.charge_id].dashboard,
           back = 0 \/ Refunded(deal.charge_id) + back <= Charge,
           \A q \in PIs \ {deal.charge_id} : refunded'[q] = refunded[q]
    PROVE  MoneyGood
<1> DEFINE c == deal.charge_id
<1>1. c \in PIs /\ deal.funded_at /\ Charge \in Int
  BY ChargeIsInt DEF IInv, StampsInOrder
<1>2. /\ \A q \in PIs : transferred[q] = 0 /\ refunded[q].program = 0
      /\ \A q \in PIs : refunded[q] \in [program: Nat, dashboard: Nat]
  BY DEF MInv, MoneyFollowsRow, IInv, TypeOK, StripeTypeOK
<1>3. transferred'[c] = amount /\ refunded'[c].program = back
  BY <1>1, <1>2
<1>4. FundedIsStatus' /\ StaleDuringGrace' /\ GraceMove
  BY <1>1 DEF MInv, FundedIsStatus, BeforeFunding, StaleDuringGrace, SentBack, GraceMove
<1>5. refunded'[c].program + refunded'[c].dashboard <= Charge
  <2>1. Refunded(c) <= Charge
    BY <1>1 DEF MInv, MoneyFollowsRow
  <2> QED
    BY <1>1, <1>2, <1>3, <2>1 DEF Refunded
<1>6. MoneyFollowsRow'
  <2> SUFFICES ASSUME NEW p \in PIs
               PROVE  /\ transferred'[p] # 0 => deal'.paid_at /\ p = deal'.charge_id
                      /\ refunded'[p].program # 0 =>
                            /\ deal'.funded_at /\ p = deal'.charge_id
                            /\ deal'.paid_at \/ deal'.status = "refunded"
                      /\ Refunded(p)' <= Charge
                      /\ transferred'[p] + refunded'[p].program <= Charge
    BY DEF MoneyFollowsRow
  <2>1. CASE p = c
    BY <1>1, <1>2, <1>3, <1>5, <2>1 DEF Refunded
  <2>2. CASE p # c
    BY <1>2, <2>2 DEF MInv, MoneyFollowsRow, Refunded
  <2> QED
    BY <2>1, <2>2
<1>7. EscrowMove
  <2>1. phaseOf = "held" /\ phaseOf' = "paid"
    BY <1>1 DEF phaseOf
  <2>2. /\ SentToOwner' = amount /\ SentToBusiness' = back
        /\ SentElsewhere = refunded[c].dashboard /\ SentElsewhere' = SentElsewhere
    BY <1>1, <1>3 DEF SentToOwner, SentToBusiness, SentElsewhere
  <2>3. /\ SentToOwner' \in 1..Charge /\ SentToBusiness' \in 0..(Charge - SentToOwner')
        /\ SentToBusiness' + SentElsewhere <= Charge
    BY <1>1, <1>3, <1>5, <2>2
  <2> QED
    BY <2>1, <2>2, <2>3
    DEF EscrowMove, E!EscrowNext, E!PayOut, E!Moves, SentToOwner, SentToBusiness, SentElsewhere
<1> QED
  BY <1>4, <1>6, <1>7 DEF MoneyGood, MInv

LEMMA ReleasePayoutMoney ==
    ASSUME IInv, MInv, ReleasePayout
    PROVE  MoneyGood
<1>1. /\ deal \in DealRow /\ ReleaseAllowed(deal)
      /\ CreateTransfer(deal.charge_id, FixedNet)
      /\ deal' = MarkPaid(deal, Len(transfers'))
      /\ refunded' = refunded /\ fresh_proof' = fresh_proof
      /\ StepGood
  BY ReleasePayoutStep DEF IInv, TypeOK, ReleasePayout, reviewVars, refundVars
<1>2. ~deal.paid_at /\ deal.verified_at /\ deal.status = "verified" /\ deal.charge_id \in PIs
  BY <1>1 DEF ReleaseAllowed, PayoutEligible, IInv, StampsInOrder
<1>3. /\ deal'.funded_at = deal.funded_at /\ deal'.charge_id = deal.charge_id
      /\ deal'.status = "paid" /\ deal'.paid_at
      /\ deal'.proof_grace_deadline = deal.proof_grace_deadline
  BY <1>1 DEF MarkPaid, DealRow
<1>4. /\ transferred'[deal.charge_id] = transferred[deal.charge_id] + FixedNet
      /\ \A q \in PIs \ {deal.charge_id} : transferred'[q] = transferred[q]
      /\ FixedNet \in 1..Charge
  BY <1>1, <1>2, FixedNetIsInt, TransferDraws DEF IInv, TypeOK
<1>5. /\ refunded'[deal.charge_id].program = refunded[deal.charge_id].program + 0
      /\ FixedNet + 0 <= Charge
  BY <1>1, <1>2, <1>4, ChargeIsInt DEF IInv, TypeOK, StripeTypeOK
<1> QED
  BY <1>1, <1>2, <1>3, <1>4, <1>5, PayoutMoney

LEMMA SettlePoolMoney ==
    ASSUME IInv, MInv, NEW refundable \in BOOLEAN, SettlePool(refundable)
    PROVE  MoneyGood
<1> DEFINE c       == deal.charge_id
           pool    == PoolSettlementFor(Terms, verified_quantity)
           net     == FixedNet + pool.pool_net_to_owner
           unused  == pool.refund_to_business
           settled == MarkSettled(deal, Len(transfers'), pool.pool_gross)
<1>1. /\ deal \in DealRow /\ ReleaseAllowed(deal)
      /\ CreateTransfer(c, net)
      /\ verified_quantity \in Nat /\ fresh_proof' = fresh_proof
      /\ StepGood
  BY SettlePoolStep DEF IInv, TypeOK, SettlePool, SettleAllowed, reviewVars
<1>2. /\ ~deal.paid_at /\ deal.verified_at /\ deal.status = "verified" /\ c \in PIs
      /\ deal.payment_intent_id = c
  BY <1>1 DEF ReleaseAllowed, PayoutEligible, IInv, StampsInOrder
<1>3. /\ net \in Int /\ unused \in Int /\ Charge \in Int /\ pool.pool_gross \in Nat
      /\ net + unused <= Charge
  BY <1>1, PoolTypes, FixedNetIsInt, ChargeIsInt, SettlementWithinCharge
<1>4. /\ settled.funded_at = deal.funded_at /\ settled.charge_id = deal.charge_id
      /\ settled.status = "paid" /\ settled.paid_at
      /\ settled.proof_grace_deadline = deal.proof_grace_deadline
      /\ settled = [deal EXCEPT !.transfer_id = Len(transfers'), !.paid_at = TRUE,
                                !.status = "paid", !.pool_released_amount = pool.pool_gross]
  <2> HIDE DEF pool
  <2> QED
    BY <1>1 DEF MarkSettled, MarkPaid, DealRow
<1> HIDE DEF net, unused, settled, pool, c
<1>5. /\ transferred'[c] = transferred[c] + net
      /\ \A q \in PIs \ {c} : transferred'[q] = transferred[q]
      /\ net \in 1..Charge
  BY <1>1, <1>2, <1>3, TransferDraws DEF IInv, TypeOK
<1>6. PICK back \in Nat :
         /\ net + back <= Charge
         /\ refunded'[c].program = refunded[c].program + back
         /\ refunded'[c].dashboard = refunded[c].dashboard
         /\ back = 0 \/ Refunded(c) + back <= Charge
         /\ \A q \in PIs \ {c} : refunded'[q] = refunded[q]
  <2>1. CASE CreateRefund(deal.payment_intent_id, unused, "program")
    <3>1. CreateRefund(c, unused, "program")
      BY <1>2, <2>1
    <3>2. /\ unused > 0 /\ Refunded(c) + unused <= Charge
          /\ refunded'[c].program = refunded[c].program + unused
          /\ refunded'[c].dashboard = refunded[c].dashboard
          /\ \A q \in PIs \ {c} : refunded'[q] = refunded[q]
      BY <1>2, <1>3, <3>1, RefundDraws DEF IInv, TypeOK
    <3>3. unused \in Nat
      BY <1>3, <3>2
    <3> QED
      BY <1>3, <3>2, <3>3
  <2>2. CASE refunded' = refunded
    <3>1. refunded[c].program \in Nat /\ Refunded(c) \in Nat
      BY <1>2 DEF IInv, TypeOK, StripeTypeOK, Refunded
    <3>2. /\ net + 0 <= Charge /\ refunded'[c].program = refunded[c].program + 0
          /\ refunded'[c].dashboard = refunded[c].dashboard
          /\ \A q \in PIs \ {c} : refunded'[q] = refunded[q]
      BY <1>3, <1>5, <2>2, <3>1
    <3>3. 0 \in Nat
      OBVIOUS
    <3> QED
      BY <3>2, <3>3
  <2> QED
    BY <2>1, <2>2 DEF SettlePool, refundVars, unused, pool
<1>7. /\ deal'.funded_at = deal.funded_at /\ deal'.charge_id = deal.charge_id
      /\ deal'.status = "paid" /\ deal'.paid_at
      /\ deal'.proof_grace_deadline = deal.proof_grace_deadline
  <2>1. \/ deal' = MarkPoolRefunded(settled, Len(refunds'), unused)
        \/ deal' = [settled EXCEPT !.pool_refunded_amount = 0]
        \/ deal' = settled
    BY DEF SettlePool, settled, unused, pool
  <2> QED
    BY <1>1, <1>4, <2>1 DEF MarkPoolRefunded, DealRow
<1> QED
  BY <1>1, <1>2, <1>5, <1>6, <1>7, PayoutMoney DEF c

LEMMA RefundDealMoney ==
    ASSUME IInv, MInv, RefundDeal
    PROVE  MoneyGood
<1> DEFINE c == deal.charge_id
           amount == Charge - Refunded(c)
<1>1. /\ deal \in DealRow /\ RefundAllowed(deal) /\ deal.funded_at /\ ~deal.paid_at
      /\ CanTransition(deal.status, "refunded") /\ deal.dispute_status = None
      /\ deal' = MarkRefunded(deal, Len(refunds'))
      /\ UNCHANGED <<transferred, fresh_proof>>
      /\ StepGood
  BY RefundDealStep
  DEF IInv, TypeOK, RefundDeal, RefundAllowed, NoOpenDispute, transferVars, reviewVars
<1>2. c \in PIs /\ deal.payment_intent_id = c /\ Charge \in Int
  BY <1>1, ChargeIsInt DEF IInv, StampsInOrder
<1>3. \A q \in PIs : /\ refunded[q] \in [program: Nat, dashboard: Nat]
                     /\ transferred[q] = 0
  BY <1>1 DEF IInv, TypeOK, StripeTypeOK, MInv, MoneyFollowsRow
<1>4. amount \in Int /\ CreateRefund(c, amount, "program")
  BY <1>2, <1>3 DEF RefundDeal, Refunded
<1>5. deal.status \notin {"refunded", "disputed"}
  BY <1>1, TableTargets DEF IInv, FrozenIsMarked
<1>6. \A q \in PIs : refunded[q].program = 0
  BY <1>1, <1>5 DEF MInv, MoneyFollowsRow
<1>7. /\ deal'.funded_at = deal.funded_at /\ deal'.charge_id = c
      /\ ~deal'.paid_at /\ deal'.status = "refunded"
  BY <1>1 DEF MarkRefunded, DealRow
<1>8. /\ amount > 0 /\ Refunded(c) + amount <= Charge
      /\ refunded'[c].program = refunded[c].program + amount
      /\ refunded'[c].dashboard = refunded[c].dashboard
      /\ \A q \in PIs \ {c} : refunded'[q] = refunded[q]
  <2> HIDE DEF amount, c
  <2> QED
    BY <1>2, <1>4, RefundDraws DEF IInv, TypeOK
<1>10. /\ refunded'[c].program = Charge - refunded[c].dashboard
       /\ refunded'[c].dashboard = refunded[c].dashboard
       /\ refunded[c].dashboard \in Nat /\ refunded[c].dashboard <= Charge
  BY <1>2, <1>3, <1>6, <1>8 DEF Refunded
<1>11. FundedIsStatus' /\ StaleDuringGrace' /\ GraceMove
  BY <1>1, <1>7 DEF FundedIsStatus, BeforeFunding, StaleDuringGrace, GraceMove
<1>12. MoneyFollowsRow'
  <2>1. ASSUME NEW q \in PIs
        PROVE  /\ transferred'[q] = 0
               /\ refunded'[q].program # 0 => q = c
               /\ Refunded(q)' <= Charge
               /\ refunded'[q].program <= Charge
    <3>1. CASE q = c
      BY <1>1, <1>2, <1>3, <1>10, <3>1 DEF Refunded
    <3>2. CASE q # c
      BY <1>1, <1>2, <1>3, <1>6, <1>8, <1>10, <3>2 DEF MInv, MoneyFollowsRow, Refunded
    <3> QED
      BY <3>1, <3>2
  <2>3. ASSUME NEW q \in PIs
        PROVE  transferred'[q] + refunded'[q].program <= Charge
    <3>1. refunded'[q].program \in Int
      BY <1>2, <1>3, <1>8, <1>10
    <3> QED
      BY <1>2, <2>1, <3>1
  <2> QED
    BY <1>1, <1>7, <2>1, <2>3 DEF MoneyFollowsRow
<1>13. EscrowMove
  <2>1. phaseOf = "held" /\ phaseOf' = "returned"
    BY <1>1, <1>5, <1>7 DEF phaseOf
  <2>2. /\ SentToBusiness' = Charge - SentElsewhere /\ SentToOwner' = SentToOwner
        /\ SentElsewhere' = SentElsewhere
    BY <1>1, <1>7, <1>10 DEF SentToOwner, SentToBusiness, SentElsewhere
  <2> QED
    BY <2>1, <2>2
    DEF EscrowMove, E!EscrowNext, E!GiveBack, E!Moves,
        SentToOwner, SentToBusiness, SentElsewhere
<1> QED
  BY <1>11, <1>12, <1>13 DEF MoneyGood, MInv

-----------------------------------------------------------------------------
\* Stripe's events.

LEMMA FundsMoney ==
    ASSUME IInv, MInv, StepGood, NEW p \in PIs, Funds(p, deal),
           UNCHANGED <<reviewVars, stripeVars>>
    PROVE  MoneyGood
<1>1. /\ deal \in DealRow /\ deal' = MarkFunded(deal, p) /\ ~deal.funded_at
      /\ CanTransition(deal.status, "funded")
      /\ UNCHANGED <<transferred, refunded, fresh_proof>>
  BY DEF IInv, TypeOK, Funds, reviewVars, stripeVars, transferVars, refundVars
<1>2. /\ deal'.funded_at /\ deal'.status = "funded" /\ deal'.charge_id = p
      /\ deal'.paid_at = deal.paid_at
      /\ deal'.proof_grace_deadline = deal.proof_grace_deadline
  BY <1>1 DEF MarkFunded, DealRow
<1>3. /\ \A q \in PIs : transferred[q] = 0 /\ refunded[q].program = 0
      /\ ~deal.paid_at /\ deal.status \in {"approved", "awaiting_funding"}
  BY <1>1, NothingDrawn, TableSources
<1>4. FundedIsStatus' /\ StaleDuringGrace' /\ GraceMove
  BY <1>1, <1>2, <1>3
  DEF MInv, FundedIsStatus, BeforeFunding, StaleDuringGrace, SentBack, GraceMove
<1>5. MoneyFollowsRow'
  BY <1>1, <1>3 DEF MInv, MoneyFollowsRow, Refunded
<1>6. EscrowMove
  <2>1. UNCHANGED <<SentToOwner, SentToBusiness>>
    BY <1>1, <1>2, <1>3 DEF SentToOwner, SentToBusiness
  <2>2. phaseOf = "open" /\ phaseOf' = "held"
    BY <1>1, <1>2, <1>3 DEF phaseOf
  <2>3. SentElsewhere' \in 0..Charge
    <3>1. /\ refunded[p] \in [program: Nat, dashboard: Nat]
          /\ Refunded(p) <= Charge /\ Charge \in Int
      BY ChargeIsInt DEF IInv, TypeOK, StripeTypeOK, MInv, MoneyFollowsRow
    <3>2. SentElsewhere' = refunded[p].dashboard
      BY <1>1, <1>2 DEF SentElsewhere
    <3> QED
      BY <3>1, <3>2 DEF Refunded
  <2> QED
    BY <2>1, <2>2, <2>3
    DEF EscrowMove, E!EscrowNext, E!paidVars, E!Collect, E!Moves,
        SentToOwner, SentToBusiness, SentElsewhere
<1> QED
  BY <1>4, <1>5, <1>6 DEF MoneyGood, MInv

LEMMA RefreshDealMoney ==
    ASSUME IInv, MInv, RefreshDeal(deal)
    PROVE  MoneyGood
BY RefreshDealStep, FundsMoney DEF RefreshDeal

LEMMA OnPaymentSucceededMoney ==
    ASSUME IInv, MInv, NEW e \in sent, OnPaymentSucceeded(e, deal)
    PROVE  MoneyGood
<1>1. StepGood /\ e.obj \in PIs
  BY OnPaymentSucceededStep DEF OnPaymentSucceeded, IInv, EventsNameObjects
<1>2. CASE Funds(e.obj, deal)
  BY <1>1, <1>2, FundsMoney DEF OnPaymentSucceeded
<1>3. CASE UNCHANGED <<deal, ledger>>
  BY <1>1, <1>3, UntouchedMoney
  DEF OnPaymentSucceeded, reviewVars, stripeVars, transferVars, refundVars
<1> QED
  BY <1>2, <1>3 DEF OnPaymentSucceeded

LEMMA OnChargeRefundedMoney ==
    ASSUME IInv, MInv, NEW e \in sent, OnChargeRefunded(e, deal)
    PROVE  MoneyGood
<1>1. StepGood /\ UNCHANGED <<transferred, refunded, fresh_proof>>
  BY OnChargeRefundedStep
  DEF OnChargeRefunded, reviewVars, stripeVars, transferVars, refundVars
<1>2. CASE UNCHANGED deal
  BY <1>1, <1>2, UntouchedMoney
<1>3. CASE /\ CanTransition(deal.status, "refunded")
           /\ deal' = [deal EXCEPT !.status = "refunded"]
  <2>1. /\ SameStamps(deal, deal') /\ deal'.status = "refunded"
        /\ deal'.proof_grace_deadline = deal.proof_grace_deadline
    BY <1>3 DEF IInv, TypeOK, DealRow, SameStamps
  <2>2. deal.status \notin BeforeFunding
    BY <1>3, TableTargets
  <2>3. FundedIsStatus'
    BY <2>1, <2>2 DEF MInv, FundedIsStatus, BeforeFunding, SameStamps
  <2> QED
    BY <1>1, <2>1, <2>3, MoneyStays
<1> QED
  BY <1>2, <1>3 DEF OnChargeRefunded

\* What a dispute's row and its deal look like once the dispute is on record.
LEMMA DealForMoney ==
    ASSUME IInv, MInv, NEW dp \in DPs, dispute[dp].status \in DisputeStatus
    PROVE  LET f == DealFor(dp, deal)
           IN  /\ f \in DealRow /\ SameStamps(deal, f)
               /\ f.proof_grace_deadline = deal.proof_grace_deadline
               /\ \/ /\ f.status = deal.status
                     /\ f.status_before_dispute = deal.status_before_dispute
                  \/ /\ f.status = "disputed" /\ f.status_before_dispute = deal.status
                     /\ deal.status # "disputed" /\ CanTransition(deal.status, "disputed")
<1>1. DealFor(dp, deal).proof_grace_deadline = deal.proof_grace_deadline
  BY DEF DealFor, OpenDispute, IInv, TypeOK, DealRow
<1> QED
  BY <1>1, DealForEffect

\* A dispute event whose effect on the row is known: the status stays, freezes,
\* or goes from frozen to refunded or back.
LEMMA DisputeMoney ==
    ASSUME IInv, MInv, StepGood, SameStamps(deal, deal'),
           UNCHANGED <<reviewVars, stripeVars>>,
           deal'.proof_grace_deadline = deal.proof_grace_deadline,
           \/ /\ deal'.status = deal.status
              /\ deal'.status = "disputed" =>
                    deal'.status_before_dispute = deal.status_before_dispute
           \/ /\ deal'.status = "disputed" /\ deal'.status_before_dispute = deal.status
              /\ deal.status # "disputed" /\ CanTransition(deal.status, "disputed")
           \/ /\ deal.status = "disputed"
              /\ deal'.status \in {deal.status_before_dispute, "refunded"}
           \/ /\ CanTransition(deal.status, "refunded") /\ deal'.status = "refunded"
    PROVE  MoneyGood
<1>1. UNCHANGED <<transferred, refunded, fresh_proof>>
  BY DEF reviewVars, stripeVars, transferVars, refundVars
<1>2. deal.status = "disputed" =>
         /\ deal.status_before_dispute \notin BeforeFunding \cup {"disputed"}
         /\ deal.status \notin BeforeFunding
  BY TableTargets DEF IInv, FrozenIsMarked, BeforeFunding
<1>3. CanTransition(deal.status, "disputed") \/ CanTransition(deal.status, "refunded")
         => deal.status \notin BeforeFunding
  BY TableTargets
<1>4. FundedIsStatus'
  <2>1. (deal'.status \in BeforeFunding) <=> (deal.status \in BeforeFunding)
    BY <1>2, <1>3 DEF BeforeFunding
  <2> QED
    BY <2>1 DEF MInv, FundedIsStatus, SameStamps
<1>5. deal'.status \in {"proof_submitted", "verified"} =>
         deal.status \in {deal'.status, "disputed"}
  OBVIOUS
<1>6. deal'.status = "disputed" =>
         \/ deal.status = "disputed"
            /\ deal'.status_before_dispute = deal.status_before_dispute
         \/ deal.status # "disputed" /\ deal'.status_before_dispute = deal.status
  BY <1>2
<1> QED
  BY <1>1, <1>4, <1>5, <1>6, MoneyStays

LEMMA UpdateMoney ==
    ASSUME IInv, MInv, StepGood, NEW dp \in DPs, dispute[dp].status \in DisputeStatus,
           Update(dp, deal), UNCHANGED <<reviewVars, stripeVars>>
    PROVE  MoneyGood
<1> DEFINE f == DealFor(dp, deal)
<1>1. f \in DealRow /\ SameStamps(deal, f)
      /\ f.proof_grace_deadline = deal.proof_grace_deadline
  BY DealForMoney
<1>2. deal' = [f EXCEPT !.dispute_status = dispute[dp].status]
  BY DEF Update
<1>3. \/ /\ f.status = deal.status
         /\ f.status_before_dispute = deal.status_before_dispute
      \/ /\ f.status = "disputed" /\ f.status_before_dispute = deal.status
         /\ deal.status # "disputed" /\ CanTransition(deal.status, "disputed")
  BY DealForMoney
<1> HIDE DEF f
<1>4. /\ SameStamps(f, deal') /\ deal'.status = f.status
      /\ deal'.status_before_dispute = f.status_before_dispute
      /\ deal'.proof_grace_deadline = f.proof_grace_deadline
  BY <1>1, <1>2 DEF DealRow, SameStamps
<1>5. SameStamps(deal, deal')
  BY <1>1, <1>4 DEF SameStamps
<1> QED
  BY <1>1, <1>3, <1>4, <1>5, DisputeMoney

LEMMA CloseMoney ==
    ASSUME IInv, MInv, StepGood, NEW dp \in DPs, dispute[dp].status \in DisputeStatus,
           Close(dp, deal), UNCHANGED <<reviewVars, stripeVars>>
    PROVE  MoneyGood
<1> DEFINE f == DealFor(dp, deal)
           row == RowFor(dp, deal)
           outcome == dispute[dp].status
<1>1. /\ f \in DealRow /\ SameStamps(deal, f)
      /\ f.proof_grace_deadline = deal.proof_grace_deadline
      /\ row \in DisputeRow
      /\ row.payout_already_released => deal.paid_at
      /\ f.status = "disputed" => CanTransition(f.status_before_dispute, "disputed")
  BY DealForMoney, DealForEffect
<1>2. \/ /\ f.status = deal.status
         /\ f.status_before_dispute = deal.status_before_dispute
      \/ /\ f.status = "disputed" /\ f.status_before_dispute = deal.status
         /\ deal.status # "disputed" /\ CanTransition(deal.status, "disputed")
  BY DealForMoney
<1>3. deal' = CloseDispute(f, f, row, outcome)
  BY DEF Close, Thawed, DealFor
<1> HIDE DEF f, row, outcome
<1>4. f.status = "disputed" => f.status_before_dispute \in Status \ {"disputed"}
  BY <1>1, TableSources
<1>5. /\ SameStamps(f, deal')
      /\ \/ deal'.status = f.status /\ f.status # "disputed"
         \/ deal'.status = f.status /\ row.payout_already_released
         \/ deal'.status \in {f.status_before_dispute, "refunded"} /\ f.status = "disputed"
  BY <1>1, <1>3, <1>4, CloseDisputeEffect
<1>6. deal'.proof_grace_deadline = f.proof_grace_deadline
  BY <1>1, <1>3 DEF CloseDispute, DealRow
<1>7. f.status = "disputed" => ~row.payout_already_released
  BY <1>1, <1>2, TableTargets DEF IInv, StampsInOrder
<1>8. SameStamps(deal, deal') /\ deal'.proof_grace_deadline = deal.proof_grace_deadline
  BY <1>1, <1>5, <1>6 DEF SameStamps
<1>9. \/ deal'.status = deal.status /\ deal'.status # "disputed"
      \/ deal.status = "disputed" /\ deal'.status \in {deal.status_before_dispute, "refunded"}
      \/ CanTransition(deal.status, "refunded") /\ deal'.status = "refunded"
  BY <1>2, <1>5, <1>7, TableSources
<1> QED
  BY <1>8, <1>9, DisputeMoney

LEMMA OnDisputeMoney ==
    ASSUME IInv, MInv, NEW e \in sent, OnDispute(e, deal)
    PROVE  MoneyGood
<1>1. /\ StepGood /\ e.obj \in DPs /\ dispute[e.obj].status \in DisputeStatus
      /\ UNCHANGED <<reviewVars, stripeVars>>
  BY OnDisputeStep DEF OnDispute, IInv, EventsNameObjects
<1>2. CASE UNCHANGED deal
  BY <1>1, <1>2, UntouchedMoney DEF reviewVars, stripeVars, transferVars, refundVars
<1>3. CASE EnsureOpen(e.obj, deal)
  <2>1. deal' = DealFor(e.obj, deal)
    BY <1>3 DEF EnsureOpen
  <2> QED
    BY <1>1, <2>1, DealForMoney, DisputeMoney
<1>4. CASE Update(e.obj, deal)
  BY <1>1, <1>4, UpdateMoney
<1>5. CASE Close(e.obj, deal)
  BY <1>1, <1>5, CloseMoney
<1> QED
  BY <1>2, <1>3, <1>4, <1>5 DEF OnDispute

-----------------------------------------------------------------------------
\* Stripe's own steps: only a refund on the dashboard moves money.

LEMMA DashboardRefundMoney ==
    ASSUME IInv, MInv, StepGood, NEW p \in PIs,
           NEW amount \in PartialRefunds \cup {Charge - Refunded(p)},
           DashboardRefund(p, amount), UNCHANGED dbVars
    PROVE  MoneyGood
<1>1. UNCHANGED <<deal, fresh_proof, transferred>>
  BY DEF DashboardRefund, dbVars, transferVars
<1>2. \A q \in PIs : refunded[q] \in [program: Nat, dashboard: Nat]
  BY DEF IInv, TypeOK, StripeTypeOK
<1>3. amount \in Int /\ Charge \in Int
  <2>1. Refunded(p) \in Int
    BY <1>2 DEF Refunded
  <2>2. CASE amount \in PartialRefunds
    BY <2>2, ChargeIsInt, PartialRefundsAssumption
  <2>3. CASE amount = Charge - Refunded(p)
    BY <2>1, <2>3, ChargeIsInt
  <2> QED
    BY <2>2, <2>3
<1>4. CreateRefund(p, amount, "dashboard")
  BY DEF DashboardRefund
<1>5. /\ amount > 0 /\ Refunded(p) + amount <= Charge
      /\ refunded'[p].dashboard = refunded[p].dashboard + amount
      /\ refunded'[p].program = refunded[p].program
      /\ \A q \in PIs \ {p} : refunded'[q] = refunded[q]
  BY <1>3, <1>4, RefundDraws DEF IInv, TypeOK
<1>6. Refunded(p)' <= Charge
  BY <1>2, <1>3, <1>5 DEF Refunded
<1>7. MoneyFollowsRow'
  <2>1. \A q \in PIs : /\ refunded'[q].program = refunded[q].program
                       /\ Refunded(q)' <= Charge
    BY <1>5, <1>6 DEF MInv, MoneyFollowsRow, Refunded
  <2> QED
    BY <1>1, <2>1 DEF MInv, MoneyFollowsRow
<1>8. FundedIsStatus' /\ StaleDuringGrace' /\ GraceMove
  BY <1>1 DEF MInv, FundedIsStatus, StaleDuringGrace, GraceMove
<1>9. EscrowMove
  <2>1. phaseOf' = phaseOf
    BY <1>1 DEF phaseOf
  <2>2. deal.funded_at => deal.charge_id \in PIs
    BY DEF IInv, StampsInOrder
  <2>3. UNCHANGED <<SentToOwner, SentToBusiness>>
    BY <1>1, <1>5, <2>2 DEF SentToOwner, SentToBusiness
  <2>4. CASE ~deal.funded_at
    <3>1. UNCHANGED Sent
      BY <1>1, <2>3, <2>4 DEF Sent, SentElsewhere
    <3> QED
      BY <2>1, <3>1, QuietMove
  <2>5. CASE deal.funded_at
    <3> DEFINE c == deal.charge_id
    <3>1. c \in PIs /\ Refunded(c)' <= Charge
      BY <1>1, <1>7, <2>2, <2>5 DEF MoneyFollowsRow
    <3>2. /\ refunded'[c].program = refunded[c].program
          /\ refunded'[c].dashboard \in Int
          /\ refunded'[c].dashboard >= refunded[c].dashboard
      BY <1>2, <1>3, <1>5, <3>1
    <3>3. /\ SentElsewhere = refunded[c].dashboard
          /\ SentElsewhere' = refunded'[c].dashboard
          /\ SentToBusiness = refunded[c].program
      BY <1>1, <2>5 DEF SentElsewhere, SentToBusiness
    <3>4. SentElsewhere' \in SentElsewhere..(Charge - SentToBusiness)
      <4>1. /\ refunded[c].program \in Int /\ refunded[c].dashboard \in Int
            /\ refunded'[c].program + refunded'[c].dashboard <= Charge
        BY <1>1, <1>2, <3>1 DEF Refunded
      <4> HIDE DEF c
      <4>2. refunded'[c].dashboard \in refunded[c].dashboard..(Charge - refunded[c].program)
        BY <1>3, <3>2, <4>1
      <4> QED
        BY <3>3, <4>2
    <3> QED
      BY <2>1, <2>3, <3>4
      DEF EscrowMove, E!EscrowNext, E!OutsideRefund, E!paidVars,
          SentToOwner, SentToBusiness, SentElsewhere
  <2> QED
    BY <2>4, <2>5
<1> QED
  BY <1>7, <1>8, <1>9 DEF MoneyGood, MInv

LEMMA StripeActsMoney ==
    ASSUME IInv, MInv, StripeActs
    PROVE  MoneyGood
<1>1. StepGood /\ UNCHANGED dbVars
  BY StripeActsStep DEF StripeActs
<1>2. CASE \E p \in PIs : \E amount \in PartialRefunds \cup {Charge - Refunded(p)} :
              DashboardRefund(p, amount)
  BY <1>1, <1>2, DashboardRefundMoney
<1>3. CASE UNCHANGED <<transferVars, refundVars>>
  BY <1>1, <1>3, UntouchedMoney DEF dbVars, transferVars, refundVars
<1> QED
  BY <1>2, <1>3
  DEF StripeActs, StripeStep, CustomerPays, CardholderDisputes, DisputeProgresses, DisputeEnds

-----------------------------------------------------------------------------
\* The invariant.

LEMMA InitMoney == Init => MInv /\ E!EscrowInit
<1> SUFFICES ASSUME Init PROVE MInv /\ E!EscrowInit
  OBVIOUS
<1>1. PICK applied \in BOOLEAN : InitWith(NewDeal(applied))
  BY DEF Init
<1>2. deal = NewDeal(applied)
  BY <1>1 DEF InitWith
<1>3. /\ ~deal.funded_at /\ ~deal.paid_at /\ deal.status = "awaiting_approval"
      /\ deal.proof_grace_deadline = "none"
  BY <1>2 DEF NewDeal
<1>4. \A p \in PIs : /\ transferred[p] = 0 /\ refunded[p].program = 0
                     /\ refunded[p].dashboard = 0
  BY <1>1 DEF InitWith, StripeInit
<1>5. 0 <= Charge
  <2>1. /\ DealMoney(Terms.listed_price, Terms.seller_pct, Terms.buyer_pct).charge_amount \in Nat
        /\ DealMoney(Terms.pool_max_budget, Terms.seller_pct, Terms.buyer_pct).charge_amount \in Nat
    BY TermsAssumption, NetWithinCharge
  <2> QED
    BY <2>1, ChargeAssumption DEF TotalChargeFor
<1>6. MoneyFollowsRow
  BY <1>4, <1>5 DEF MoneyFollowsRow, Refunded
<1>7. FundedIsStatus /\ StaleDuringGrace
  BY <1>3 DEF FundedIsStatus, BeforeFunding, StaleDuringGrace
<1>8. E!EscrowInit
  BY <1>3 DEF E!EscrowInit, phaseOf
<1> QED
  BY <1>6, <1>7, <1>8 DEF MInv

LEMMA NextMoney ==
    ASSUME IInv, MInv, [Next]_vars
    PROVE  MoneyGood
<1>1. CASE Parties
  BY <1>1, ApproveMoney, FundDealMoney, FundDealRefusedMoney, DeclineMoney, SubmitMoney,
     QuietMoney, RefreshDealMoney DEF Parties
<1>2. CASE Reviewers
  BY <1>2, VerifyApprovedMoney, VerifySentBackMoney, ReleasePayoutMoney, RefundDealMoney,
     SettlePoolMoney DEF Reviewers
<1>3. CASE GraceDeadlinePasses
  BY <1>3, QuietMoney
<1>4. CASE StripeActs
  BY <1>4, StripeActsMoney
<1>5. ASSUME NEW e \in sent, Deliver(e)
      PROVE  MoneyGood
  BY <1>5, OnPaymentSucceededMoney, OnChargeRefundedMoney, OnDisputeMoney DEF Deliver
<1>6. CASE UNCHANGED vars
  BY <1>6, NextGood, UntouchedMoney DEF vars, dbVars, stripeVars, transferVars, refundVars
<1> QED
  BY <1>1, <1>2, <1>3, <1>4, <1>5, <1>6 DEF Next

LEMMA MoneyInvariance == Spec => [](IInv /\ MInv)
<1>1. Init => IInv /\ MInv
  BY InitGood, InitMoney
<1>2. IInv /\ MInv /\ [Next]_vars => (IInv /\ MInv)'
  BY NextGood, NextMoney DEF StepGood, MoneyGood
<1> QED
  BY <1>1, <1>2, PTL DEF Spec

-----------------------------------------------------------------------------
\* The properties.

\* The program never sends the owner and the business together more than the
\* business paid, whichever of the settlement's two Stripe calls succeed
\* (services.py settle_pool_deal, money.py pool_settlement_for).
THEOREM SpendingIsBounded == Spec => []NeverSpendsMoreThanCollected
<1>1. MInv => NeverSpendsMoreThanCollected
  BY DEF MInv, MoneyFollowsRow, NeverSpendsMoreThanCollected
<1> QED
  BY MoneyInvariance, <1>1, PTL

\* Nothing is approved inside an open grace window on the evidence that was
\* sent back (review.py verify).
THEOREM GraceIsHonoured == Spec => GraceWindowIsHonoured
<1>1. IInv /\ MInv /\ [Next]_vars => [GraceMove]_vars
  BY NextMoney DEF MoneyGood
<1> QED
  BY MoneyInvariance, <1>1, PTL DEF Spec, GraceWindowIsHonoured, GraceMove

\* The handlers, the reviewers and Stripe's events implement the promise of
\* Escrow: the money of a deal is collected once, moves only out of a held deal,
\* and ends paid out or returned.
THEOREM EscrowIsKept == Spec => KeepsEscrow
<1>1. Init => E!EscrowInit
  BY InitMoney
<1>2. IInv /\ MInv /\ [Next]_vars => [E!EscrowNext]_(E!escrowVars)
  BY NextMoney DEF MoneyGood, EscrowMove
<1> QED
  BY MoneyInvariance, <1>1, <1>2, PTL DEF Spec, KeepsEscrow, E!EscrowSpec

-----------------------------------------------------------------------------
\* The ledger.

Holds(S, row) == \E n \in DOMAIN S : S[n] = row

\* Two rows say the same thing of the same object; a refund of the deal needs no
\* object, because there is only one.
Clash(r, s) == r.kind = s.kind /\ (r.kind = "deal_refund" \/ r.ref = s.ref)

Distinct(S) == \A m, n \in DOMAIN S : Clash(S[m], S[n]) => m = n

GivenBack == deal.paid_at \/ deal.status = "refunded"

\* What Stripe and the row say where the ledger has such a row.
RowIsTrue(row) ==
    \/ /\ row.kind = "deal_charge"
       /\ deal.funded_at /\ intent[deal.payment_intent_id] = "succeeded"
       /\ row.ref = RefTo("payment_intent", deal.payment_intent_id)
    \/ /\ row.kind = "deal_payout"
       /\ row.ref.obj = "transfer" /\ row.ref.id \in DOMAIN transfers
    \/ /\ row.kind = "deal_refund"
       /\ deal.funded_at /\ GivenBack
       /\ -row.amount <= Refunded(deal.charge_id)
       /\ \/ row.ref.obj = "refund" /\ row.ref.id \in DOMAIN refunds
          \/ row.ref.obj = "charge" /\ row.ref.id = deal.charge_id
             /\ FullyRefunded(deal.charge_id)
    \/ /\ row.kind = "dispute_lost"
       /\ row.ref.obj = "dispute" /\ row.ref.id \in DPs
       /\ disputes[row.ref.id].outcome = "lost" /\ dispute[row.ref.id].status = "lost"

ChargeEntry(p) == Entry("deal_charge", Charge, RefTo("payment_intent", p))
LossEntry(dp) == Entry("dispute_lost", -Charge, RefTo("dispute", dp))

\* Everything that happened has its row.
AllRecorded ==
    /\ deal.funded_at => Holds(ledger, ChargeEntry(deal.payment_intent_id))
    /\ \A n \in DOMAIN transfers : Holds(ledger, PayoutEntry(transfers[n].amount, n))
    /\ \A n \in DOMAIN refunds : refunds[n].by = "program" =>
          \E amount \in {refunds[n].amount, Charge} :
             MayBeRecordedAs(n, amount) /\ Holds(ledger, RefundEntry(amount, n))
    /\ \A dp \in DPs : disputes[dp].outcome = "lost" => Holds(ledger, LossEntry(dp))

DecidedIsClosed ==
    \A dp \in DPs : /\ disputes[dp].outcome # None => disputes[dp].closed_at
                    /\ disputes[dp].closed_at => disputes[dp].recorded

LInv ==
    /\ Distinct(ledger)
    /\ \A row \in LedgerRow : Holds(ledger, row) => RowIsTrue(row)
    /\ AllRecorded
    /\ DecidedIsClosed

\* A row that clashes with none of a list can be added to it.
LEMMA RowAdded ==
    ASSUME NEW S \in Seq(LedgerRow), NEW e \in LedgerRow, Distinct(S),
           \A row : Holds(S, row) => ~Clash(row, e)
    PROVE  /\ Append(S, e) \in Seq(LedgerRow)
           /\ Distinct(Append(S, e))
           /\ \A row : Holds(Append(S, e), row) <=> Holds(S, row) \/ row = e
<1> DEFINE T == Append(S, e)
<1>1. /\ DOMAIN T = 1..(Len(S) + 1) /\ DOMAIN S = 1..Len(S) /\ Len(S) \in Nat
      /\ T[Len(S) + 1] = e
      /\ T \in Seq(LedgerRow)
  OBVIOUS
<1>2. \A n \in DOMAIN S : T[n] = S[n] /\ n \in DOMAIN T /\ n # Len(S) + 1
  OBVIOUS
<1> HIDE DEF T
<1>3. \A n \in DOMAIN T : n \in DOMAIN S \/ n = Len(S) + 1
  BY <1>1
<1>4. \A row : Holds(T, row) <=> Holds(S, row) \/ row = e
  <2> TAKE row
  <2>1. ASSUME Holds(T, row) PROVE Holds(S, row) \/ row = e
    BY <1>1, <1>2, <1>3, <2>1 DEF Holds
  <2>2. ASSUME Holds(S, row) PROVE Holds(T, row)
    BY <1>2, <2>2 DEF Holds
  <2>3. Len(S) + 1 \in DOMAIN T
    BY <1>1
  <2>4. ASSUME row = e PROVE Holds(T, row)
    BY <1>1, <2>3, <2>4 DEF Holds
  <2> QED
    BY <2>1, <2>2, <2>4
<1>5. Distinct(T)
  <2> SUFFICES ASSUME NEW m \in DOMAIN T, NEW n \in DOMAIN T, Clash(T[m], T[n])
               PROVE  m = n
    BY DEF Distinct
  <2>1. CASE m \in DOMAIN S /\ n \in DOMAIN S
    BY <1>2, <2>1 DEF Distinct
  <2>2. CASE m \in DOMAIN S /\ n = Len(S) + 1
    BY <1>1, <1>2, <2>2 DEF Holds
  <2>3. CASE m = Len(S) + 1 /\ n \in DOMAIN S
    BY <1>1, <1>2, <2>3 DEF Holds, Clash
  <2> QED
    BY <1>3, <2>1, <2>2, <2>3
<1> QED
  BY <1>1, <1>4, <1>5 DEF T

\* What a step must keep for the rows of the ledger to stay true.
Steady ==
    /\ deal.funded_at => /\ deal'.funded_at /\ deal'.charge_id = deal.charge_id
                         /\ deal'.payment_intent_id = deal.payment_intent_id
    /\ GivenBack => GivenBack'
    /\ \A p \in PIs : /\ intent[p] = "succeeded" => intent'[p] = "succeeded"
                      /\ Refunded(p) <= Refunded(p)'
                      /\ FullyRefunded(p) => FullyRefunded(p)'
    /\ \A n \in DOMAIN transfers : n \in DOMAIN transfers' /\ transfers'[n] = transfers[n]
    /\ \A n \in DOMAIN refunds : n \in DOMAIN refunds' /\ refunds'[n] = refunds[n]
    /\ \A dp \in DPs : /\ disputes[dp].outcome = "lost" => disputes'[dp].outcome = "lost"
                       /\ dispute[dp].status = "lost" => dispute'[dp].status = "lost"

LEMMA RowsStayTrue ==
    ASSUME IInv, Steady, IInv', NEW row \in LedgerRow, RowIsTrue(row)
    PROVE  RowIsTrue(row)'
<1>1. deal.funded_at => deal.charge_id \in PIs /\ deal.payment_intent_id = deal.charge_id
  BY DEF IInv, StampsInOrder
<1>2. CASE row.kind = "deal_charge"
  BY <1>1, <1>2 DEF RowIsTrue, Steady
<1>3. CASE row.kind = "deal_payout"
  BY <1>3 DEF RowIsTrue, Steady
<1>4. CASE row.kind = "deal_refund"
  <2>1. PICK c \in PIs : c = deal.charge_id
    BY <1>1, <1>4 DEF RowIsTrue
  <2>2. /\ deal.funded_at /\ deal'.funded_at /\ deal'.charge_id = c
        /\ GivenBack' /\ -row.amount <= Refunded(c)
    BY <1>4, <2>1 DEF RowIsTrue, Steady
  <2>3. /\ Refunded(c) \in Int /\ Refunded(c)' \in Int /\ row.amount \in Int
        /\ Refunded(c) <= Refunded(c)'
    BY DEF IInv, TypeOK, StripeTypeOK, Refunded, LedgerRow, Steady
  <2>4. -row.amount <= Refunded(c)'
    BY <2>2, <2>3
  <2>5. \/ row.ref.obj = "refund" /\ row.ref.id \in DOMAIN refunds'
        \/ row.ref.obj = "charge" /\ row.ref.id = c /\ FullyRefunded(c)'
    BY <1>4, <2>1 DEF RowIsTrue, Steady
  <2>6. Refunded(deal.charge_id)' = Refunded(c)'
    BY <2>2 DEF Refunded
  <2>7. FullyRefunded(deal.charge_id)' = FullyRefunded(c)'
    BY <2>6 DEF FullyRefunded
  <2> QED
    BY <1>4, <2>2, <2>4, <2>5, <2>6, <2>7 DEF RowIsTrue
<1>5. CASE row.kind = "dispute_lost"
  BY <1>5 DEF RowIsTrue, Steady
<1> QED
  BY <1>2, <1>3, <1>4, <1>5 DEF RowIsTrue

\* A step that adds the rows for what it does keeps the ledger.
LEMMA LedgerStep ==
    ASSUME IInv, LInv, IInv', Steady, NEW rows,
           Distinct(ledger'),
           \A row : Holds(ledger', row) <=> Holds(ledger, row) \/ row \in rows,
           \A row \in rows : RowIsTrue(row)',
           deal'.funded_at =>
              deal.funded_at \/ ChargeEntry(deal'.payment_intent_id) \in rows,
           \A n \in DOMAIN transfers' :
              n \in DOMAIN transfers \/ PayoutEntry(transfers'[n].amount, n) \in rows,
           \A n \in DOMAIN refunds' : refunds'[n].by = "program" =>
              \/ n \in DOMAIN refunds
              \/ \E amount \in {refunds'[n].amount, Charge} :
                    MayBeRecordedAs(n, amount)' /\ RefundEntry(amount, n) \in rows,
           \A dp \in DPs : disputes'[dp].outcome = "lost" =>
              disputes[dp].outcome = "lost" \/ LossEntry(dp) \in rows,
           DecidedIsClosed'
    PROVE  LInv'
<1>1. \A row \in LedgerRow : Holds(ledger', row) => RowIsTrue(row)'
  <2> SUFFICES ASSUME NEW row \in LedgerRow, Holds(ledger', row) PROVE RowIsTrue(row)'
    OBVIOUS
  <2>1. CASE row \in rows
    BY <2>1
  <2>2. CASE Holds(ledger, row)
    BY <2>2, RowsStayTrue DEF LInv
  <2> QED
    BY <2>1, <2>2
<1>2. AllRecorded'
  <2>1. \A row : Holds(ledger, row) => Holds(ledger', row)
    OBVIOUS
  <2>2. deal'.funded_at => Holds(ledger', ChargeEntry(deal'.payment_intent_id))
    BY <2>1 DEF LInv, AllRecorded, Steady
  <2>3. ASSUME NEW n \in DOMAIN transfers'
        PROVE  Holds(ledger', PayoutEntry(transfers'[n].amount, n))
    BY <2>1 DEF LInv, AllRecorded, Steady
  <2>4. ASSUME NEW n \in DOMAIN refunds', refunds'[n].by = "program"
        PROVE  \E amount \in {refunds'[n].amount, Charge} :
                  MayBeRecordedAs(n, amount)' /\ Holds(ledger', RefundEntry(amount, n))
    <3>1. CASE n \in DOMAIN refunds
      <4>1. refunds'[n] = refunds[n] /\ refunds[n].charge \in PIs
        <5>1. refunds \in Seq(Refund)
          BY DEF IInv, TypeOK, StripeTypeOK
        <5>2. refunds[n] \in Refund
          BY <3>1, <5>1
        <5> QED
          BY <3>1, <5>2 DEF Steady, Refund
      <4>2. PICK amount \in {refunds[n].amount, Charge} :
               MayBeRecordedAs(n, amount) /\ Holds(ledger, RefundEntry(amount, n))
        BY <2>4, <3>1, <4>1 DEF LInv, AllRecorded
      <4>3. PICK p \in PIs : p = refunds[n].charge
        BY <4>1
      <4>4. FullyRefunded(p) => FullyRefunded(p)'
        BY DEF Steady
      <4>5. MayBeRecordedAs(n, amount)'
        BY <4>1, <4>2, <4>3, <4>4 DEF MayBeRecordedAs, FullyRefunded, Refunded
      <4> QED
        BY <2>1, <4>1, <4>2, <4>5
    <3>2. CASE n \notin DOMAIN refunds
      BY <2>1, <2>4, <3>2
    <3> QED
      BY <3>1, <3>2
  <2>5. ASSUME NEW dp \in DPs, disputes'[dp].outcome = "lost"
        PROVE  Holds(ledger', LossEntry(dp))
    BY <2>1, <2>5 DEF LInv, AllRecorded
  <2> QED
    BY <2>2, <2>3, <2>4, <2>5
    DEF AllRecorded, ChargeEntry, PayoutEntry, RefundEntry, LossEntry
<1> QED
  BY <1>1, <1>2 DEF LInv

\* A step that leaves the ledger, and what it mirrors, alone.
Unposted ==
    /\ UNCHANGED <<ledger, transfers>>
    /\ deal'.funded_at = deal.funded_at
    /\ \A n \in DOMAIN refunds' : n \in DOMAIN refunds \/ refunds'[n].by # "program"
    /\ \A dp \in DPs : disputes'[dp].outcome = "lost" <=> disputes[dp].outcome = "lost"
    /\ DecidedIsClosed'

LEMMA UnpostedKeeps ==
    ASSUME IInv, LInv, IInv', Steady, Unposted
    PROVE  LInv'
<1> DEFINE rows == {}
<1>1. Distinct(ledger')
  BY DEF LInv, Unposted
<1>2. \A row : Holds(ledger', row) <=> Holds(ledger, row) \/ row \in rows
  BY DEF Unposted
<1>3. \A dp \in DPs : disputes'[dp].outcome = "lost" =>
              disputes[dp].outcome = "lost" \/ LossEntry(dp) \in rows
  BY DEF Unposted
<1>4. \A row \in rows : RowIsTrue(row)'
  OBVIOUS
<1>5. /\ deal'.funded_at => deal.funded_at
      /\ \A n \in DOMAIN transfers' : n \in DOMAIN transfers
      /\ \A n \in DOMAIN refunds' : refunds'[n].by = "program" => n \in DOMAIN refunds
      /\ DecidedIsClosed'
  BY DEF Unposted
<1> HIDE DEF rows
<1> QED
  BY <1>1, <1>2, <1>3, <1>4, <1>5, LedgerStep

\* Nothing of Stripe moves but, perhaps, an intent that was not paid.
StripeKept ==
    /\ UNCHANGED <<transfers, refunds, refunded, dispute>>
    /\ \A p \in PIs : intent[p] = "succeeded" => intent'[p] = "succeeded"

LEMMA KeptIsSteady ==
    ASSUME IInv, IInv', StepGood, StripeKept,
           deal.funded_at => /\ deal'.funded_at /\ deal'.charge_id = deal.charge_id
                             /\ deal'.payment_intent_id = deal.payment_intent_id,
           \A dp \in DPs : disputes[dp].outcome = "lost" => disputes'[dp].outcome = "lost"
    PROVE  Steady
<1>1. GivenBack => GivenBack'
  <2>1. deal.paid_at => deal'.paid_at
    BY DEF IInv, PaidAsTransferred, StripeKept
  <2>2. deal.status = "refunded" => deal'.status = "refunded"
    BY TableTargets DEF StepGood, LegalMove
  <2> QED
    BY <2>1, <2>2 DEF GivenBack
<1>2. \A p \in PIs : Refunded(p) \in Int /\ Refunded(p)' = Refunded(p)
  BY DEF IInv, TypeOK, StripeTypeOK, Refunded, StripeKept
<1>3. \A p \in PIs : Refunded(p) <= Refunded(p)' /\ FullyRefunded(p)' = FullyRefunded(p)
  BY <1>2 DEF FullyRefunded
<1> QED
  BY <1>1, <1>3 DEF Steady, StripeKept

\* A step of the row alone.
LEMMA RowStepKeeps ==
    ASSUME IInv, LInv, StepGood, StripeKept, UNCHANGED <<ledger, disputes>>,
           deal'.funded_at = deal.funded_at,
           deal.funded_at => /\ deal'.charge_id = deal.charge_id
                             /\ deal'.payment_intent_id = deal.payment_intent_id
    PROVE  LInv'
<1>1. IInv'
  BY DEF StepGood
<1>2. Steady
  BY <1>1, KeptIsSteady
<1>3. Unposted
  BY DEF LInv, DecidedIsClosed, Unposted, StripeKept
<1> QED
  BY <1>1, <1>2, <1>3, UnpostedKeeps

-----------------------------------------------------------------------------
\* The handlers that post nothing.

LEMMA ApproveLedger ==
    ASSUME IInv, LInv, StepGood, NEW party, ApproveDeal(party)
    PROVE  LInv'
<1>1. deal' = Approve(deal, deal, party) /\ deal \in DealRow
  BY DEF ApproveDeal, IInv, TypeOK
<1>2. SameStamps(deal, deal')
  BY <1>1, ApproveEffect
<1>3. StripeKept /\ UNCHANGED <<ledger, disputes>>
  BY DEF ApproveDeal, StripeKept, stripeVars, transferVars, refundVars, rowVars
<1> QED
  BY <1>2, <1>3, RowStepKeeps DEF SameStamps

LEMMA DeclineLedger ==
    ASSUME IInv, LInv, StepGood, DeclineDeal
    PROVE  LInv'
<1>1. deal' = Decline(deal) /\ deal \in DealRow
  BY DEF DeclineDeal, IInv, TypeOK
<1>2. SameStamps(deal, deal')
  BY <1>1, DeclineEffect
<1>3. StripeKept /\ UNCHANGED <<ledger, disputes>>
  BY DEF DeclineDeal, StripeKept, stripeVars, transferVars, refundVars, rowVars
<1> QED
  BY <1>2, <1>3, RowStepKeeps DEF SameStamps

LEMMA SubmitLedger ==
    ASSUME IInv, LInv, StepGood, SubmitDeliveryProof
    PROVE  LInv'
<1>1. deal' = SubmitProof(deal, deal) /\ deal \in DealRow
  BY DEF SubmitDeliveryProof, IInv, TypeOK
<1>2. SameStamps(deal, deal')
  BY <1>1, SubmitProofEffect
<1>3. StripeKept /\ UNCHANGED <<ledger, disputes>>
  BY DEF SubmitDeliveryProof, StripeKept, stripeVars, transferVars, refundVars, rowVars
<1> QED
  BY <1>2, <1>3, RowStepKeeps DEF SameStamps

LEMMA QuietLedger ==
    ASSUME IInv, LInv, StepGood, RemoveSource \/ GraceDeadlinePasses
    PROVE  LInv'
<1>1. SameStamps(deal, deal')
  BY DEF RemoveSource, GraceDeadlinePasses, SameStamps, IInv, TypeOK, DealRow
<1>2. StripeKept /\ UNCHANGED <<ledger, disputes>>
  BY DEF RemoveSource, GraceDeadlinePasses, StripeKept, stripeVars, transferVars,
         refundVars, rowVars
<1> QED
  BY <1>1, <1>2, RowStepKeeps DEF SameStamps

LEMMA IntentKept ==
    ASSUME StripeTypeOK, NEW p \in PIs, NEW status, CreateIntent(p, status),
           UNCHANGED <<transferVars, refundVars, dispute>>
    PROVE  StripeKept
BY DEF StripeTypeOK, CreateIntent, StripeKept, transferVars, refundVars

LEMMA FundDealLedger ==
    ASSUME IInv, LInv, StepGood, NEW p \in PIs, FundDeal(p) \/ FundDealRefused(p)
    PROVE  LInv'
<1>1. /\ ~deal.funded_at /\ ~deal'.funded_at /\ UNCHANGED <<ledger, disputes>>
      /\ deal'.funded_at = deal.funded_at
  BY DEF FundDeal, FundDealRefused, FundAllowed, AwaitFunding, IInv, TypeOK, DealRow,
         dbVars, rowVars
<1>2. StripeKept
  BY IntentKept DEF FundDeal, FundDealRefused, IInv, TypeOK
<1> QED
  BY <1>1, <1>2, RowStepKeeps

LEMMA VerifyLedger ==
    ASSUME IInv, LInv, StepGood, NEW q, NEW target \in {"rejected", "changes_requested"},
           NEW grace \in BOOLEAN, VerifyApproved(q) \/ VerifySentBack(target, grace)
    PROVE  LInv'
<1>1. /\ deal'.funded_at = deal.funded_at /\ deal'.charge_id = deal.charge_id
      /\ deal'.payment_intent_id = deal.payment_intent_id
  BY DEF VerifyApproved, VerifySentBack, MarkVerified, SendBack, IInv, TypeOK, DealRow
<1>2. StripeKept /\ UNCHANGED <<ledger, disputes>>
  BY DEF VerifyApproved, VerifySentBack, StripeKept, stripeVars, transferVars,
         refundVars, rowVars
<1> QED
  BY <1>1, <1>2, RowStepKeeps

-----------------------------------------------------------------------------
\* The handlers that post.

LEMMA NothingClashes ==
    ASSUME IInv, LInv, NEW e,
           \/ e.kind = "deal_charge" /\ ~deal.funded_at
           \/ e.kind = "deal_payout" /\ e.ref.id \notin DOMAIN transfers
           \/ e.kind = "deal_refund" /\ ~GivenBack
           \/ e.kind = "dispute_lost" /\ disputes[e.ref.id].outcome # "lost"
    PROVE  \A row : Holds(ledger, row) => ~Clash(row, e)
<1> SUFFICES ASSUME NEW row, Holds(ledger, row), Clash(row, e) PROVE FALSE
  OBVIOUS
<1>1. RowIsTrue(row) /\ row.kind = e.kind
  BY DEF LInv, Holds, IInv, TypeOK, Clash
<1> QED
  BY <1>1 DEF Clash, RowIsTrue

LEMMA OneRowPosted ==
    ASSUME IInv, LInv, IInv', Steady, NEW e \in LedgerRow,
           ledger' = Append(ledger, e), RowIsTrue(e)',
           \A row : Holds(ledger, row) => ~Clash(row, e),
           deal'.funded_at => deal.funded_at \/ ChargeEntry(deal'.payment_intent_id) = e,
           \A n \in DOMAIN transfers' :
              n \in DOMAIN transfers \/ PayoutEntry(transfers'[n].amount, n) = e,
           \A n \in DOMAIN refunds' : refunds'[n].by = "program" =>
              \/ n \in DOMAIN refunds
              \/ \E amount \in {refunds'[n].amount, Charge} :
                    MayBeRecordedAs(n, amount)' /\ RefundEntry(amount, n) = e,
           \A dp \in DPs : disputes'[dp].outcome = "lost" =>
              disputes[dp].outcome = "lost" \/ LossEntry(dp) = e,
           DecidedIsClosed'
    PROVE  LInv'
<1> DEFINE rows == {e}
<1>1. /\ Distinct(ledger')
      /\ \A row : Holds(ledger', row) <=> Holds(ledger, row) \/ row \in rows
  BY RowAdded DEF IInv, TypeOK, LInv
<1>2. \A row \in rows : RowIsTrue(row)'
  OBVIOUS
<1>3. e \in rows
  OBVIOUS
<1> HIDE DEF rows
<1>4. deal'.funded_at => deal.funded_at \/ ChargeEntry(deal'.payment_intent_id) \in rows
  BY <1>3
<1>5. \A n \in DOMAIN transfers' :
         n \in DOMAIN transfers \/ PayoutEntry(transfers'[n].amount, n) \in rows
  BY <1>3
<1>6. \A n \in DOMAIN refunds' : refunds'[n].by = "program" =>
         \/ n \in DOMAIN refunds
         \/ \E amount \in {refunds'[n].amount, Charge} :
               MayBeRecordedAs(n, amount)' /\ RefundEntry(amount, n) \in rows
  BY <1>3
<1>7. \A dp \in DPs : disputes'[dp].outcome = "lost" =>
         disputes[dp].outcome = "lost" \/ LossEntry(dp) \in rows
  BY <1>3
<1> QED
  BY <1>1, <1>2, <1>4, <1>5, <1>6, <1>7, LedgerStep

LEMMA FundsLedger ==
    ASSUME IInv, LInv, StepGood, NEW p \in PIs, Funds(p, deal),
           UNCHANGED <<disputes, stripeVars>>
    PROVE  LInv'
<1> DEFINE e == ChargeEntry(p)
<1>1. /\ ~deal.funded_at /\ intent[p] = "succeeded" /\ ledger' = Append(ledger, e)
      /\ deal'.funded_at /\ deal'.payment_intent_id = p
  BY DEF Funds, Log, ChargeEntry, MarkFunded, IInv, TypeOK, DealRow
<1>2. e \in LedgerRow /\ e.kind = "deal_charge" /\ e.ref = RefTo("payment_intent", p)
  BY ChargeIsInt DEF ChargeEntry, Entry, LedgerRow, LedgerKind, Ref, RefTo
<1>3. StripeKept /\ intent' = intent
  BY DEF StripeKept, stripeVars, transferVars, refundVars
<1> HIDE DEF e
<1>4. Steady
  BY <1>1, <1>3, KeptIsSteady DEF StepGood
<1>5. RowIsTrue(e)'
  BY <1>1, <1>2, <1>3 DEF RowIsTrue
<1>6. \A row : Holds(ledger, row) => ~Clash(row, e)
  BY <1>1, <1>2, NothingClashes
<1>7. DecidedIsClosed'
  BY DEF LInv, DecidedIsClosed
<1>8. ChargeEntry(deal'.payment_intent_id) = e
  BY <1>1 DEF e
<1> QED
  BY <1>1, <1>2, <1>3, <1>4, <1>5, <1>6, <1>7, <1>8, OneRowPosted DEF StripeKept, StepGood

\* The Transfer of a payout is the first.
LEMMA FirstTransfer ==
    ASSUME IInv, ReleaseAllowed(deal), NEW amount \in Int,
           CreateTransfer(deal.charge_id, amount)
    PROVE  /\ DOMAIN transfers = {} /\ DOMAIN transfers' = {1} /\ Len(transfers') = 1
           /\ transfers'[1].amount = amount
           /\ PayoutEntry(amount, 1) \in LedgerRow
           /\ PayoutEntry(amount, 1).kind = "deal_payout"
           /\ PayoutEntry(amount, 1).ref = RefTo("transfer", 1)
           /\ ~deal.paid_at /\ deal.status = "verified" /\ deal.funded_at /\ deal.verified_at
<1>1. /\ ~deal.paid_at /\ deal.status = "verified" /\ deal.funded_at /\ deal.verified_at
  BY DEF ReleaseAllowed, PayoutEligible
<1>2. transfers = <<>>
  BY <1>1 DEF IInv, PaidAsTransferred
<1>3. transfers' = Append(<<>>, [charge |-> deal.charge_id, amount |-> amount])
  BY <1>2 DEF CreateTransfer
<1>4. DOMAIN transfers = {} /\ DOMAIN transfers' = {1} /\ Len(transfers') = 1
  BY <1>2, <1>3
<1>5. transfers'[1].amount = amount
  BY <1>3
<1>6. /\ PayoutEntry(amount, 1) \in LedgerRow
      /\ PayoutEntry(amount, 1).kind = "deal_payout"
      /\ PayoutEntry(amount, 1).ref = RefTo("transfer", 1)
  BY DEF PayoutEntry, Entry, LedgerRow, LedgerKind, Ref, RefTo
<1> QED
  BY <1>1, <1>4, <1>5, <1>6

LEMMA PayoutPosted ==
    ASSUME IInv, LInv, StepGood, ReleaseAllowed(deal), NEW amount \in Int,
           CreateTransfer(deal.charge_id, amount),
           ledger' = Append(ledger, PayoutEntry(amount, Len(transfers'))),
           UNCHANGED <<disputes, intent, refundVars, dispute>>,
           deal'.funded_at, deal'.charge_id = deal.charge_id,
           deal'.payment_intent_id = deal.payment_intent_id, deal'.paid_at
    PROVE  LInv'
<1> DEFINE e == PayoutEntry(amount, 1)
<1>1. /\ DOMAIN transfers = {} /\ DOMAIN transfers' = {1}
      /\ transfers'[1].amount = amount
      /\ e \in LedgerRow /\ e.kind = "deal_payout" /\ e.ref = RefTo("transfer", 1)
      /\ ledger' = Append(ledger, e) /\ deal.funded_at
  BY FirstTransfer
<1>2. \A n \in DOMAIN transfers' : PayoutEntry(transfers'[n].amount, n) = e
  BY <1>1
<1> HIDE DEF e
<1>3. \A p \in PIs : /\ Refunded(p) <= Refunded(p)'
                     /\ FullyRefunded(p) => FullyRefunded(p)'
  BY DEF IInv, TypeOK, StripeTypeOK, refundVars, Refunded, FullyRefunded
<1>4. Steady
  BY <1>1, <1>3 DEF Steady, GivenBack, refundVars
<1>5. RowIsTrue(e)'
  BY <1>1 DEF RowIsTrue, RefTo
<1>6. \A row : Holds(ledger, row) => ~Clash(row, e)
  BY <1>1, NothingClashes DEF RefTo
<1>7. DecidedIsClosed'
  BY DEF LInv, DecidedIsClosed
<1> QED
  BY <1>1, <1>2, <1>4, <1>5, <1>6, <1>7, OneRowPosted DEF refundVars, StepGood

LEMMA ReleasePayoutLedger ==
    ASSUME IInv, LInv, StepGood, ReleasePayout
    PROVE  LInv'
<1>1. /\ ReleaseAllowed(deal) /\ CreateTransfer(deal.charge_id, FixedNet)
      /\ deal' = MarkPaid(deal, Len(transfers')) /\ deal \in DealRow /\ deal.funded_at
      /\ ledger' = Append(ledger, PayoutEntry(FixedNet, Len(transfers')))
      /\ UNCHANGED <<disputes, intent, refundVars, dispute>>
  BY DEF ReleasePayout, IInv, TypeOK, Log, ReleaseAllowed
<1>2. /\ deal'.funded_at /\ deal'.charge_id = deal.charge_id
      /\ deal'.payment_intent_id = deal.payment_intent_id /\ deal'.paid_at
  BY <1>1 DEF MarkPaid, DealRow
<1> QED
  BY <1>1, <1>2, FixedNetIsInt, PayoutPosted

\* The Refund that is appended, and what it does to what was refunded.
LEMMA RefundAppended ==
    ASSUME StripeTypeOK, NEW p \in PIs, NEW amount \in Int,
           NEW by \in {"program", "dashboard"}, CreateRefund(p, amount, by)
    PROVE  /\ Len(refunds) \in Nat /\ Len(refunds') = Len(refunds) + 1
           /\ DOMAIN refunds' = DOMAIN refunds \cup {Len(refunds')}
           /\ Len(refunds') \notin DOMAIN refunds
           /\ \A n \in DOMAIN refunds : refunds'[n] = refunds[n]
           /\ refunds'[Len(refunds')].amount = amount
           /\ refunds'[Len(refunds')].by = by
           /\ \A q \in PIs : /\ Refunded(q) <= Refunded(q)'
                             /\ FullyRefunded(q) => FullyRefunded(q)'
           /\ Refunded(p)' = Refunded(p) + amount
<1>1. /\ refunds \in Seq(Refund)
      /\ refunds' = Append(refunds, [charge |-> p, amount |-> amount, by |-> by])
  BY DEF StripeTypeOK, CreateRefund
<1>2. /\ Len(refunds) \in Nat /\ Len(refunds') = Len(refunds) + 1
      /\ DOMAIN refunds = 1..Len(refunds) /\ DOMAIN refunds' = 1..(Len(refunds) + 1)
      /\ \A n \in DOMAIN refunds : refunds'[n] = refunds[n]
      /\ refunds'[Len(refunds) + 1] = [charge |-> p, amount |-> amount, by |-> by]
  BY <1>1
<1>3. \A q \in PIs : refunded[q].program \in Nat /\ refunded[q].dashboard \in Nat
  BY DEF StripeTypeOK
<1>4. /\ amount > 0 /\ Refunded(p) + amount <= Charge
      /\ \A q \in PIs \ {p} : refunded'[q] = refunded[q]
  BY RefundDraws
<1>5. Refunded(p)' = Refunded(p) + amount
  <2>1. CASE by = "program"
    BY <1>3, <2>1, RefundDraws DEF Refunded
  <2>2. CASE by = "dashboard"
    BY <1>3, <2>2, RefundDraws DEF Refunded
  <2> QED
    BY <2>1, <2>2
<1>6. ASSUME NEW q \in PIs
      PROVE  Refunded(q) <= Refunded(q)' /\ (FullyRefunded(q) => FullyRefunded(q)')
  <2>1. Refunded(q) \in Int
    BY <1>3 DEF Refunded
  <2>2. CASE q = p
    BY <1>4, <1>5, <2>1, <2>2, ChargeIsInt DEF FullyRefunded
  <2>3. CASE q # p
    <3>1. Refunded(q)' = Refunded(q)
      BY <1>4, <2>3 DEF Refunded
    <3> QED
      BY <2>1, <3>1 DEF FullyRefunded
  <2> QED
    BY <2>2, <2>3
<1>7. /\ DOMAIN refunds' = DOMAIN refunds \cup {Len(refunds')}
      /\ Len(refunds') \notin DOMAIN refunds
  BY <1>2
<1> QED
  BY <1>2, <1>5, <1>6, <1>7

LEMMA RefundEntryFacts ==
    ASSUME NEW amount \in Int, NEW n \in Nat
    PROVE  /\ RefundEntry(amount, n) \in LedgerRow
           /\ RefundEntry(amount, n).kind = "deal_refund"
           /\ RefundEntry(amount, n).amount = -amount
           /\ RefundEntry(amount, n).ref = RefTo("refund", n)
BY DEF RefundEntry, Entry, LedgerRow, LedgerKind, Ref, RefTo

\* The Refund returns the last of the charge, and the row says the whole of it.
LEMMA RefundDealLedger ==
    ASSUME IInv, MInv, LInv, StepGood, RefundDeal
    PROVE  LInv'
<1>0. deal.funded_at
  BY DEF RefundDeal, RefundAllowed
<1>a. PICK p \in PIs : p = deal.charge_id
  BY <1>0 DEF IInv, StampsInOrder
<1>b. PICK n : n = Len(refunds')
  OBVIOUS
<1> DEFINE amount == Charge - Refunded(p)
           e == RefundEntry(Charge, n)
<1>1. /\ deal \in DealRow /\ deal.funded_at /\ ~deal.paid_at /\ deal.dispute_status = None
      /\ CanTransition(deal.status, "refunded")
      /\ deal' = MarkRefunded(deal, n) /\ ledger' = Append(ledger, e)
      /\ UNCHANGED <<disputes, intent, transferVars, dispute>>
  BY <1>b DEF RefundDeal, RefundAllowed, NoOpenDispute, Log, IInv, TypeOK
<1>2. p \in PIs /\ deal.payment_intent_id = p /\ Charge \in Int
  BY <1>1, <1>a, ChargeIsInt DEF IInv, StampsInOrder
<1>3. refunded[p].program \in Nat /\ refunded[p].dashboard \in Nat
  BY <1>2 DEF IInv, TypeOK, StripeTypeOK
<1>4. amount \in Int /\ CreateRefund(p, amount, "program")
  BY <1>2, <1>3 DEF RefundDeal, Refunded
<1>5. ~GivenBack
  BY <1>1, TableTargets DEF GivenBack
<1>8. /\ deal'.funded_at /\ deal'.charge_id = p /\ deal'.payment_intent_id = p
      /\ deal'.status = "refunded"
  BY <1>1, <1>2, <1>a DEF MarkRefunded, DealRow
<1> HIDE DEF amount
<1>9. /\ Len(refunds) \in Nat /\ n = Len(refunds) + 1
      /\ DOMAIN refunds' = DOMAIN refunds \cup {n}
      /\ n \notin DOMAIN refunds
      /\ \A m \in DOMAIN refunds : refunds'[m] = refunds[m]
      /\ refunds'[n].amount = amount
      /\ \A q \in PIs : /\ Refunded(q) <= Refunded(q)'
                        /\ FullyRefunded(q) => FullyRefunded(q)'
      /\ Refunded(p)' = Refunded(p) + amount
  BY <1>2, <1>4, <1>b, RefundAppended DEF IInv, TypeOK
<1>10. n \in Nat
  BY <1>9
<1>11. /\ e \in LedgerRow /\ e.kind = "deal_refund" /\ e.amount = -Charge
       /\ e.ref = RefTo("refund", n)
  BY <1>2, <1>10, RefundEntryFacts
<1>12. refunds'[n].charge = p
  BY <1>2, <1>4, <1>9 DEF CreateRefund, IInv, TypeOK, StripeTypeOK
<1>13. Refunded(p)' = Charge
  BY <1>2, <1>3, <1>9 DEF Refunded, amount
<1>14. \A m \in DOMAIN refunds' : refunds'[m].by = "program" =>
          \/ m \in DOMAIN refunds
          \/ \E a \in {refunds'[m].amount, Charge} :
                MayBeRecordedAs(m, a)' /\ RefundEntry(a, m) = e
  <2>1. MayBeRecordedAs(n, Charge)'
    BY <1>12, <1>13 DEF MayBeRecordedAs, FullyRefunded, Refunded
  <2> QED
    BY <1>9, <2>1
<1> HIDE DEF e
<1>15. Steady
  BY <1>1, <1>2, <1>a, <1>5, <1>8, <1>9 DEF Steady, transferVars
<1>16. RowIsTrue(e)'
  <2>1. Refunded(deal.charge_id)' = Refunded(p)'
    BY <1>8 DEF Refunded
  <2>2. -e.amount <= Refunded(p)'
    BY <1>2, <1>11, <1>13
  <2> QED
    BY <1>8, <1>9, <1>11, <2>1, <2>2 DEF RowIsTrue, GivenBack, RefTo
<1>17. \A row : Holds(ledger, row) => ~Clash(row, e)
  BY <1>5, <1>11, NothingClashes
<1>18. DecidedIsClosed'
  BY <1>1 DEF LInv, DecidedIsClosed
<1> QED
  BY <1>1, <1>11, <1>14, <1>15, <1>16, <1>17, <1>18, OneRowPosted
  DEF StepGood, transferVars

\* The settlement that also returns what the pool did not earn.
LEMMA PayoutAndRefundPosted ==
    ASSUME IInv, LInv, StepGood, ReleaseAllowed(deal), NEW net \in Int, NEW unused \in Int,
           CreateTransfer(deal.charge_id, net),
           CreateRefund(deal.charge_id, unused, "program"),
           ledger' = ledger \o <<PayoutEntry(net, Len(transfers')),
                                 RefundEntry(unused, Len(refunds'))>>,
           UNCHANGED <<disputes, intent, dispute>>,
           deal'.funded_at, deal'.charge_id = deal.charge_id,
           deal'.payment_intent_id = deal.payment_intent_id, deal'.paid_at
    PROVE  LInv'
<1>a. PICK p \in PIs : p = deal.charge_id
  <2>1. deal.funded_at
    BY DEF ReleaseAllowed
  <2> QED
    BY <2>1 DEF IInv, StampsInOrder
<1>b. PICK n : n = Len(refunds')
  OBVIOUS
<1> DEFINE a == PayoutEntry(net, 1)
           b == RefundEntry(unused, n)
           rows == {a, b}
<1>1. /\ DOMAIN transfers = {} /\ DOMAIN transfers' = {1} /\ Len(transfers') = 1
      /\ transfers'[1].amount = net
      /\ a \in LedgerRow /\ a.kind = "deal_payout" /\ a.ref = RefTo("transfer", 1)
      /\ ~deal.paid_at /\ deal.status = "verified" /\ deal.funded_at
  BY FirstTransfer
<1>3. CreateRefund(p, unused, "program")
  BY <1>a
<1>4. /\ Len(refunds) \in Nat /\ n = Len(refunds) + 1
      /\ DOMAIN refunds' = DOMAIN refunds \cup {n}
      /\ n \notin DOMAIN refunds
      /\ \A m \in DOMAIN refunds : refunds'[m] = refunds[m]
      /\ refunds'[n].amount = unused
      /\ \A q \in PIs : /\ Refunded(q) <= Refunded(q)'
                        /\ FullyRefunded(q) => FullyRefunded(q)'
      /\ Refunded(p)' = Refunded(p) + unused
  BY <1>b, <1>3, RefundAppended DEF IInv, TypeOK
<1>5. ledger' = Append(Append(ledger, a), b)
  <2> HIDE DEF a, b
  <2>1. ledger' = ledger \o <<a, b>>
    BY <1>1, <1>b DEF a, b
  <2>2. ledger \in Seq(LedgerRow) /\ b \in LedgerRow
    BY <1>4, RefundEntryFacts DEF IInv, TypeOK, b
  <2> QED
    BY <1>1, <2>1, <2>2
<1>6. n \in Nat
  BY <1>4
<1>7. /\ b \in LedgerRow /\ b.kind = "deal_refund" /\ b.amount = -unused
      /\ b.ref = RefTo("refund", n)
  BY <1>6, RefundEntryFacts
<1>8. \A m \in DOMAIN transfers' : PayoutEntry(transfers'[m].amount, m) \in rows
  BY <1>1
<1>9. \A m \in DOMAIN refunds' : refunds'[m].by = "program" =>
         \/ m \in DOMAIN refunds
         \/ \E amount \in {refunds'[m].amount, Charge} :
               MayBeRecordedAs(m, amount)' /\ RefundEntry(amount, m) \in rows
  BY <1>4 DEF MayBeRecordedAs
<1>10. \A row : row \in rows <=> row = a \/ row = b
  OBVIOUS
<1> HIDE DEF a, b, rows
<1>11. ~GivenBack
  BY <1>1 DEF GivenBack
<1>12. \A row : Holds(ledger, row) => ~Clash(row, a)
  BY <1>1, NothingClashes DEF RefTo
<1>13. \A row : Holds(ledger, row) => ~Clash(row, b)
  BY <1>7, <1>11, NothingClashes
<1>14. PICK S : S = Append(ledger, a)
  OBVIOUS
<1>15. /\ S \in Seq(LedgerRow) /\ Distinct(S)
       /\ \A row : Holds(S, row) <=> Holds(ledger, row) \/ row = a
  BY <1>1, <1>12, <1>14, RowAdded DEF IInv, TypeOK, LInv
<1>16. \A row : Holds(S, row) => ~Clash(row, b)
  <2>1. ~Clash(a, b)
    BY <1>1, <1>7 DEF Clash
  <2> QED
    BY <1>13, <1>15, <2>1
<1>17. /\ Distinct(ledger')
       /\ \A row : Holds(ledger', row) <=> Holds(S, row) \/ row = b
  <2>1. /\ Distinct(Append(S, b))
        /\ \A row : Holds(Append(S, b), row) <=> Holds(S, row) \/ row = b
    BY <1>7, <1>15, <1>16, RowAdded
  <2>2. ledger' = Append(S, b)
    BY <1>5, <1>14
  <2> QED
    BY <2>1, <2>2
<1>18. \A row : Holds(ledger', row) <=> Holds(ledger, row) \/ row \in rows
  BY <1>10, <1>15, <1>17
<1>19. Steady
  BY <1>1, <1>4 DEF Steady, GivenBack
<1>20. RowIsTrue(a)'
  BY <1>1 DEF RowIsTrue, RefTo
<1>21. RowIsTrue(b)'
  <2>1. Refunded(deal.charge_id)' = Refunded(p)'
    BY <1>a DEF Refunded
  <2>2. Refunded(p) \in Nat
    BY DEF IInv, TypeOK, StripeTypeOK, Refunded
  <2>3. -b.amount <= Refunded(p)'
    BY <1>4, <1>7, <2>2
  <2> QED
    BY <1>4, <1>7, <2>1, <2>3 DEF RowIsTrue, GivenBack, RefTo
<1>22. \A row \in rows : RowIsTrue(row)'
  BY <1>10, <1>20, <1>21
<1>23. DecidedIsClosed'
  BY DEF LInv, DecidedIsClosed
<1> QED
  BY <1>1, <1>8, <1>9, <1>17, <1>18, <1>19, <1>22, <1>23, LedgerStep DEF StepGood

LEMMA SettlePoolLedger ==
    ASSUME IInv, LInv, StepGood, NEW refundable \in BOOLEAN, SettlePool(refundable)
    PROVE  LInv'
<1> DEFINE pool    == PoolSettlementFor(Terms, verified_quantity)
           net     == FixedNet + pool.pool_net_to_owner
           unused  == pool.refund_to_business
           settled == MarkSettled(deal, Len(transfers'), pool.pool_gross)
<1>1. /\ deal \in DealRow /\ ReleaseAllowed(deal)
      /\ CreateTransfer(deal.charge_id, net)
      /\ verified_quantity \in Nat
      /\ UNCHANGED <<disputes, intent, dispute>>
  BY DEF IInv, TypeOK, SettlePool, SettleAllowed
<1>2. net \in Int /\ unused \in Int /\ pool.pool_gross \in Nat
  BY <1>1, PoolTypes, FixedNetIsInt
<1>3. deal.funded_at /\ deal.payment_intent_id = deal.charge_id
  BY <1>1 DEF ReleaseAllowed, IInv, StampsInOrder
<1>4. \/ /\ CreateRefund(deal.payment_intent_id, unused, "program")
         /\ deal' = MarkPoolRefunded(settled, Len(refunds'), unused)
         /\ ledger' = ledger \o <<PayoutEntry(net, Len(transfers')),
                                  RefundEntry(unused, Len(refunds'))>>
      \/ /\ deal' = [settled EXCEPT !.pool_refunded_amount = 0] \/ deal' = settled
         /\ ledger' = Append(ledger, PayoutEntry(net, Len(transfers')))
         /\ UNCHANGED refundVars
  BY DEF SettlePool
<1>5. /\ settled.funded_at = deal.funded_at /\ settled.charge_id = deal.charge_id
      /\ settled.payment_intent_id = deal.payment_intent_id /\ settled.paid_at
      /\ settled = [deal EXCEPT !.transfer_id = Len(transfers'), !.paid_at = TRUE,
                                !.status = "paid", !.pool_released_amount = pool.pool_gross]
  <2> HIDE DEF pool
  <2> QED
    BY <1>1 DEF MarkSettled, MarkPaid, DealRow
<1> HIDE DEF net, unused, settled, pool
<1>6. /\ deal'.funded_at /\ deal'.charge_id = deal.charge_id
      /\ deal'.payment_intent_id = deal.payment_intent_id /\ deal'.paid_at
  BY <1>1, <1>3, <1>4, <1>5 DEF MarkPoolRefunded, DealRow
<1>7. CASE UNCHANGED refundVars /\ ledger' = Append(ledger, PayoutEntry(net, Len(transfers')))
  <2>1. PICK amount \in Int : amount = net
    BY <1>2
  <2> QED
    BY <1>1, <1>6, <1>7, <2>1, PayoutPosted
<1>8. CASE /\ CreateRefund(deal.payment_intent_id, unused, "program")
           /\ ledger' = ledger \o <<PayoutEntry(net, Len(transfers')),
                                    RefundEntry(unused, Len(refunds'))>>
  <2>1. PICK amount \in Int : amount = net
    BY <1>2
  <2>2. PICK back \in Int : back = unused
    BY <1>2
  <2>3. CreateRefund(deal.charge_id, back, "program")
    BY <1>3, <1>8, <2>2
  <2>4. /\ CreateTransfer(deal.charge_id, amount)
        /\ ledger' = ledger \o <<PayoutEntry(amount, Len(transfers')),
                                 RefundEntry(back, Len(refunds'))>>
    BY <1>1, <1>8, <2>1, <2>2
  <2> QED
    BY <1>1, <1>6, <2>3, <2>4, PayoutAndRefundPosted
<1> QED
  BY <1>4, <1>7, <1>8

-----------------------------------------------------------------------------
\* Stripe's events.

LEMMA OnPaymentLedger ==
    ASSUME IInv, LInv, StepGood, NEW e \in sent, OnPaymentSucceeded(e, deal)
    PROVE  LInv'
<1>1. e.obj \in PIs
  BY DEF OnPaymentSucceeded, IInv, EventsNameObjects
<1>2. CASE Funds(e.obj, deal)
  BY <1>1, <1>2, FundsLedger DEF OnPaymentSucceeded
<1>3. CASE UNCHANGED <<deal, ledger>>
  <2>1. StripeKept
    BY DEF OnPaymentSucceeded, StripeKept, stripeVars, transferVars, refundVars
  <2> QED
    BY <1>3, <2>1, RowStepKeeps DEF OnPaymentSucceeded
<1> QED
  BY <1>2, <1>3 DEF OnPaymentSucceeded

\* charge.refunded is posted only for a deal to which nothing was returned.
LEMMA OnChargeRefundedLedger ==
    ASSUME IInv, MInv, LInv, StepGood, NEW e \in sent, OnChargeRefunded(e, deal)
    PROVE  LInv'
<1>1. StripeKept /\ disputes' = disputes
  BY DEF OnChargeRefunded, StripeKept, stripeVars, transferVars, refundVars
<1>2. CASE UNCHANGED <<deal, ledger>>
  BY <1>1, <1>2, RowStepKeeps
<1>3. CASE ~UNCHANGED <<deal, ledger>>
  <2>1. e.obj \in DOMAIN refunds /\ refunds[e.obj] \in Refund
    BY DEF OnChargeRefunded, IInv, EventsNameObjects, TypeOK, StripeTypeOK
  <2>2. PICK p \in PIs : p = refunds[e.obj].charge
    BY <2>1 DEF Refund
  <2>r. PICK r \in Nat : r = Refunded(p)
    BY DEF IInv, TypeOK, StripeTypeOK, Refunded
  <2> DEFINE b == Entry("deal_refund", -r, RefTo("charge", p))
  <2>3. /\ deal.charge_id = p /\ deal.status # "refunded" /\ FullyRefunded(p)
        /\ CanTransition(deal.status, "refunded")
        /\ deal' = [deal EXCEPT !.status = "refunded"] /\ ledger' = Append(ledger, b)
    BY <1>3, <2>2, <2>r DEF OnChargeRefunded, Log
  <2>4. /\ deal.funded_at /\ ~GivenBack
    <3>1. deal.status \notin BeforeFunding
      BY <2>3, TableTargets
    <3>2. deal.paid_at => deal.status = "paid"
      BY DEF IInv, StampsInOrder
    <3> QED
      BY <2>3, <3>1, <3>2, TableSources DEF GivenBack, MInv, FundedIsStatus
  <2>5. /\ deal'.funded_at = deal.funded_at /\ deal'.charge_id = deal.charge_id
        /\ deal'.payment_intent_id = deal.payment_intent_id /\ deal'.status = "refunded"
    BY <2>3 DEF IInv, TypeOK, DealRow
  <2>6. /\ b \in LedgerRow /\ b.kind = "deal_refund" /\ b.amount = -r
        /\ b.ref = RefTo("charge", p)
    BY DEF Entry, LedgerRow, LedgerKind, Ref, RefTo
  <2> HIDE DEF b
  <2>7. Steady
    BY <1>1, <2>4, <2>5, KeptIsSteady DEF StepGood
  <2>8. RowIsTrue(b)'
    <3>1. Refunded(deal.charge_id)' = r
      BY <1>1, <2>3, <2>5, <2>r DEF Refunded, StripeKept
    <3>2. FullyRefunded(deal.charge_id)' /\ -b.amount <= r
      BY <2>3, <2>6, <2>r, <3>1 DEF FullyRefunded
    <3> QED
      BY <2>3, <2>4, <2>5, <2>6, <3>1, <3>2 DEF RowIsTrue, GivenBack, RefTo
  <2>9. \A row : Holds(ledger, row) => ~Clash(row, b)
    BY <2>4, <2>6, NothingClashes
  <2>10. DecidedIsClosed'
    BY <1>1 DEF LInv, DecidedIsClosed
  <2> QED
    BY <1>1, <2>3, <2>4, <2>6, <2>7, <2>8, <2>9, <2>10, OneRowPosted DEF StripeKept, StepGood
<1> QED
  BY <1>2, <1>3

\* What a dispute's row says once the dispute is on record.
LEMMA RowForFacts ==
    ASSUME IInv, DecidedIsClosed, NEW dp \in DPs, dispute[dp].status \in DisputeStatus
    PROVE  LET row == RowFor(dp, deal)
           IN  /\ row \in DisputeRow /\ row.recorded
               /\ row.outcome = disputes[dp].outcome
               /\ row.closed_at = disputes[dp].closed_at
<1>1. RowFor(dp, deal) \in DisputeRow
  BY DealForEffect
<1>2. CASE disputes[dp].recorded
  BY <1>1, <1>2 DEF RowFor
<1>3. CASE ~disputes[dp].recorded
  <2>1. ~disputes[dp].closed_at /\ disputes[dp].outcome = None
    BY <1>3 DEF DecidedIsClosed
  <2>2. disputes[dp].closed_at = FALSE
    BY <2>1 DEF IInv, TypeOK, DisputeRow
  <2> QED
    BY <1>1, <1>3, <2>1, <2>2 DEF RowFor
<1> QED
  BY <1>2, <1>3

\* A dispute event that decides nothing.
LEMMA UndecidedLedger ==
    ASSUME IInv, LInv, StepGood, NEW dp \in DPs, dispute[dp].status \in DisputeStatus,
           UNCHANGED <<ledger, stripeVars>>,
           deal'.funded_at = deal.funded_at, deal'.charge_id = deal.charge_id,
           deal'.payment_intent_id = deal.payment_intent_id,
           NEW row \in DisputeRow, disputes' = [disputes EXCEPT ![dp] = row],
           row.recorded,
           row.outcome = "lost" <=> disputes[dp].outcome = "lost",
           row.outcome # None => row.closed_at
    PROVE  LInv'
<1>1. /\ StripeKept /\ UNCHANGED <<transfers, refunds>>
  BY DEF StripeKept, stripeVars, transferVars, refundVars
<1>2. disputes'[dp] = row /\ \A d \in DPs \ {dp} : disputes'[d] = disputes[d]
  BY DEF IInv, TypeOK
<1>3. \A d \in DPs : disputes'[d].outcome = "lost" <=> disputes[d].outcome = "lost"
  BY <1>2
<1>4. DecidedIsClosed'
  BY <1>2 DEF LInv, DecidedIsClosed
<1>5. Steady
  BY <1>1, <1>3, KeptIsSteady DEF StepGood
<1>6. Unposted
  BY <1>1, <1>3, <1>4 DEF Unposted
<1> QED
  BY <1>5, <1>6, UnpostedKeeps DEF StepGood

\* The columns of the deal that a dispute leaves alone.
LEMMA DisputeColumns ==
    ASSUME IInv, NEW dp \in DPs, EnsureOpen(dp, deal) \/ Update(dp, deal) \/ Close(dp, deal)
    PROVE  /\ deal'.funded_at = deal.funded_at /\ deal'.charge_id = deal.charge_id
           /\ deal'.payment_intent_id = deal.payment_intent_id
BY DEF IInv, TypeOK, DealRow, EnsureOpen, Update, Close, Thawed, CloseDispute, DealFor,
       OpenDispute

LEMMA LostPosted ==
    ASSUME IInv, LInv, StepGood, NEW dp \in DPs, dispute[dp].status = "lost",
           ~disputes[dp].closed_at, UNCHANGED stripeVars,
           ledger' = Append(ledger, LossEntry(dp)),
           deal'.funded_at = deal.funded_at, deal'.charge_id = deal.charge_id,
           deal'.payment_intent_id = deal.payment_intent_id,
           NEW row \in DisputeRow, disputes' = [disputes EXCEPT ![dp] = row],
           row.recorded, row.closed_at, row.outcome = "lost"
    PROVE  LInv'
<1> DEFINE e == LossEntry(dp)
<1>1. /\ StripeKept /\ UNCHANGED <<transfers, refunds>>
  BY DEF StripeKept, stripeVars, transferVars, refundVars
<1>2. disputes'[dp] = row /\ \A d \in DPs \ {dp} : disputes'[d] = disputes[d]
  BY DEF IInv, TypeOK
<1>3. /\ e \in LedgerRow /\ e.kind = "dispute_lost" /\ e.ref = RefTo("dispute", dp)
  BY ChargeIsInt DEF LossEntry, Entry, LedgerRow, LedgerKind, Ref, RefTo
<1>4. \A d \in DPs : disputes'[d].outcome = "lost" =>
         disputes[d].outcome = "lost" \/ LossEntry(d) = e
  BY <1>2
<1> HIDE DEF e
<1>5. DecidedIsClosed'
  BY <1>2 DEF LInv, DecidedIsClosed
<1>6. disputes[dp].outcome # "lost"
  BY NoneAssumption DEF LInv, DecidedIsClosed, DisputeStatus
<1>7. Steady
  <2>1. \A d \in DPs : disputes[d].outcome = "lost" => disputes'[d].outcome = "lost"
    BY <1>2
  <2> QED
    BY <1>1, <2>1, KeptIsSteady DEF StepGood
<1>8. RowIsTrue(e)'
  BY <1>1, <1>2, <1>3 DEF RowIsTrue, RefTo, StripeKept
<1>9. \A r : Holds(ledger, r) => ~Clash(r, e)
  BY <1>3, <1>6, NothingClashes DEF RefTo
<1>10. ledger' = Append(ledger, e)
  BY DEF e
<1> QED
  BY <1>1, <1>3, <1>4, <1>5, <1>7, <1>8, <1>9, <1>10, OneRowPosted DEF StepGood

LEMMA OnDisputeLedger ==
    ASSUME IInv, LInv, StepGood, NEW e \in sent, OnDispute(e, deal)
    PROVE  LInv'
<1>1. /\ e.obj \in DPs /\ dispute[e.obj].status \in DisputeStatus
      /\ UNCHANGED stripeVars
  BY DEF OnDispute, IInv, EventsNameObjects
<1>2. PICK dp \in DPs : dp = e.obj
  BY <1>1
<1> DEFINE row == RowFor(dp, deal)
<1>3. /\ row \in DisputeRow /\ row.recorded
      /\ row.outcome = disputes[dp].outcome
      /\ row.closed_at = disputes[dp].closed_at
  BY <1>1, <1>2, RowForFacts DEF LInv
<1>4. CASE UNCHANGED <<deal, disputes, ledger>>
  <2>1. StripeKept
    BY <1>1 DEF StripeKept, stripeVars, transferVars, refundVars
  <2> QED
    BY <1>4, <2>1, RowStepKeeps
<1>5. CASE EnsureOpen(dp, deal)
  <2>1. disputes' = [disputes EXCEPT ![dp] = row] /\ UNCHANGED ledger
    BY <1>5 DEF EnsureOpen
  <2> HIDE DEF row
  <2>2. PICK r \in DisputeRow : r = row
    BY <1>3
  <2>3. /\ deal'.funded_at = deal.funded_at /\ deal'.charge_id = deal.charge_id
        /\ deal'.payment_intent_id = deal.payment_intent_id
    BY <1>5, DisputeColumns
  <2>4. /\ r.recorded
        /\ r.outcome = "lost" <=> disputes[dp].outcome = "lost"
        /\ r.outcome # None => r.closed_at
    BY <1>3, <2>2 DEF LInv, DecidedIsClosed
  <2>5. dispute[dp].status \in DisputeStatus /\ disputes' = [disputes EXCEPT ![dp] = r]
    BY <1>1, <1>2, <2>1, <2>2
  <2> QED
    BY <1>1, <2>1, <2>3, <2>4, <2>5, UndecidedLedger
<1>6. CASE Update(dp, deal)
  <2>1. /\ disputes' = [disputes EXCEPT ![dp] = [row EXCEPT !.status = dispute[dp].status]]
        /\ UNCHANGED ledger
    BY <1>6 DEF Update
  <2> HIDE DEF row
  <2>2. PICK r : r = [row EXCEPT !.status = dispute[dp].status]
    OBVIOUS
  <2>3. /\ r \in DisputeRow /\ r.recorded
        /\ r.outcome = "lost" <=> disputes[dp].outcome = "lost"
        /\ r.outcome # None => r.closed_at
    BY <1>1, <1>2, <1>3, <2>2 DEF DisputeRow, LInv, DecidedIsClosed
  <2>4. /\ deal'.funded_at = deal.funded_at /\ deal'.charge_id = deal.charge_id
        /\ deal'.payment_intent_id = deal.payment_intent_id
    BY <1>6, DisputeColumns
  <2>5. dispute[dp].status \in DisputeStatus /\ disputes' = [disputes EXCEPT ![dp] = r]
    BY <1>1, <1>2, <2>1, <2>2
  <2> QED
    BY <1>1, <2>1, <2>3, <2>4, <2>5, UndecidedLedger
<1>7. CASE Close(dp, deal)
  <2>1. PICK r : r = [row EXCEPT !.status = dispute[dp].status,
                                 !.outcome = dispute[dp].status, !.closed_at = TRUE]
    OBVIOUS
  <2>2. /\ disputes' = [disputes EXCEPT ![dp] = r] /\ ~disputes[dp].closed_at
        /\ \/ dispute[dp].status = "lost" /\ ledger' = Append(ledger, LossEntry(dp))
           \/ dispute[dp].status = "won" /\ UNCHANGED ledger
    BY <1>7, <2>1 DEF Close, Decide, Log, LossEntry
  <2> HIDE DEF row
  <2>3. r \in DisputeRow /\ r.recorded /\ r.closed_at /\ r.outcome = dispute[dp].status
    BY <1>1, <1>2, <1>3, <2>1 DEF DisputeRow
  <2>4. disputes[dp].outcome # "lost"
    BY <2>2, NoneAssumption DEF LInv, DecidedIsClosed, DisputeStatus
  <2>5. CASE dispute[dp].status = "lost"
    BY <1>1, <1>7, <2>2, <2>3, <2>5, DisputeColumns, LostPosted
  <2>6. CASE dispute[dp].status = "won"
    BY <1>1, <1>2, <1>7, <2>2, <2>3, <2>4, <2>6, DisputeColumns, UndecidedLedger
  <2> QED
    BY <2>2, <2>5, <2>6
<1> QED
  BY <1>2, <1>4, <1>5, <1>6, <1>7 DEF OnDispute

-----------------------------------------------------------------------------
\* Stripe's own steps post nothing, and what the ledger mirrors stays.

LEMMA StripeActsLedger ==
    ASSUME IInv, LInv, StepGood, StripeActs
    PROVE  LInv'
<1>1. UNCHANGED <<deal, disputes, ledger>>
  BY DEF StripeActs, dbVars, rowVars
<1> DEFINE Returns == \E p \in PIs :
                         \E amount \in PartialRefunds \cup {Charge - Refunded(p)} :
                            DashboardRefund(p, amount)
<1>2. CASE Returns
  <2>1. PICK p \in PIs :
           \E amount \in PartialRefunds \cup {Charge - Refunded(p)} : DashboardRefund(p, amount)
    BY <1>2
  <2>2. PICK amount \in PartialRefunds \cup {Charge - Refunded(p)} : DashboardRefund(p, amount)
    BY <2>1
  <2>3. amount \in Int
    BY <2>2, ChargeIsInt, PartialRefundsAssumption DEF IInv, TypeOK, StripeTypeOK, Refunded
  <2>4. /\ CreateRefund(p, amount, "dashboard")
        /\ UNCHANGED <<intent, transferVars, dispute>>
    BY <2>2 DEF DashboardRefund
  <2>5. PICK n : n = Len(refunds')
    OBVIOUS
  <2>6. /\ DOMAIN refunds' = DOMAIN refunds \cup {n}
        /\ \A m \in DOMAIN refunds : refunds'[m] = refunds[m]
        /\ refunds'[n].by = "dashboard"
        /\ \A q \in PIs : /\ Refunded(q) <= Refunded(q)'
                          /\ FullyRefunded(q) => FullyRefunded(q)'
    BY <2>3, <2>4, <2>5, RefundAppended DEF IInv, TypeOK
  <2>7. Steady
    BY <1>1, <2>4, <2>6 DEF Steady, GivenBack, transferVars
  <2>8. Unposted
    BY <1>1, <2>4, <2>6 DEF Unposted, transferVars, LInv, DecidedIsClosed
  <2> QED
    BY <2>7, <2>8, UnpostedKeeps DEF StepGood
<1>3. CASE UNCHANGED <<transferVars, refundVars>>
           /\ \A p \in PIs : intent[p] = "succeeded" => intent'[p] = "succeeded"
  <2>1. /\ UNCHANGED <<transfers, refunds, refunded>>
        /\ \A p \in PIs : intent[p] = "succeeded" => intent'[p] = "succeeded"
    BY <1>3 DEF transferVars, refundVars
  <2>2. \A dp \in DPs : dispute[dp].status = "lost" => dispute'[dp].status = "lost"
    <3>1. dispute \in [DPs -> [charge: PIs \cup {None}, status: DisputeStatus \cup {None}]]
      BY DEF IInv, TypeOK, StripeTypeOK
    <3>2. None # "lost"
      BY NoneAssumption DEF DisputeStatus
    <3> QED
      BY <3>1, <3>2
      DEF StripeActs, StripeStep, CustomerPays, CardholderDisputes, DisputeProgresses,
          DisputeEnds, DashboardRefund
  <2>3. \A p \in PIs : /\ Refunded(p) \in Int /\ Refunded(p)' = Refunded(p)
    BY <2>1 DEF IInv, TypeOK, StripeTypeOK, Refunded
  <2>4. \A p \in PIs : Refunded(p) <= Refunded(p)' /\ (FullyRefunded(p)' <=> FullyRefunded(p))
    BY <2>3 DEF FullyRefunded
  <2>5. Steady
    BY <1>1, <2>1, <2>2, <2>4 DEF Steady, GivenBack
  <2>6. Unposted
    BY <1>1, <2>1 DEF Unposted, LInv, DecidedIsClosed
  <2> QED
    BY <2>5, <2>6, UnpostedKeeps DEF StepGood
<1>4. CASE ~Returns
  <2>1. intent \in [PIs -> IntentStatus]
    BY DEF IInv, TypeOK, StripeTypeOK
  <2>2. UNCHANGED <<transferVars, refundVars>>
           /\ \A p \in PIs : intent[p] = "succeeded" => intent'[p] = "succeeded"
    BY <1>4, <2>1
    DEF StripeActs, StripeStep, CustomerPays, CardholderDisputes, DisputeProgresses, DisputeEnds
  <2> QED
    BY <1>3, <2>2
<1> QED
  BY <1>2, <1>4

LEMMA NextLedger ==
    ASSUME IInv, MInv, LInv, [Next]_vars
    PROVE  LInv'
<1>1. StepGood
  BY NextGood
<1>2. CASE Parties
  <2>1. CASE RefreshDeal(deal)
    BY <1>1, <2>1, FundsLedger DEF RefreshDeal
  <2> QED
    BY <1>1, <1>2, <2>1, ApproveLedger, FundDealLedger, DeclineLedger, SubmitLedger,
       QuietLedger DEF Parties
<1>3. CASE Reviewers
  <2>1. ASSUME NEW q, VerifyApproved(q)
        PROVE  LInv'
    BY <1>1, <2>1, VerifyLedger
  <2>2. ASSUME NEW target \in {"rejected", "changes_requested"}, NEW grace \in BOOLEAN,
               VerifySentBack(target, grace)
        PROVE  LInv'
    BY <1>1, <2>2, VerifyLedger
  <2> QED
    BY <1>1, <1>3, <2>1, <2>2, ReleasePayoutLedger, RefundDealLedger, SettlePoolLedger
    DEF Reviewers
<1>4. CASE GraceDeadlinePasses
  BY <1>1, <1>4, QuietLedger
<1>5. CASE StripeActs
  BY <1>1, <1>5, StripeActsLedger
<1>6. ASSUME NEW e \in sent, Deliver(e)
      PROVE  LInv'
  BY <1>1, <1>6, OnPaymentLedger, OnChargeRefundedLedger, OnDisputeLedger DEF Deliver
<1>7. CASE UNCHANGED vars
  <2>1. StripeKept /\ UNCHANGED <<deal, ledger, disputes>>
    BY <1>7 DEF vars, dbVars, rowVars, StripeKept, stripeVars, transferVars, refundVars
  <2> QED
    BY <1>1, <2>1, RowStepKeeps
<1> QED
  BY <1>2, <1>3, <1>4, <1>5, <1>6, <1>7 DEF Next

LEMMA InitLedger == Init => LInv
<1> SUFFICES ASSUME Init PROVE LInv
  OBVIOUS
<1>1. PICK applied \in BOOLEAN : InitWith(NewDeal(applied))
  BY DEF Init
<1>2. /\ ledger = <<>> /\ transfers = <<>> /\ refunds = <<>> /\ ~deal.funded_at
      /\ \A dp \in DPs : disputes[dp].outcome = None /\ ~disputes[dp].closed_at
  BY <1>1 DEF InitWith, StripeInit, NewDeal
<1>3. None # "lost"
  BY NoneAssumption DEF DisputeStatus
<1>4. Distinct(ledger) /\ \A row : ~Holds(ledger, row)
  BY <1>2 DEF Distinct, Holds
<1>5. AllRecorded /\ DecidedIsClosed
  BY <1>2, <1>3 DEF AllRecorded, DecidedIsClosed
<1> QED
  BY <1>4, <1>5 DEF LInv

LEMMA LedgerInvariance == Spec => [](IInv /\ LInv)
<1>1. Init => LInv
  BY InitLedger
<1>2. IInv /\ MInv /\ LInv /\ [Next]_vars => LInv'
  BY NextLedger
<1> QED
  BY <1>1, <1>2, MoneyInvariance, PTL DEF Spec

\* A row of the ledger is the only one of its kind and object.
LEMMA HeldIsRecordedOnce ==
    ASSUME LInv, NEW kind, NEW amount, NEW ref, Holds(ledger, Entry(kind, amount, ref))
    PROVE  RecordedOnce(kind, ref, amount)
<1>1. PICK n \in DOMAIN ledger : ledger[n] = Entry(kind, amount, ref)
  BY DEF Holds
<1>2. ledger[n].kind = kind /\ ledger[n].ref = ref /\ ledger[n].amount = amount
  BY <1>1 DEF Entry
<1>3. \A m \in DOMAIN ledger : ledger[m].kind = kind /\ ledger[m].ref = ref => m = n
  BY <1>2 DEF LInv, Distinct, Clash
<1>4. Rows(kind, ref) = {n}
  BY <1>2, <1>3 DEF Rows
<1> QED
  BY <1>2, <1>4 DEF RecordedOnce

\* The ledger and Stripe tell the same story (ledger.py, services.py refund_deal,
\* confirm_refund_from_charge, close_dispute_from_event): every movement has one
\* row, no row lacks its movement, and two handlers that both record a refund
\* never both do.
THEOREM LedgerIsFaithful == Spec => []LedgerMirrorsStripe
<1>1. IInv /\ LInv => LedgerMirrorsStripe
  <2> SUFFICES ASSUME IInv, LInv PROVE LedgerMirrorsStripe
    OBVIOUS
  <2>1. \A n \in DOMAIN ledger : RowIsTrue(ledger[n]) /\ ledger[n] \in LedgerRow
    BY DEF LInv, Holds, IInv, TypeOK
  <2>2. ASSUME NEW n \in DOMAIN ledger, ledger[n].kind = "deal_refund"
        PROVE  /\ deal.charge_id # None /\ -ledger[n].amount <= Refunded(deal.charge_id)
               /\ \A m \in DOMAIN ledger : ledger[m].kind = "deal_refund" => m = n
    <3>1. deal.funded_at /\ -ledger[n].amount <= Refunded(deal.charge_id)
      BY <2>1, <2>2 DEF RowIsTrue
    <3>2. deal.charge_id # None
      BY <3>1, NoneAssumption DEF IInv, StampsInOrder
    <3>3. \A m \in DOMAIN ledger : ledger[m].kind = "deal_refund" => m = n
      BY <2>2 DEF LInv, Distinct, Clash
    <3> QED
      BY <3>1, <3>2, <3>3
  <2>3. ASSUME NEW n \in DOMAIN transfers
        PROVE  RecordedOnce("deal_payout", RefTo("transfer", n), -transfers[n].amount)
    BY HeldIsRecordedOnce DEF LInv, AllRecorded, PayoutEntry
  <2>4. ASSUME NEW n \in DOMAIN refunds, refunds[n].by = "program"
        PROVE  \E amount \in {refunds[n].amount, Charge} :
                  /\ MayBeRecordedAs(n, amount)
                  /\ RecordedOnce("deal_refund", RefTo("refund", n), -amount)
    <3>1. PICK amount \in {refunds[n].amount, Charge} :
             MayBeRecordedAs(n, amount) /\ Holds(ledger, RefundEntry(amount, n))
      BY <2>4 DEF LInv, AllRecorded
    <3> QED
      BY <3>1, HeldIsRecordedOnce DEF RefundEntry
  <2>5. ASSUME deal.funded_at
        PROVE  RecordedOnce("deal_charge", RefTo("payment_intent", deal.payment_intent_id),
                            Charge)
    BY <2>5, HeldIsRecordedOnce DEF LInv, AllRecorded, ChargeEntry
  <2>6. ASSUME NEW dp \in DPs, disputes[dp].outcome = "lost"
        PROVE  RecordedOnce("dispute_lost", RefTo("dispute", dp), -Charge)
    BY <2>6, HeldIsRecordedOnce DEF LInv, AllRecorded, LossEntry
  <2>7. ASSUME NEW n \in DOMAIN ledger
        PROVE  \/ ledger[n].ref.obj = "payment_intent" /\ intent[ledger[n].ref.id] = "succeeded"
               \/ ledger[n].ref.obj = "transfer" /\ ledger[n].ref.id \in DOMAIN transfers
               \/ ledger[n].ref.obj = "refund" /\ ledger[n].ref.id \in DOMAIN refunds
               \/ ledger[n].ref.obj = "charge" /\ FullyRefunded(ledger[n].ref.id)
               \/ ledger[n].ref.obj = "dispute" /\ dispute[ledger[n].ref.id].status = "lost"
    BY <2>1 DEF RowIsTrue, RefTo
  <2> QED
    BY <2>2, <2>3, <2>4, <2>5, <2>6, <2>7 DEF LedgerMirrorsStripe
<1> QED
  BY LedgerInvariance, <1>1, PTL

-----------------------------------------------------------------------------
\* Absorbed losses.

NoneWon == \A dp \in DPs : disputes[dp].outcome # "won"

\* A dispute that was opened before the payout holds the deal until it is
\* decided, and for good when it is lost.
Holding(dp) ==
    disputes[dp].recorded /\ ~disputes[dp].payout_already_released =>
       /\ ~disputes[dp].closed_at => deal.status \in {"disputed", "refunded"}
       /\ disputes[dp].outcome = "lost" => deal.status = "refunded"

\* As long as none was won, which frees the deal of all, every dispute holds it;
\* and a deal in paid has been paid.
HeldByDispute ==
    /\ NoneWon => \A dp \in DPs : Holding(dp)
    /\ deal.status = "paid" => deal.paid_at

\* A step that leaves the disputes alone and frees no frozen deal.
LEMMA StillHeld ==
    ASSUME HeldByDispute, StepGood, UNCHANGED disputes,
           deal.status = "disputed" => deal'.status \in {"disputed", "refunded"},
           deal'.status = "paid" =>
              deal'.paid_at \/ (deal.status = "paid" /\ deal'.paid_at = deal.paid_at)
    PROVE  HeldByDispute'
<1>1. deal.status = "refunded" => deal'.status = "refunded"
  BY TableTargets DEF StepGood, LegalMove
<1> QED
  BY <1>1 DEF HeldByDispute, NoneWon, Holding

LEMMA SameRowHeld ==
    ASSUME HeldByDispute, UNCHANGED <<deal, disputes>>
    PROVE  HeldByDispute'
BY DEF HeldByDispute, NoneWon, Holding

\* A deal that is not funded is not frozen.
LEMMA UnfundedIsFree ==
    ASSUME IInv, MInv, ~deal.funded_at
    PROVE  deal.status \notin {"disputed", "paid"}
BY DEF MInv, FundedIsStatus, BeforeFunding

LEMMA PartiesHeld ==
    ASSUME IInv, MInv, HeldByDispute, StepGood, Parties
    PROVE  HeldByDispute'
<1>1. deal \in DealRow
  BY DEF IInv, TypeOK
<1>2. ASSUME NEW party, ApproveDeal(party)
      PROVE  HeldByDispute'
  <2>1. /\ deal' = Approve(deal, deal, party) /\ ~deal.funded_at /\ UNCHANGED disputes
    BY <1>2 DEF ApproveDeal, ApproveAllowed, rowVars
  <2>2. deal'.status \in {deal.status, "approved"}
    BY <1>1, <2>1, ApproveEffect
  <2> QED
    BY <2>1, <2>2, UnfundedIsFree, StillHeld
<1>3. ASSUME NEW p, FundDeal(p)
      PROVE  HeldByDispute'
  <2>1. /\ ~deal.funded_at /\ UNCHANGED disputes /\ deal'.status = "awaiting_funding"
    BY <1>1, <1>3 DEF FundDeal, FundAllowed, AwaitFunding, DealRow, rowVars
  <2> QED
    BY <2>1, UnfundedIsFree, StillHeld
<1>4. ASSUME NEW p, FundDealRefused(p)
      PROVE  HeldByDispute'
  BY <1>4, SameRowHeld DEF FundDealRefused, dbVars, rowVars
<1>5. CASE DeclineDeal
  <2>1. /\ ~deal.funded_at /\ UNCHANGED disputes /\ deal'.status = "cancelled"
    BY <1>1, <1>5, DeclineEffect DEF DeclineDeal, DeclineAllowed, rowVars
  <2> QED
    BY <2>1, UnfundedIsFree, StillHeld
<1>6. CASE SubmitDeliveryProof
  <2>1. /\ deal.status \notin {"disputed", "paid"} /\ UNCHANGED disputes
        /\ deal'.status \in {deal.status, "proof_submitted"}
    BY <1>1, <1>6, SubmitProofEffect
    DEF SubmitDeliveryProof, SubmitProofAllowed, ProofClosedStates, FinalStates, rowVars
  <2> QED
    BY <2>1, StillHeld
<1>7. CASE RemoveSource
  BY <1>7, SameRowHeld DEF RemoveSource, rowVars
<1>8. CASE RefreshDeal(deal)
  <2>1. /\ ~deal.funded_at /\ UNCHANGED disputes /\ deal'.status = "funded"
    BY <1>1, <1>8, MarkFundedEffect DEF RefreshDeal, Funds
  <2> QED
    BY <2>1, UnfundedIsFree, StillHeld
<1> QED
  BY <1>2, <1>3, <1>4, <1>5, <1>6, <1>7, <1>8 DEF Parties

LEMMA ReviewersHeld ==
    ASSUME IInv, MInv, HeldByDispute, StepGood, Reviewers
    PROVE  HeldByDispute'
<1>1. deal \in DealRow
  BY DEF IInv, TypeOK
<1>2. deal.dispute_status = None => deal.status # "disputed"
  BY DEF IInv, FrozenIsMarked
<1>3. ASSUME NEW q, VerifyApproved(q)
      PROVE  HeldByDispute'
  <2>1. /\ deal.status # "disputed" /\ UNCHANGED disputes /\ deal'.status = "verified"
    BY <1>1, <1>2, <1>3
    DEF VerifyApproved, VerifyAllowed, NoOpenDispute, MarkVerified, DealRow, rowVars
  <2> QED
    BY <2>1, StillHeld
<1>4. ASSUME NEW target \in {"rejected", "changes_requested"}, NEW grace \in BOOLEAN,
             VerifySentBack(target, grace)
      PROVE  HeldByDispute'
  <2>1. /\ deal.status # "disputed" /\ UNCHANGED disputes /\ deal'.status = target
    BY <1>1, <1>2, <1>4
    DEF VerifySentBack, VerifyAllowed, NoOpenDispute, SendBack, DealRow, rowVars
  <2> QED
    BY <2>1, StillHeld
<1>5. CASE ReleasePayout
  <2>1. /\ deal.status = "verified" /\ UNCHANGED disputes /\ deal'.paid_at
    BY <1>1, <1>5
    DEF ReleasePayout, ReleaseAllowed, PayoutEligible, MarkPaid, DealRow
  <2> QED
    BY <2>1, StillHeld
<1>6. CASE RefundDeal
  <2>1. UNCHANGED disputes /\ deal'.status = "refunded"
    BY <1>1, <1>6 DEF RefundDeal, MarkRefunded, DealRow
  <2> QED
    BY <2>1, StillHeld
<1>7. ASSUME NEW refundable \in BOOLEAN, SettlePool(refundable)
      PROVE  HeldByDispute'
  <2>1. /\ deal.status = "verified" /\ UNCHANGED disputes
    BY <1>7 DEF SettlePool, SettleAllowed, ReleaseAllowed, PayoutEligible
  <2> DEFINE gross   == PoolSettlementFor(Terms, verified_quantity).pool_gross
             unused  == PoolSettlementFor(Terms, verified_quantity).refund_to_business
             settled == MarkSettled(deal, Len(transfers'), gross)
  <2>2. \/ deal' = MarkPoolRefunded(settled, Len(refunds'), unused)
        \/ deal' = [settled EXCEPT !.pool_refunded_amount = 0]
        \/ deal' = settled
    BY <1>7 DEF SettlePool
  <2> HIDE DEF gross, unused
  <2>3. deal'.paid_at
    BY <1>1, <2>2 DEF MarkPoolRefunded, MarkSettled, MarkPaid, DealRow
  <2> QED
    BY <2>1, <2>3, StillHeld
<1> QED
  BY <1>3, <1>4, <1>5, <1>6, <1>7 DEF Reviewers

\* Only funding names the deal's charge, and a dispute is on a charge.
ChargesAreNamed ==
    /\ deal.charge_id # None => deal.funded_at
    /\ \A dp \in DPs : dispute[dp].status # None => dispute[dp].charge \in PIs

\* A step keeps the name of the charge, or funds the deal, or finds it funded.
LEMMA ChargeNameKept ==
    ASSUME IInv, [Next]_vars
    PROVE  \/ deal'.charge_id = deal.charge_id /\ deal'.funded_at = deal.funded_at
           \/ deal'.funded_at
<1>1. deal \in DealRow
  BY DEF IInv, TypeOK
<1>2. CASE Parties
  <2>1. ASSUME NEW party, ApproveDeal(party)
        PROVE  SameStamps(deal, deal')
    BY <1>1, <2>1, ApproveEffect DEF ApproveDeal
  <2>2. ASSUME NEW p, FundDeal(p)
        PROVE  deal'.charge_id = deal.charge_id /\ deal'.funded_at = deal.funded_at
    BY <1>1, <2>2 DEF FundDeal, AwaitFunding, DealRow
  <2>3. ASSUME NEW p, FundDealRefused(p)
        PROVE  deal' = deal
    BY <2>3 DEF FundDealRefused, dbVars
  <2>4. CASE DeclineDeal
    BY <1>1, <2>4, DeclineEffect DEF DeclineDeal, SameStamps
  <2>5. CASE SubmitDeliveryProof
    BY <1>1, <2>5, SubmitProofEffect DEF SubmitDeliveryProof, SameStamps
  <2>6. CASE RemoveSource
    BY <2>6 DEF RemoveSource
  <2>7. CASE RefreshDeal(deal)
    BY <1>1, <2>7, MarkFundedEffect DEF RefreshDeal, Funds
  <2> QED
    BY <1>2, <2>1, <2>2, <2>3, <2>4, <2>5, <2>6, <2>7 DEF Parties, SameStamps
<1>3. CASE Reviewers
  <2>1. ASSUME NEW q, VerifyApproved(q)
        PROVE  deal'.charge_id = deal.charge_id /\ deal'.funded_at = deal.funded_at
    BY <1>1, <2>1 DEF VerifyApproved, MarkVerified, DealRow
  <2>2. ASSUME NEW target, NEW grace, VerifySentBack(target, grace)
        PROVE  deal'.charge_id = deal.charge_id /\ deal'.funded_at = deal.funded_at
    BY <1>1, <2>2 DEF VerifySentBack, SendBack, DealRow
  <2>3. CASE ReleasePayout
    BY <1>1, <2>3 DEF ReleasePayout, MarkPaid, DealRow
  <2>4. CASE RefundDeal
    BY <1>1, <2>4 DEF RefundDeal, MarkRefunded, DealRow
  <2>5. ASSUME NEW refundable \in BOOLEAN, SettlePool(refundable)
        PROVE  deal'.funded_at
    <3> DEFINE gross   == PoolSettlementFor(Terms, verified_quantity).pool_gross
               unused  == PoolSettlementFor(Terms, verified_quantity).refund_to_business
               settled == MarkSettled(deal, Len(transfers'), gross)
    <3>1. /\ deal.funded_at
          /\ \/ deal' = MarkPoolRefunded(settled, Len(refunds'), unused)
             \/ deal' = [settled EXCEPT !.pool_refunded_amount = 0]
             \/ deal' = settled
      BY <2>5 DEF SettlePool, SettleAllowed, ReleaseAllowed
    <3> HIDE DEF gross, unused
    <3> QED
      BY <1>1, <3>1 DEF MarkPoolRefunded, MarkSettled, MarkPaid, DealRow
  <2> QED
    BY <1>3, <2>1, <2>2, <2>3, <2>4, <2>5 DEF Reviewers
<1>4. CASE GraceDeadlinePasses
  BY <1>1, <1>4 DEF GraceDeadlinePasses, DealRow
<1>5. CASE StripeActs
  BY <1>5 DEF StripeActs, dbVars
<1>6. ASSUME NEW e \in sent, OnPaymentSucceeded(e, deal)
      PROVE  UNCHANGED deal \/ deal'.funded_at
  BY <1>1, <1>6 DEF OnPaymentSucceeded, Funds, MarkFunded, DealRow
<1>7. ASSUME NEW e \in sent, OnChargeRefunded(e, deal)
      PROVE  deal'.charge_id = deal.charge_id /\ deal'.funded_at = deal.funded_at
  BY <1>1, <1>7 DEF OnChargeRefunded, DealRow
<1>8. ASSUME NEW e \in sent, OnDispute(e, deal)
      PROVE  deal'.charge_id = deal.charge_id /\ deal'.funded_at = deal.funded_at
  <2>1. e.obj \in DPs
    BY <1>8 DEF OnDispute, IInv, EventsNameObjects
  <2> QED
    BY <1>8, <2>1, DisputeColumns DEF OnDispute
<1>9. CASE UNCHANGED vars
  BY <1>9 DEF vars, dbVars
<1> QED
  BY <1>2, <1>3, <1>4, <1>5, <1>6, <1>7, <1>8, <1>9 DEF Next, Deliver

LEMMA DisputesNamed ==
    ASSUME IInv, ChargesAreNamed, [Next]_vars
    PROVE  ChargesAreNamed'
<1>1. deal'.charge_id # None => deal'.funded_at
  BY ChargeNameKept DEF ChargesAreNamed
<1>2. CASE dispute' = dispute
  BY <1>1, <1>2 DEF ChargesAreNamed
<1>3. CASE StripeActs
  <2>1. dispute \in [DPs -> [charge: PIs \cup {None}, status: DisputeStatus \cup {None}]]
    BY DEF IInv, TypeOK, StripeTypeOK
  <2>2. \A dp \in DPs : dispute'[dp].status # None => dispute'[dp].charge \in PIs
    BY <1>3, <2>1, NoneAssumption
    DEF ChargesAreNamed, StripeActs, StripeStep, CustomerPays, DashboardRefund,
        CardholderDisputes, DisputeProgresses, DisputeEnds, DisputeStatus
  <2> QED
    BY <1>1, <2>2 DEF ChargesAreNamed
<1>4. CASE ~StripeActs
  <2>1. Parties => dispute' = dispute
    BY DEF Parties, ApproveDeal, FundDeal, FundDealRefused, DeclineDeal, SubmitDeliveryProof,
           RemoveSource, RefreshDeal, stripeVars
  <2>2. Reviewers => dispute' = dispute
    BY DEF Reviewers, VerifyApproved, VerifySentBack, ReleasePayout, RefundDeal, SettlePool,
           stripeVars
  <2>3. GraceDeadlinePasses \/ UNCHANGED vars => dispute' = dispute
    BY DEF GraceDeadlinePasses, vars, stripeVars
  <2>4. (\E e \in sent : Deliver(e)) => dispute' = dispute
    BY DEF Deliver, OnPaymentSucceeded, OnChargeRefunded, OnDispute, stripeVars
  <2> QED
    BY <1>2, <1>4, <2>1, <2>2, <2>3, <2>4 DEF Next
<1> QED
  BY <1>3, <1>4

\* A funded deal that is not settled can be frozen.
LEMMA Freezable ==
    ASSUME NEW s \in Status \ (BeforeFunding \cup {"disputed", "refunded", "paid"})
    PROVE  CanTransition(s, "disputed")
BY DEF Status, BeforeFunding, CanTransition, AllowedTransitions

\* Once a dispute of the deal is on record, it holds the deal, and frees it of no
\* other.
LEMMA RecordedHolds ==
    ASSUME IInv, MInv, HeldByDispute, ChargesAreNamed, NEW dp \in DPs,
           dispute[dp].status \in DisputeStatus, deal.charge_id = dispute[dp].charge
    PROVE  LET f == DealFor(dp, deal)
               row == RowFor(dp, deal)
           IN  /\ NoneWon /\ ~row.payout_already_released =>
                     /\ ~row.closed_at => f.status \in {"disputed", "refunded"}
                     /\ row.outcome = "lost" => f.status = "refunded"
               /\ f.status = "paid" => f.paid_at
               /\ deal.status = "disputed" => f.status = "disputed"
<1>1. deal.funded_at
  BY NoneAssumption DEF ChargesAreNamed
<1>2. CASE disputes[dp].recorded
  <2>1. DealFor(dp, deal) = deal /\ RowFor(dp, deal) = disputes[dp]
    BY <1>2 DEF DealFor, RowFor
  <2> QED
    BY <1>2, <2>1 DEF HeldByDispute, Holding
<1>3. CASE ~disputes[dp].recorded
  <2>1. /\ DealFor(dp, deal) = OpenDispute(deal, deal, dispute[dp].status)
        /\ RowFor(dp, deal).payout_already_released = deal.paid_at
        /\ RowFor(dp, deal).outcome = None
    BY <1>3 DEF DealFor, RowFor
  <2>2. None # "lost"
    BY NoneAssumption DEF DisputeStatus
  <2>3. deal \in DealRow /\ deal.status \in Status \ BeforeFunding
    BY <1>1 DEF IInv, TypeOK, DealRow, MInv, FundedIsStatus
  <2>4. CASE Freezes(deal)
    BY <2>1, <2>2, <2>3, <2>4, OpenDisputeEffect
  <2>5. CASE ~Freezes(deal)
    <3>1. DealFor(dp, deal).status = deal.status /\ DealFor(dp, deal).paid_at = deal.paid_at
      BY <2>1, <2>3, <2>5, OpenDisputeEffect DEF SameStamps
    <3>2. ~deal.paid_at => deal.status \in {"disputed", "refunded", "paid"}
      BY <2>3, <2>5, Freezable DEF Freezes
    <3>3. deal.status = "paid" => deal.paid_at
      BY DEF HeldByDispute
    <3> QED
      BY <2>1, <2>2, <3>1, <3>2, <3>3
  <2> QED
    BY <2>4, <2>5
<1> QED
  BY <1>2, <1>3

LEMMA OnDisputeHeld ==
    ASSUME IInv, MInv, LInv, HeldByDispute, ChargesAreNamed, StepGood,
           NEW e \in sent, OnDispute(e, deal)
    PROVE  HeldByDispute'
<1>1. CASE UNCHANGED <<deal, disputes>>
  BY <1>1, SameRowHeld
<1>2. CASE ~UNCHANGED <<deal, disputes>>
  <2>1. PICK dp \in DPs : dp = e.obj
    BY DEF OnDispute, IInv, EventsNameObjects
  <2>2. dispute[dp].status \in DisputeStatus /\ deal.charge_id = dispute[dp].charge
    BY <1>2, <2>1 DEF OnDispute, IInv, EventsNameObjects
  <2> DEFINE f == DealFor(dp, deal)
             row == RowFor(dp, deal)
             outcome == dispute[dp].status
  <2>3. /\ f \in DealRow /\ row \in DisputeRow
        /\ f.status = "disputed" => CanTransition(f.status_before_dispute, "disputed")
    BY <2>2, DealForEffect
  <2>4. /\ NoneWon /\ ~row.payout_already_released =>
              /\ ~row.closed_at => f.status \in {"disputed", "refunded"}
              /\ row.outcome = "lost" => f.status = "refunded"
        /\ f.status = "paid" => f.paid_at
        /\ deal.status = "disputed" => f.status = "disputed"
    BY <2>2, RecordedHolds
  <2>6. disputes \in [DPs -> DisputeRow]
    BY DEF IInv, TypeOK
  <2>a. \A d \in DPs \ {dp} : disputes'[d] = disputes[d]
    BY <1>2, <2>1, <2>6 DEF OnDispute, EnsureOpen, Update, Close, Decide
  <2>b. disputes[dp].outcome = "won" => disputes'[dp] = disputes[dp]
    <3>1. disputes[dp].outcome = "won" => disputes[dp].closed_at /\ disputes[dp].recorded
      BY NoneAssumption DEF LInv, DecidedIsClosed, DisputeStatus
    <3> QED
      BY <1>2, <2>1, <2>6, <3>1
      DEF OnDispute, EnsureOpen, Update, Close, Decide, RowFor
  <2>c. NoneWon' => NoneWon
    BY <2>a, <2>b DEF NoneWon
  <2>5. ASSUME NoneWon' => /\ deal.status = "disputed" =>
                                 deal'.status \in {"disputed", "refunded"}
                           /\ Holding(dp)',
               deal'.status = "paid" => deal'.paid_at
        PROVE  HeldByDispute'
    <3>1. deal.status = "refunded" => deal'.status = "refunded"
      BY TableTargets DEF StepGood, LegalMove
    <3>2. ASSUME NoneWon', NEW d \in DPs \ {dp}
          PROVE  Holding(d)'
      BY <2>a, <2>c, <2>5, <3>1, <3>2 DEF HeldByDispute, Holding
    <3> QED
      BY <2>5, <3>2 DEF HeldByDispute
  <2>7. CASE EnsureOpen(dp, deal)
    <3>1. disputes' = [disputes EXCEPT ![dp] = row] /\ deal' = f
      BY <2>7 DEF EnsureOpen
    <3> HIDE DEF row, f
    <3> QED
      BY <2>4, <2>c, <2>5, <2>6, <3>1 DEF Holding
  <2>8. CASE Update(dp, deal)
    <3>1. /\ disputes' = [disputes EXCEPT ![dp] = [row EXCEPT !.status = outcome]]
          /\ deal' = [f EXCEPT !.dispute_status = outcome]
      BY <2>8 DEF Update
    <3> HIDE DEF row, f
    <3>2. /\ disputes'[dp].payout_already_released = row.payout_already_released
          /\ disputes'[dp].closed_at = row.closed_at /\ disputes'[dp].outcome = row.outcome
      BY <2>3, <2>6, <3>1 DEF DisputeRow
    <3>3. deal'.status = f.status /\ deal'.paid_at = f.paid_at
      BY <2>3, <3>1 DEF DealRow
    <3> QED
      BY <2>4, <2>c, <2>5, <3>2, <3>3 DEF Holding
  <2>9. CASE Close(dp, deal)
    <3>1. /\ disputes' = [disputes EXCEPT ![dp] =
                            [row EXCEPT !.status = outcome, !.outcome = outcome,
                                        !.closed_at = TRUE]]
          /\ deal' = CloseDispute(f, f, row, outcome)
          /\ ~disputes[dp].closed_at
      BY <2>9 DEF Close, Decide, Thawed, DealFor
    <3>2. row.closed_at = disputes[dp].closed_at
      BY <2>2, RowForFacts DEF LInv
    <3> HIDE DEF row, f, outcome
    <3>3. /\ disputes'[dp].payout_already_released = row.payout_already_released
          /\ disputes'[dp].closed_at /\ disputes'[dp].outcome = outcome
      BY <2>3, <2>6, <3>1 DEF DisputeRow
    <3>4. deal'.paid_at = f.paid_at
      BY <2>3, <3>1 DEF CloseDispute, DealRow
    <3>5. f.status = "disputed" => f.status_before_dispute \in Status \ {"paid"}
      BY <2>3, TableSources
    <3>6. deal'.status = "paid" => f.status = "paid"
      BY <2>3, <3>1, <3>5, CloseDisputeEffect
    <3>7. NoneWon /\ ~row.payout_already_released /\ outcome = "lost"
             => deal'.status = "refunded"
      BY <2>3, <2>4, <3>1, <3>2 DEF CloseDispute, DealRow
    <3>8. NoneWon' => outcome = "lost"
      <4>1. outcome \in {"won", "lost"}
        BY <2>9 DEF Close, Decide, outcome
      <4> QED
        BY <3>3, <4>1 DEF NoneWon
    <3>9. f.status = "disputed" /\ outcome = "lost" =>
             deal'.status \in {"disputed", "refunded"}
      BY <2>3, <3>1 DEF CloseDispute, DealRow
    <3> QED
      BY <2>4, <2>c, <2>5, <3>3, <3>4, <3>6, <3>7, <3>8, <3>9 DEF Holding
  <2> QED
    BY <1>2, <2>1, <2>7, <2>8, <2>9 DEF OnDispute
<1> QED
  BY <1>1, <1>2

LEMMA NextHeld ==
    ASSUME IInv, MInv, LInv, HeldByDispute, ChargesAreNamed, [Next]_vars
    PROVE  HeldByDispute'
<1>1. StepGood /\ deal \in DealRow
  BY NextGood DEF IInv, TypeOK
<1>2. CASE GraceDeadlinePasses
  <2>1. UNCHANGED disputes /\ deal'.status = deal.status /\ deal'.paid_at = deal.paid_at
    BY <1>1, <1>2 DEF GraceDeadlinePasses, DealRow, rowVars
  <2> QED
    BY <1>1, <2>1, StillHeld
<1>3. CASE UNCHANGED <<deal, disputes>>
  BY <1>3, SameRowHeld
<1>4. ASSUME NEW e \in sent, OnPaymentSucceeded(e, deal)
      PROVE  HeldByDispute'
  <2>1. CASE Funds(e.obj, deal)
    <3>1. ~deal.funded_at /\ UNCHANGED disputes /\ deal'.status = "funded"
      BY <1>1, <1>4, <2>1 DEF OnPaymentSucceeded, Funds, MarkFunded, DealRow
    <3> QED
      BY <1>1, <3>1, UnfundedIsFree, StillHeld
  <2> QED
    BY <1>3, <1>4, <2>1 DEF OnPaymentSucceeded
<1>5. ASSUME NEW e \in sent, OnChargeRefunded(e, deal)
      PROVE  HeldByDispute'
  <2>1. CASE deal' = [deal EXCEPT !.status = "refunded"]
    <3>1. UNCHANGED disputes /\ deal'.status = "refunded"
      BY <1>1, <1>5, <2>1 DEF OnChargeRefunded, DealRow
    <3> QED
      BY <1>1, <3>1, StillHeld
  <2> QED
    BY <1>3, <1>5, <2>1 DEF OnChargeRefunded
<1>6. CASE StripeActs \/ UNCHANGED vars
  BY <1>3, <1>6 DEF StripeActs, vars, dbVars, rowVars
<1> QED
  BY <1>1, <1>2, <1>4, <1>5, <1>6, PartiesHeld, ReviewersHeld, OnDisputeHeld
  DEF Next, Deliver

\* However many disputes a deal sees, as long as none is won ledger.py's
\* absorbed_loss_total counts exactly the losses the platform absorbed: a lost
\* dispute carries payout_already_released if and only if the owner had been paid
\* (services.py open_dispute_from_event, close_dispute_from_event).
THEOREM AbsorbedLossesAreCounted == Spec => []AbsorbedLossIsCounted
<1> DEFINE J == HeldByDispute /\ ChargesAreNamed
<1>1. Init => J
  <2> SUFFICES ASSUME Init PROVE J
    OBVIOUS
  <2>1. PICK applied \in BOOLEAN : InitWith(NewDeal(applied))
    BY DEF Init
  <2> QED
    BY <2>1 DEF InitWith, StripeInit, NewDeal, HeldByDispute, Holding, ChargesAreNamed
<1>2. IInv /\ MInv /\ LInv /\ J /\ [Next]_vars => J'
  BY NextHeld, DisputesNamed
<1>3. IInv /\ LInv /\ J => AbsorbedLossIsCounted
  <2> SUFFICES ASSUME IInv, LInv, HeldByDispute, NoneWon,
                      NEW dp \in DPs, disputes[dp].outcome = "lost"
               PROVE  disputes[dp].payout_already_released <=> transfers # <<>>
    BY DEF AbsorbedLossIsCounted, NoneWon
  <2>1. disputes[dp].recorded
    BY NoneAssumption DEF LInv, DecidedIsClosed, DisputeStatus
  <2>2. disputes[dp].payout_already_released => transfers # <<>>
    BY DEF IInv, FrozenIsMarked, PaidAsTransferred
  <2>3. ~disputes[dp].payout_already_released => transfers = <<>>
    BY <2>1 DEF HeldByDispute, Holding, IInv, StampsInOrder, PaidAsTransferred
  <2> QED
    BY <2>2, <2>3
<1> HIDE DEF J
<1> QED
  BY <1>1, <1>2, <1>3, MoneyInvariance, LedgerInvariance, PTL DEF Spec
=============================================================================

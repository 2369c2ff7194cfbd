--------------------------- MODULE DealProperties ---------------------------
(***************************************************************************)
(* What must hold of a deal whose handlers do not overlap (Deal).          *)
(***************************************************************************)
EXTENDS Deal, FiniteSets

-----------------------------------------------------------------------------
\* Money.

\* The owner is paid at most once, the row says so exactly when Stripe does,
\* and only for a deal that was funded, had evidence and was approved
\* (review.py release_payout and settle_pool, services.py create_deal_payout).
PaidOnceForVerifiedWork ==
    /\ Len(transfers) <= 1
    /\ deal.paid_at <=> transfers # <<>>
    /\ transfers # <<>> =>
          /\ deal.transfer_id = 1 /\ deal.status = "paid"
          /\ transfers[1].charge = deal.charge_id
          /\ deal.funded_at /\ deal.verified_at /\ has_proof
          /\ HasPool => verified_quantity # None

\* What the program sends to the owner and back to the business never
\* exceeds what it collected, whatever was verified and in whatever order the
\* settlement's two Stripe calls succeed (services.py settle_pool_deal).
NeverSpendsMoreThanCollected ==
    \A p \in PIs : transferred[p] + refunded[p].program <= Charge

\* The rows of the ledger of one kind that refer to one Stripe object.
Rows(kind, ref) == {n \in DOMAIN ledger : ledger[n].kind = kind /\ ledger[n].ref = ref}

RecordedOnce(kind, ref, amount) ==
    \E n \in DOMAIN ledger : Rows(kind, ref) = {n} /\ ledger[n].amount = amount

\* What the ledger may say a refund returned: what Stripe returned by it, or
\* the whole charge when it returned the last of one (refund_deal records the
\* charge, though a part of it may have been returned on the dashboard before).
MayBeRecordedAs(n, amount) ==
    \/ amount = refunds[n].amount
    \/ amount = Charge /\ FullyRefunded(refunds[n].charge)

\* Every Transfer, every refund the program made, the charge itself and a lost
\* dispute is on the ledger exactly once, with Stripe's amount or, for a refund
\* that returned the last of a charge, that charge; the ledger holds nothing
\* Stripe did not do, and although refunds reach it from two places it has one
\* at most, of no more than Stripe refunded (ledger.py, which reconciles the
\* two; services.py refund_deal, confirm_refund_from_charge,
\* close_dispute_from_event).
LedgerMirrorsStripe ==
    /\ \A n \in DOMAIN ledger : ledger[n].kind = "deal_refund" =>
          /\ deal.charge_id # None /\ -ledger[n].amount <= Refunded(deal.charge_id)
          /\ \A m \in DOMAIN ledger : ledger[m].kind = "deal_refund" => m = n
    /\ \A n \in DOMAIN transfers :
          RecordedOnce("deal_payout", RefTo("transfer", n), -transfers[n].amount)
    /\ \A n \in DOMAIN refunds : refunds[n].by = "program" =>
          \E amount \in {refunds[n].amount, Charge} :
             /\ MayBeRecordedAs(n, amount)
             /\ RecordedOnce("deal_refund", RefTo("refund", n), -amount)
    /\ deal.funded_at =>
          RecordedOnce("deal_charge", RefTo("payment_intent", deal.payment_intent_id), Charge)
    /\ \A dp \in DPs : disputes[dp].outcome = "lost" =>
          RecordedOnce("dispute_lost", RefTo("dispute", dp), -Charge)
    /\ \A n \in DOMAIN ledger :
          \/ ledger[n].ref.obj = "payment_intent" /\ intent[ledger[n].ref.id] = "succeeded"
          \/ ledger[n].ref.obj = "transfer" /\ ledger[n].ref.id \in DOMAIN transfers
          \/ ledger[n].ref.obj = "refund" /\ ledger[n].ref.id \in DOMAIN refunds
          \/ ledger[n].ref.obj = "charge" /\ FullyRefunded(ledger[n].ref.id)
          \/ ledger[n].ref.obj = "dispute" /\ dispute[ledger[n].ref.id].status = "lost"

\* However many disputes a deal has, a lost one counts as absorbed exactly when
\* the owner had been paid, be it before the dispute was heard of or after, as
\* long as none of them was won: a win thaws the deal for the others too, and
\* the owner can then be paid while one is open that found the deal unpaid
\* (ledger.py absorbed_loss_total, which says it counts precisely per dispute;
\* services.py close_dispute_from_event).
AbsorbedLossIsCounted ==
    \A dp \in DPs :
        (/\ disputes[dp].outcome = "lost"
         /\ \A other \in DPs : disputes[other].outcome # "won") =>
            (disputes[dp].payout_already_released <=> transfers # <<>>)

-----------------------------------------------------------------------------
\* Disputes and review.

\* A frozen deal is only ever put back where it was frozen from, or refunded:
\* no handler of a party or a reviewer moves it
\* (review.py _assert_no_open_dispute, services.py close_dispute_from_event).
FreezeHolds ==
    [][ deal.status = "disputed" /\ deal'.status # "disputed"
           => deal'.status \in {deal.status_before_dispute, "refunded"} ]_vars

\* Every other change of status is one the table allows (deal_state.py),
\* late, repeated and reordered Stripe events included.
MovesAreLegal ==
    [][ deal'.status # deal.status =>
           \/ CanTransition(deal.status, deal'.status)
           \/ deal.status = "disputed" /\ deal'.status = deal.status_before_dispute ]_vars

\* Inside an open grace window nothing is approved on the evidence the
\* reviewer has already sent back (review.py verify).
GraceWindowIsHonoured ==
    [][ (/\ deal'.status = "verified" /\ deal.status \notin {"verified", "disputed"}
         /\ deal.proof_grace_deadline = "open")
           => fresh_proof ]_vars

-----------------------------------------------------------------------------
\* The abstract promise.

phaseOf ==
    IF deal.paid_at THEN "paid"
    ELSE IF deal.status = "refunded" THEN "returned"
    ELSE IF deal.status = "disputed" THEN "frozen"
    ELSE IF deal.funded_at THEN "held"
    ELSE IF deal.status = "cancelled" THEN "void"
    ELSE "open"

E == INSTANCE Escrow WITH
        Collected  <- Charge,
        phase      <- phaseOf,
        toOwner    <- IF deal.funded_at THEN transferred[deal.charge_id] ELSE 0,
        toBusiness <- IF deal.funded_at THEN refunded[deal.charge_id].program ELSE 0,
        elsewhere  <- IF deal.funded_at THEN refunded[deal.charge_id].dashboard ELSE 0

\* The handlers, the events and the reviewers together keep the promise of
\* Escrow.
KeepsEscrow == E!EscrowSpec

-----------------------------------------------------------------------------
\* Progress, under FairSpec.

\* A payment that Stripe confirmed ends with the deal funded, or had already
\* lost to a cancellation (services.py mark_deal_funded_from_pi).
PaymentFundsDeal ==
    \A p \in PIs :
        intent[p] = "succeeded" ~> deal.funded_at \/ deal.status = "cancelled"

\* A deal that freezes before the end of its dispute was heard of thaws:
\* Stripe's decision always releases it (services.py
\* close_dispute_from_event).
FreezeEndsInTime ==
    \A dp \in DPs :
        (/\ deal.status = "disputed"
         /\ Ev("charge.dispute.closed", dp) \notin processed) ~> deal.status # "disputed"

=============================================================================

-------------------------------- MODULE Deal --------------------------------
(***************************************************************************)
(* The life of one deal: the request handlers of the two parties and the   *)
(* reviewers, the handlers of Stripe's events, and the Stripe they drive.  *)
(* Deals do not share state, so one is enough.                             *)
(*                                                                         *)
(* Here a handler is one step: it finds the row it read unchanged when it  *)
(* commits.  What the property costs when handlers overlap or die between  *)
(* the Stripe call and the commit is the subject of DealRace.              *)
(***************************************************************************)
EXTENDS DealRow

VARIABLES
    deal,              \* the deals row
    disputes,          \* the disputes rows, by Stripe dispute id
    ledger,            \* the ledger_entries rows, oldest first
    processed,         \* webhook events with processed = true
    has_proof,         \* some proofs row with a file or a URL exists
    fresh_proof,       \* (history) evidence was added since changes were requested
    verified_quantity, \* of the latest approved verifications row
    source_removed     \* the listing or campaign was removed

rowVars == <<disputes, ledger>>
reviewVars == <<has_proof, fresh_proof, verified_quantity>>
dbVars == <<deal, disputes, ledger, processed, has_proof, fresh_proof,
            verified_quantity, source_removed>>
vars == <<dbVars, stripeVars>>

LedgerKind == {"deal_charge", "deal_payout", "deal_refund", "dispute_lost"}
LedgerRow == [kind: LedgerKind, amount: Int, ref: Ref]

DisputeRow ==
    [ recorded : BOOLEAN, status : {None} \cup DisputeStatus,
      outcome : {None} \cup DisputeStatus, closed_at : BOOLEAN,
      payout_already_released : BOOLEAN, deal_status_before : {None} \cup Status ]

TypeOK ==
    /\ StripeTypeOK
    /\ deal \in DealRow
    /\ disputes \in [DPs -> DisputeRow]
    /\ ledger \in Seq(LedgerRow)
    /\ processed \subseteq sent
    /\ has_proof \in BOOLEAN /\ fresh_proof \in BOOLEAN
    /\ verified_quantity \in {None} \cup Nat
    /\ source_removed \in BOOLEAN

InitWith(row) ==
    /\ StripeInit
    /\ deal = row
    /\ disputes = [dp \in DPs |->
                     [recorded |-> FALSE, status |-> None, outcome |-> None,
                      closed_at |-> FALSE, payout_already_released |-> FALSE,
                      deal_status_before |-> None]]
    /\ ledger = <<>>
    /\ processed = {}
    /\ has_proof = FALSE /\ fresh_proof = FALSE
    /\ verified_quantity = None
    /\ source_removed = FALSE

Init == \E applied \in BOOLEAN : InitWith(NewDeal(applied))

Entry(kind, amount, ref) == [kind |-> kind, amount |-> amount, ref |-> ref]

PayoutEntry(net, n) == Entry("deal_payout", -net, RefTo("transfer", n))

\* Mutant of RefundEntry: the price is recorded, not what was charged.
ListedRefundEntry(amount, n) ==
    Entry("deal_refund", -Terms.listed_price, RefTo("refund", n))

RefundEntry(amount, n) == Entry("deal_refund", -amount, RefTo("refund", n))

Log(entry) == ledger' = Append(ledger, entry)

-----------------------------------------------------------------------------
\* The parties.

ApproveDeal(party) ==
    /\ ApproveAllowed(deal)
    /\ deal' = Approve(deal, deal, party)
    /\ UNCHANGED <<rowVars, processed, reviewVars, source_removed, stripeVars>>

\* A second call finds payment_intent_id set and hands out the same secret.
FundDeal(p) ==
    /\ FundAllowed(deal, source_removed)
    /\ deal.payment_intent_id = None
    /\ CanTransition(deal.status, "awaiting_funding")
    /\ CreateIntent(p, "offered")
    /\ deal' = AwaitFunding(deal, p)
    /\ UNCHANGED <<rowVars, processed, reviewVars, source_removed,
                   transferVars, refundVars, dispute, sent>>

\* assert_transition refuses the deal only after Stripe made the PaymentIntent.
FundDealRefused(p) ==
    /\ FundAllowed(deal, source_removed)
    /\ deal.payment_intent_id = None
    /\ ~CanTransition(deal.status, "awaiting_funding")
    /\ CreateIntent(p, "created")
    /\ UNCHANGED <<dbVars, transferVars, refundVars, dispute, sent>>

DeclineDeal ==
    /\ DeclineAllowed(deal)
    /\ deal' = Decline(deal)
    /\ UNCHANGED <<rowVars, processed, reviewVars, source_removed, stripeVars>>

SubmitDeliveryProof ==
    /\ SubmitProofAllowed(deal)
    /\ deal' = SubmitProof(deal, deal)
    /\ has_proof' = TRUE /\ fresh_proof' = TRUE
    /\ UNCHANGED <<rowVars, processed, verified_quantity, source_removed, stripeVars>>

RemoveSource ==
    /\ ~source_removed
    /\ source_removed' = TRUE
    /\ UNCHANGED <<deal, rowVars, processed, reviewVars, stripeVars>>

-----------------------------------------------------------------------------
\* The reviewers.

\* The quantity is required for a pool deal and ignored for a fixed one.
VerifyApproved(q) ==
    /\ VerifyAllowed(deal, "approved", "verified", has_proof)
    /\ HasPool => q # None
    /\ deal' = MarkVerified(deal)
    /\ verified_quantity' = q
    /\ UNCHANGED <<rowVars, processed, has_proof, fresh_proof, source_removed, stripeVars>>

VerifySentBack(target, grace) ==
    /\ target \in {"rejected", "changes_requested"}
    /\ grace => HasPool /\ target = "changes_requested"
    /\ VerifyAllowed(deal, target, target, has_proof)
    /\ deal' = SendBack(deal, target, grace)
    /\ fresh_proof' = FALSE
    /\ UNCHANGED <<rowVars, processed, has_proof, verified_quantity,
                   source_removed, stripeVars>>

ReleasePayout ==
    /\ ~HasPool
    /\ ReleaseAllowed(deal)
    /\ CreateTransfer(deal.charge_id, FixedNet)
    /\ deal' = MarkPaid(deal, Len(transfers'))
    /\ Log(PayoutEntry(FixedNet, Len(transfers')))
    /\ UNCHANGED <<disputes, processed, reviewVars, source_removed,
                   intent, refundVars, dispute, sent>>

RefundDeal ==
    /\ RefundAllowed(deal)
    /\ LET p == deal.payment_intent_id
       IN CreateRefund(p, Charge - Refunded(p), "program")
    /\ deal' = MarkRefunded(deal, Len(refunds'))
    /\ Log(RefundEntry(Charge, Len(refunds')))
    /\ UNCHANGED <<disputes, processed, reviewVars, source_removed,
                   intent, transferVars, dispute>>

\* The Transfer and its commit come first, then the Refund of the unused pool
\* and a second commit; when Stripe refuses the Refund the first commit stays.
SettlePool(refundable) ==
    LET pool    == PoolSettlementFor(Terms, verified_quantity)
        net     == FixedNet + pool.pool_net_to_owner
        unused  == pool.refund_to_business
        settled == MarkSettled(deal, Len(transfers'), pool.pool_gross)
        payout  == PayoutEntry(net, Len(transfers'))
    IN  /\ HasPool
        /\ SettleAllowed(deal)
        /\ verified_quantity # None
        /\ CreateTransfer(deal.charge_id, net)
        /\ \/ /\ unused > 0 /\ refundable
              /\ CreateRefund(deal.payment_intent_id, unused, "program")
              /\ deal' = MarkPoolRefunded(settled, Len(refunds'), unused)
              /\ ledger' = ledger \o <<payout, RefundEntry(unused, Len(refunds'))>>
           \/ /\ unused <= 0
              /\ deal' = [settled EXCEPT !.pool_refunded_amount = 0]
              /\ ledger' = Append(ledger, payout)
              /\ UNCHANGED <<refundVars, sent>>
           \/ /\ unused > 0 /\ ~refundable
              /\ deal' = settled
              /\ ledger' = Append(ledger, payout)
              /\ UNCHANGED <<refundVars, sent>>
        /\ UNCHANGED <<disputes, processed, reviewVars, source_removed, intent, dispute>>

-----------------------------------------------------------------------------
\* Time.

GraceDeadlinePasses ==
    /\ deal.proof_grace_deadline = "open"
    /\ deal' = [deal EXCEPT !.proof_grace_deadline = "past"]
    /\ UNCHANGED <<rowVars, processed, reviewVars, source_removed, stripeVars>>

-----------------------------------------------------------------------------
\* Stripe's events.  A handler runs for an event that was sent and is not
\* marked processed; it marks the event in a commit of its own, after its work,
\* so the mark can be lost.  An event the handler answers with RETRY, or for
\* which it cannot reach Stripe, changes nothing and stays deliverable.

Acknowledge(e) == processed' \in {processed, processed \cup {e}}

\* A handler sees the row as it read it; in this module that is the row.

\* Mutant of Funds: neither funded_at nor the table is consulted.
FundsAgain(p, read) ==
    /\ read.payment_intent_id = p
    /\ intent[p] = "succeeded"
    /\ deal' = MarkFunded(deal, p)
    /\ Log(Entry("deal_charge", Charge, RefTo("payment_intent", p)))

Funds(p, read) ==
    /\ read.payment_intent_id = p
    /\ ~read.funded_at
    /\ intent[p] = "succeeded"
    /\ CanTransition(read.status, "funded")
    /\ deal' = MarkFunded(deal, p)
    /\ Log(Entry("deal_charge", Charge, RefTo("payment_intent", p)))

OnPaymentSucceeded(e, read) ==
    /\ e.type = "payment_intent.succeeded"
    /\ \/ Funds(e.obj, read)
       \/ /\ read.payment_intent_id = e.obj => read.funded_at
          /\ UNCHANGED <<deal, ledger>>
    /\ Acknowledge(e)
    /\ UNCHANGED <<disputes, reviewVars, source_removed, stripeVars>>

\* The client's POST /refresh runs the same handler without an event.
RefreshDeal(read) ==
    /\ \E p \in PIs : Funds(p, read)
    /\ UNCHANGED <<disputes, processed, reviewVars, source_removed, stripeVars>>

\* Mutant of OnChargeRefunded: RETRY is answered as if the event were handled.
RetryIsAcknowledged(e, read) ==
    /\ e.type = "charge.refunded"
    /\ UNCHANGED <<deal, ledger>>
    /\ Acknowledge(e)
    /\ UNCHANGED <<disputes, reviewVars, source_removed, stripeVars>>

OnChargeRefunded(e, read) ==
    /\ e.type = "charge.refunded"
    /\ LET p == refunds[e.obj].charge
       IN  \/ /\ read.charge_id = p => read.status = "refunded"
              /\ UNCHANGED <<deal, ledger>>
           \/ /\ read.charge_id = p
              /\ read.status # "refunded"
              /\ FullyRefunded(p)
              /\ CanTransition(read.status, "refunded")
              /\ deal' = [deal EXCEPT !.status = "refunded"]
              /\ Log(Entry("deal_refund", -Refunded(p), RefTo("charge", p)))
    /\ Acknowledge(e)
    /\ UNCHANGED <<disputes, reviewVars, source_removed, stripeVars>>

\* Every dispute event first makes sure the dispute is on record and, the first
\* time, freezes the deal.

\* Mutant of RowFor: an approved deal counts as paid.
RowForApproved(dp, read) ==
    IF disputes[dp].recorded THEN disputes[dp]
    ELSE [ recorded |-> TRUE, status |-> dispute[dp].status, outcome |-> None,
           closed_at |-> FALSE, payout_already_released |-> read.verified_at,
           deal_status_before |-> IF read.verified_at THEN None ELSE read.status ]

RowFor(dp, read) ==
    IF disputes[dp].recorded THEN disputes[dp]
    ELSE [ recorded |-> TRUE, status |-> dispute[dp].status, outcome |-> None,
           closed_at |-> FALSE, payout_already_released |-> read.paid_at,
           deal_status_before |-> IF read.paid_at THEN None ELSE read.status ]

DealFor(dp, read) ==
    IF disputes[dp].recorded THEN deal ELSE OpenDispute(deal, read, dispute[dp].status)

EnsureOpen(dp, read) ==
    /\ disputes' = [disputes EXCEPT ![dp] = RowFor(dp, read)]
    /\ deal' = DealFor(dp, read)
    /\ UNCHANGED ledger
Update(dp, read) ==
    /\ ~disputes[dp].closed_at
    /\ disputes' = [disputes EXCEPT ![dp] =
                      [RowFor(dp, read) EXCEPT !.status = dispute[dp].status]]
    /\ deal' = [DealFor(dp, read) EXCEPT !.dispute_status = dispute[dp].status]
    /\ UNCHANGED ledger
\* What closing writes to the dispute's row and the ledger, and to the deal.
Decide(dp, read) ==
  LET outcome == dispute[dp].status
  IN  /\ ~disputes[dp].closed_at
      /\ disputes' = [disputes EXCEPT ![dp] =
                        [RowFor(dp, read) EXCEPT !.status = outcome, !.outcome = outcome,
                                                 !.closed_at = TRUE]]
      /\ \/ /\ outcome = "lost"
            /\ Log(Entry("dispute_lost", -Charge, RefTo("dispute", dp)))
         \/ /\ outcome = "won"
            /\ UNCHANGED ledger

Thawed(dp, read) ==
    CloseDispute(DealFor(dp, read),
                 IF disputes[dp].recorded THEN read ELSE DealFor(dp, read),
                 RowFor(dp, read), dispute[dp].status)

Close(dp, read) == Decide(dp, read) /\ deal' = Thawed(dp, read)

OnDispute(e, read) ==
  LET dp == e.obj
  IN  /\ e.type \in DisputeEvents
      /\ \/ /\ read.charge_id # dispute[dp].charge
            /\ UNCHANGED <<deal, disputes, ledger>>
         \/ /\ read.charge_id = dispute[dp].charge
            /\ \/ /\ e.type \notin {"charge.dispute.updated", "charge.dispute.closed"}
                  /\ EnsureOpen(dp, read)
               \/ /\ e.type = "charge.dispute.updated"
                  /\ Update(dp, read)
               \/ /\ e.type = "charge.dispute.closed"
                  /\ Close(dp, read)
               \/ /\ e.type \in {"charge.dispute.updated", "charge.dispute.closed"}
                  /\ disputes[dp].closed_at
                  /\ UNCHANGED <<deal, disputes, ledger>>
      /\ Acknowledge(e)
      /\ UNCHANGED <<reviewVars, source_removed, stripeVars>>

\* Mutant of Deliver: the event is marked before it is handled, and the handler
\* may die in between.
MarksFirst(e) ==
    /\ e \in sent \ processed
    /\ \/ OnPaymentSucceeded(e, deal) \/ OnChargeRefunded(e, deal) \/ OnDispute(e, deal)
       \/ /\ processed' = processed \cup {e}
          /\ UNCHANGED <<deal, rowVars, reviewVars, source_removed, stripeVars>>

Deliver(e) ==
    /\ e \in sent \ processed
    /\ OnPaymentSucceeded(e, deal) \/ OnChargeRefunded(e, deal) \/ OnDispute(e, deal)

-----------------------------------------------------------------------------
Parties ==
    \/ \E party \in {"business", "owner"} : ApproveDeal(party)
    \/ \E p \in PIs : FundDeal(p) \/ FundDealRefused(p)
    \/ DeclineDeal
    \/ SubmitDeliveryProof
    \/ RemoveSource
    \/ RefreshDeal(deal)

Reviewers ==
    \/ \E q \in Quantities \cup {None} : VerifyApproved(q)
    \/ \E target \in {"rejected", "changes_requested"}, grace \in BOOLEAN :
          VerifySentBack(target, grace)
    \/ ReleasePayout
    \/ RefundDeal
    \/ \E refundable \in BOOLEAN : SettlePool(refundable)

StripeActs == StripeStep /\ UNCHANGED dbVars

Next ==
    \/ Parties
    \/ Reviewers
    \/ GraceDeadlinePasses
    \/ StripeActs
    \/ \E e \in sent : Deliver(e)

Spec == Init /\ [][Next]_vars

\* Stripe redelivers an event until it is acknowledged, and every dispute is
\* decided in the end.  Nobody else has to act.
Events ==
         {Ev("payment_intent.succeeded", p) : p \in PIs}
    \cup {Ev("charge.refunded", n) : n \in 1..(MaxRefunds + 1)}
    \cup {Ev(type, dp) : type \in DisputeEvents, dp \in DPs}

Fairness ==
    /\ \A e \in Events : WF_vars(Deliver(e) /\ e \in processed')
    /\ \A dp \in DPs :
          WF_vars(/\ \E outcome \in {"won", "lost"} : DisputeEnds(dp, outcome)
                  /\ UNCHANGED dbVars)

FairSpec == Spec /\ Fairness
=============================================================================

------------------------------ MODULE DealRow ------------------------------
(***************************************************************************)
(* The deals row and what each request handler checks on it and writes to  *)
(* it.  A guard takes the row as the handler read it.  An effect takes the *)
(* row to write to and, where what is written depends on what was read,    *)
(* the row that was read: SQLAlchemy updates only the columns a handler    *)
(* assigned, so a commit keeps whatever another session wrote to the       *)
(* others.  Timestamps are booleans (NULL or not).                         *)
(***************************************************************************)
EXTENDS DealState, Money, Stripe

CONSTANTS
    Terms,        \* the columns fixed when the deal was created
    Quantities    \* the verified quantities a reviewer may enter

ASSUME TermsAssumption ==
    /\ Terms \in [ pricing_model : {"fixed", "per_view"},
                   listed_price : Nat, pool_max_budget : Nat,
                   rate_unit_pence : Nat, rate_unit_quantity : Nat \ {0},
                   seller_pct : 0..100, buyer_pct : 0..100 ]
    /\ Terms.pricing_model = "fixed" => Terms.pool_max_budget = 0
    /\ Quantities \subseteq Nat

ASSUME ChargeAssumption ==
    Charge = TotalChargeFor(Terms.listed_price, Terms.pool_max_budget,
                            Terms.seller_pct, Terms.buyer_pct)

ASSUME NoneAssumption ==
    None \notin PIs \cup DPs \cup Status \cup DisputeStatus \cup Nat

HasPool == Terms.pricing_model = "per_view"
FixedNet == DealMoney(Terms.listed_price, Terms.seller_pct, Terms.buyer_pct).net_to_owner

\* The Stripe object a row refers to.
Ref == [ obj : {"payment_intent", "charge", "transfer", "refund", "dispute"},
         id : PIs \cup DPs \cup Nat ]
RefTo(obj, id) == [obj |-> obj, id |-> id]

DealRow ==
    [ status : Status,
      business_approved : BOOLEAN, owner_approved : BOOLEAN,
      payment_intent_id : PIs \cup {None}, charge_id : PIs \cup {None},
      transfer_id : {None} \cup Nat, refund_id : {None} \cup Nat,
      funded_at : BOOLEAN, verified_at : BOOLEAN, paid_at : BOOLEAN,
      proof_grace_deadline : {"none", "open", "past"},
      pool_released_amount : {None} \cup Nat, pool_refunded_amount : {None} \cup Nat,
      dispute_status : DisputeStatus \cup {None},
      status_before_dispute : Status \cup {None} ]

\* A direct invitation, or an application (by applying the owner approved).
NewDeal(applied) ==
    [ status |-> "awaiting_approval",
      business_approved |-> FALSE, owner_approved |-> applied,
      payment_intent_id |-> None, charge_id |-> None,
      transfer_id |-> None, refund_id |-> None,
      funded_at |-> FALSE, verified_at |-> FALSE, paid_at |-> FALSE,
      proof_grace_deadline |-> "none",
      pool_released_amount |-> None, pool_refunded_amount |-> None,
      dispute_status |-> None, status_before_dispute |-> None ]

-----------------------------------------------------------------------------
\* The parties' handlers (routers/deals.py, routers/proofs.py).

ApproveAllowed(read) == ~read.funded_at

Approve(d, read, party) ==
  LET business == read.business_approved \/ party = "business"
      owner    == read.owner_approved \/ party = "owner"
  IN  [d EXCEPT
        !.business_approved = @ \/ party = "business",
        !.owner_approved    = @ \/ party = "owner",
        !.status = IF business /\ owner /\ CanTransition(read.status, "approved")
                   THEN "approved" ELSE @]

\* fund_deal up to the PaymentIntent: the listing or campaign may be gone.
FundAllowed(read, source_removed) ==
    /\ ~read.funded_at
    /\ read.business_approved /\ read.owner_approved
    /\ ~( /\ source_removed
          /\ read.status \in {"awaiting_approval", "approved", "awaiting_funding"} )

AwaitFunding(d, p) == [d EXCEPT !.payment_intent_id = p, !.status = "awaiting_funding"]

DeclineAllowed(read) == ~read.funded_at /\ CanTransition(read.status, "cancelled")

\* Mutant of Decline: a status that is not one of the machine's.
DeclineAsDeclined(d) == [d EXCEPT !.status = "declined"]

Decline(d) == [d EXCEPT !.status = "cancelled"]

SubmitProofAllowed(read) == read.funded_at /\ read.status \notin ProofClosedStates
SubmitProof(d, read) ==
    [d EXCEPT !.status = IF CanTransition(read.status, "proof_submitted")
                         THEN "proof_submitted" ELSE @]

-----------------------------------------------------------------------------
\* The reviewers' handlers (routers/review.py and what it calls in services.py).

\* Mutant of NoOpenDispute: the check is left out.
NoDisputeCheck(read) == TRUE

NoOpenDispute(read) == read.dispute_status = None

\* Mutant of VerifyAllowed: an open grace window does not hold approval back.
VerifyDuringGrace(read, decision, target, has_proof) ==
    /\ NotFinal(read)
    /\ NoOpenDispute(read)
    /\ read.funded_at
    /\ ~read.verified_at
    /\ has_proof
    /\ CanTransition(read.status, target)

VerifyAllowed(read, decision, target, has_proof) ==
    /\ NotFinal(read)
    /\ NoOpenDispute(read)
    /\ read.funded_at
    /\ ~read.verified_at
    /\ ~( /\ decision = "approved"
          /\ read.status = "changes_requested"
          /\ read.proof_grace_deadline = "open" )
    /\ has_proof
    /\ CanTransition(read.status, target)

MarkVerified(d) == [d EXCEPT !.verified_at = TRUE, !.status = "verified"]
SendBack(d, target, grace) ==
    [d EXCEPT !.status = target,
              !.proof_grace_deadline = IF grace THEN "open" ELSE @]
ReleaseAllowed(read) ==
    /\ NoOpenDispute(read)
    /\ read.funded_at
    /\ PayoutEligible(read)
    /\ CanTransition(read.status, "paid")

\* Mutant of MarkPaid: paid_at is not set.
MarkPaidUndated(d, n) == [d EXCEPT !.transfer_id = n, !.status = "paid"]

MarkPaid(d, n) == [d EXCEPT !.transfer_id = n, !.paid_at = TRUE, !.status = "paid"]
MarkSettled(d, n, gross) == [MarkPaid(d, n) EXCEPT !.pool_released_amount = gross]
MarkPoolRefunded(d, n, amount) ==
    [d EXCEPT !.refund_id = n, !.pool_refunded_amount = amount]

SettleAllowed(read) == ReleaseAllowed(read) /\ read.proof_grace_deadline # "open"

RefundAllowed(read) ==
    /\ NoOpenDispute(read)
    /\ read.funded_at
    /\ ~read.paid_at
    /\ CanTransition(read.status, "refunded")

MarkRefunded(d, n) == [d EXCEPT !.refund_id = n, !.status = "refunded"]

-----------------------------------------------------------------------------
\* What the Stripe events do to the row (services.py).

MarkFunded(d, p) ==
    [d EXCEPT !.funded_at = TRUE, !.status = "funded", !.charge_id = p]

\* Mutant of Freezes: any unpaid deal is frozen.
FreezesUnpaid(read) == ~read.paid_at

Freezes(read) == ~read.paid_at /\ CanTransition(read.status, "disputed")

OpenDispute(d, read, status) ==
    IF Freezes(read)
    THEN [d EXCEPT !.dispute_status = status, !.status = "disputed",
                   !.status_before_dispute = read.status]
    ELSE [d EXCEPT !.dispute_status = status]

\* Closing a dispute: a deal paid before it opened, or one that is not frozen,
\* only loses the badge.
CloseDispute(d, read, row, outcome) ==
  LET restored == IF read.status_before_dispute # None THEN read.status_before_dispute
                  ELSE IF row.deal_status_before # None THEN row.deal_status_before
                  ELSE "funded"
  IN  IF row.payout_already_released \/ read.status # "disputed"
      THEN [d EXCEPT !.dispute_status = None]
      ELSE [d EXCEPT !.dispute_status = None, !.status_before_dispute = None,
                     !.status = IF outcome = "lost" THEN "refunded" ELSE restored]
=============================================================================

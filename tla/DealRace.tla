------------------------------ MODULE DealRace ------------------------------
(***************************************************************************)
(* The same deal when its handlers overlap and die.  FastAPI runs the      *)
(* handlers in a pool of threads, each on a database session of its own;   *)
(* PostgreSQL commits them at READ COMMITTED and no row is locked.  So a   *)
(* worker reads the row and checks it, calls Stripe, and commits, and      *)
(* anything may happen in between, its own death included.  The webhook    *)
(* endpoint is a coroutine that never yields: one event at a time.         *)
(*                                                                         *)
(* Guards and effects are those of DealRow; only when they are evaluated,  *)
(* and against which copy of the row, differs from Deal.                   *)
(***************************************************************************)
EXTENDS DealProperties

CONSTANTS
    Workers,       \* the threads that serve requests
    Requests,      \* the requests that may be made, records [op, arg]
    Start,         \* "awaiting_approval", or "approved" by both sides
    MaxCalls       \* bound on the requests served

ASSUME StartAssumption ==
    /\ Start \in {"awaiting_approval", "approved"}
    /\ MaxCalls \in Nat

\* What the request schemas let through.
ASSUME RequestsAssumption ==
    \A req \in Requests :
        /\ req.op = "accept" => req.arg \in Quantities \cup {None}
        /\ req.op = "settle" => req.arg \in Quantities
        /\ req.op = "send_back" => req.arg \in {"rejected", "changes_requested"}
        /\ req.op = "grace" => req.arg = "changes_requested"

VARIABLES
    call,          \* what each worker is doing
    calls          \* requests begun

raceVars == <<vars, call, calls>>

Idle == [stage |-> "idle"]

\* A request being served: how far it is, the row it read, and the Stripe
\* object it made.
Call == [stage: {"checked", "called", "half"}, req: Requests, read: DealRow,
         obj: PIs \cup Nat \cup {None}]

RaceTypeOK ==
    /\ TypeOK
    /\ call \in [Workers -> {Idle} \cup Call]
    /\ calls \in 0..MaxCalls

RaceInit ==
    /\ InitWith([NewDeal(FALSE) EXCEPT !.status = Start,
                                       !.business_approved = (Start = "approved"),
                                       !.owner_approved = (Start = "approved")])
    /\ call = [w \in Workers |-> Idle]
    /\ calls = 0

At(w, op, stage) == call[w].stage = stage /\ call[w].req.op = op

Ends(w) == call' = [call EXCEPT ![w] = Idle] /\ UNCHANGED calls
MovesTo(w, stage, obj) ==
    call' = [call EXCEPT ![w].stage = stage, ![w].obj = obj] /\ UNCHANGED calls

-----------------------------------------------------------------------------
\* The checks of a handler, on the row as it is now.

Checks(req) ==
    \/ req.op = "approve" /\ ApproveAllowed(deal)
    \/ req.op = "fund" /\ FundAllowed(deal, source_removed) /\ deal.payment_intent_id = None
    \/ req.op = "decline" /\ DeclineAllowed(deal)
    \/ req.op = "proof" /\ SubmitProofAllowed(deal)
    \/ /\ req.op = "accept"
       /\ HasPool => req.arg # None
       /\ VerifyAllowed(deal, "approved", "verified", has_proof)
    \/ req.op = "send_back" /\ VerifyAllowed(deal, req.arg, req.arg, has_proof)
    \/ req.op = "grace" /\ HasPool /\ VerifyAllowed(deal, req.arg, req.arg, has_proof)
    \/ req.op = "release" /\ ~HasPool /\ ReleaseAllowed(deal)
    \/ req.op = "refund" /\ RefundAllowed(deal)
    \/ req.op = "settle" /\ HasPool /\ SettleAllowed(deal) /\ verified_quantity = req.arg
    \/ req.op = "refresh" /\ deal.payment_intent_id # None /\ ~deal.funded_at
    \/ /\ req.op = "event"
       /\ req.arg \in sent \ processed
       /\ \A w \in Workers : call[w] # Idle => call[w].req.op # "event"

Begin(w, req) ==
    /\ call[w] = Idle
    /\ calls < MaxCalls
    /\ Checks(req)
    /\ call' = [call EXCEPT ![w] =
                  [stage |-> "checked", req |-> req, read |-> deal, obj |-> None]]
    /\ calls' = calls + 1
    /\ UNCHANGED vars

\* The connection drops, the process is restarted or Stripe cannot be reached:
\* the session is rolled back and nobody resumes the request.
Dies(w) ==
    /\ call[w] # Idle
    /\ Ends(w)
    /\ UNCHANGED vars

-----------------------------------------------------------------------------
\* The calls to Stripe, after the checks and before the commit.

\* Mutant of MakeIntent: the business gets the secret before the commit.
OfferedEarly(w, p) ==
    /\ At(w, "fund", "checked")
    /\ CreateIntent(p, "offered")
    /\ MovesTo(w, "called", p)
    /\ UNCHANGED <<dbVars, transferVars, refundVars, dispute, sent>>

MakeIntent(w, p) ==
    /\ At(w, "fund", "checked")
    /\ CreateIntent(p, "created")
    /\ MovesTo(w, "called", p)
    /\ UNCHANGED <<dbVars, transferVars, refundVars, dispute, sent>>

Settlement(w) == PoolSettlementFor(Terms, call[w].req.arg)

\* Mutant of MakeTransfer: source_transaction is not passed, so the charge caps
\* nothing.
FromBalance(w) ==
    /\ At(w, "release", "checked")
    /\ transfers' = Append(transfers, [charge |-> call[w].read.charge_id, amount |-> FixedNet])
    /\ MovesTo(w, "called", Len(transfers'))
    /\ UNCHANGED <<dbVars, intent, transferred, refundVars, dispute, sent>>

MakeTransfer(w) ==
    /\ \/ At(w, "release", "checked") /\ CreateTransfer(call[w].read.charge_id, FixedNet)
       \/ /\ At(w, "settle", "checked")
          /\ CreateTransfer(call[w].read.charge_id,
                            FixedNet + Settlement(w).pool_net_to_owner)
    /\ MovesTo(w, "called", Len(transfers'))
    /\ UNCHANGED <<dbVars, intent, refundVars, dispute, sent>>

MakeRefund(w) ==
    /\ At(w, "refund", "checked")
    /\ LET p == call[w].read.payment_intent_id
       IN CreateRefund(p, Charge - Refunded(p), "program")
    /\ MovesTo(w, "called", Len(refunds'))
    /\ UNCHANGED <<dbVars, intent, transferVars, dispute>>

-----------------------------------------------------------------------------
\* The commits.

CommitParty(w) ==
  LET c == call[w]
  IN  /\ \/ /\ At(w, "approve", "checked")
            /\ deal' = Approve(deal, c.read, c.req.arg)
            /\ UNCHANGED <<has_proof, fresh_proof>>
         \/ /\ At(w, "decline", "checked")
            /\ deal' = Decline(deal)
            /\ UNCHANGED <<has_proof, fresh_proof>>
         \/ /\ At(w, "proof", "checked")
            /\ deal' = SubmitProof(deal, c.read)
            /\ has_proof' = TRUE /\ fresh_proof' = TRUE
      /\ Ends(w)
      /\ UNCHANGED <<rowVars, processed, verified_quantity, source_removed, stripeVars>>

\* The business gets the secret of the PaymentIntent with the response.
CommitFunding(w) ==
  LET p == call[w].obj
  IN  /\ At(w, "fund", "called")
      /\ CanTransition(call[w].read.status, "awaiting_funding")
      /\ deal' = AwaitFunding(deal, p)
      /\ intent' = [intent EXCEPT ![p] = "offered"]
      /\ Ends(w)
      /\ UNCHANGED <<rowVars, processed, reviewVars, source_removed,
                     transferVars, refundVars, dispute, sent>>

CommitReview(w) ==
  LET c == call[w]
  IN  /\ \/ /\ At(w, "accept", "checked")
            /\ deal' = MarkVerified(deal)
            /\ verified_quantity' = c.req.arg
            /\ Ends(w)
            /\ UNCHANGED fresh_proof
         \/ /\ At(w, "send_back", "checked")
            /\ deal' = SendBack(deal, c.req.arg, FALSE)
            /\ fresh_proof' = FALSE
            /\ Ends(w)
            /\ UNCHANGED verified_quantity
         \/ /\ At(w, "grace", "checked")         \* the status first, ...
            /\ deal' = SendBack(deal, c.req.arg, FALSE)
            /\ fresh_proof' = FALSE
            /\ MovesTo(w, "half", None)
            /\ UNCHANGED verified_quantity
         \/ /\ At(w, "grace", "half")            \* ... then the deadline
            /\ deal' = [deal EXCEPT !.proof_grace_deadline = "open"]
            /\ Ends(w)
            /\ UNCHANGED <<verified_quantity, fresh_proof>>
      /\ UNCHANGED <<rowVars, processed, has_proof, source_removed, stripeVars>>

CommitRelease(w) ==
  LET n == call[w].obj
  IN  /\ At(w, "release", "called")
      /\ deal' = MarkPaid(deal, n)
      /\ Log(PayoutEntry(FixedNet, n))
      /\ Ends(w)
      /\ UNCHANGED <<disputes, processed, reviewVars, source_removed, stripeVars>>

\* Mutant of CommitRefund: the deal is marked before Stripe is called.
MarksRefundFirst(w) ==
    /\ At(w, "refund", "checked")
    /\ deal' = MarkRefunded(deal, None)
    /\ Ends(w)
    /\ UNCHANGED <<rowVars, processed, reviewVars, source_removed, stripeVars>>

CommitRefund(w) ==
  LET n == call[w].obj
  IN  /\ At(w, "refund", "called")
      /\ deal' = MarkRefunded(deal, n)
      /\ Log(RefundEntry(Charge, n))
      /\ Ends(w)
      /\ UNCHANGED <<disputes, processed, reviewVars, source_removed, stripeVars>>

\* The settlement's first commit, and its end when nothing is to be returned.
CommitSettlement(w) ==
  LET n == call[w].obj
      paid == MarkSettled(deal, n, Settlement(w).pool_gross)
      net == FixedNet + Settlement(w).pool_net_to_owner
  IN  /\ At(w, "settle", "called")
      /\ \/ /\ Settlement(w).refund_to_business > 0
            /\ deal' = paid
            /\ MovesTo(w, "half", None)
         \/ /\ Settlement(w).refund_to_business <= 0
            /\ deal' = [paid EXCEPT !.pool_refunded_amount = 0]
            /\ Ends(w)
      /\ Log(PayoutEntry(net, n))
      /\ UNCHANGED <<disputes, processed, reviewVars, source_removed, stripeVars>>

\* Its second call and second commit; between the two it may still die, which
\* Stripe's refusal does not tell from the outside: both leave the refund out.
SettlementRefund(w) ==
  LET unused == Settlement(w).refund_to_business
  IN  /\ At(w, "settle", "half")
      /\ CreateRefund(call[w].read.payment_intent_id, unused, "program")
      /\ \/ /\ deal' = MarkPoolRefunded(deal, Len(refunds'), unused)
            /\ Log(RefundEntry(unused, Len(refunds')))
         \/ UNCHANGED <<deal, ledger>>
      /\ Ends(w)
      /\ UNCHANGED <<disputes, processed, reviewVars, source_removed,
                     intent, transferVars, dispute>>

-----------------------------------------------------------------------------
\* Stripe's events and /refresh.

CommitRefresh(w) ==
    /\ At(w, "refresh", "checked")
    /\ RefreshDeal(call[w].read)
    /\ Ends(w)

CommitMoneyEvent(w) ==
    /\ At(w, "event", "checked")
    /\ \/ OnPaymentSucceeded(call[w].req.arg, call[w].read)
       \/ OnChargeRefunded(call[w].req.arg, call[w].read)
    /\ Ends(w)

\* Closing takes one commit only when the dispute is on record and the deal is
\* frozen or was paid.
Closes(w) == call[w].req.arg.type = "charge.dispute.closed"
ClosesInParts(w) ==
  LET c == call[w]
      dp == c.req.arg.obj
  IN  /\ Closes(w)
      /\ c.read.charge_id = dispute[dp].charge
      /\ ~disputes[dp].closed_at
      /\ \/ ~disputes[dp].recorded
         \/ ~disputes[dp].payout_already_released /\ c.read.status # "disputed"

CommitDisputeEvent(w) ==
    /\ At(w, "event", "checked")
    /\ ~ClosesInParts(w)
    /\ OnDispute(call[w].req.arg, call[w].read)
    /\ Ends(w)

\* A dispute nobody had heard of is opened in a commit of its own, after which
\* the handler goes on with the rows as they are then.
CommitMissedOpening(w) ==
  LET dp == call[w].req.arg.obj
  IN  /\ At(w, "event", "checked")
      /\ ClosesInParts(w)
      /\ ~disputes[dp].recorded
      /\ EnsureOpen(dp, call[w].read)
      /\ call' = [call EXCEPT ![w].read = deal']
      /\ UNCHANGED calls
      /\ UNCHANGED <<processed, reviewVars, source_removed, stripeVars>>

\* The audit entry about a deal that is not frozen commits the dispute's row
\* and the ledger; the badge follows in the next commit.
CommitDecision(w) ==
  LET dp == call[w].req.arg.obj
  IN  /\ At(w, "event", "checked")
      /\ ClosesInParts(w)
      /\ disputes[dp].recorded
      /\ Decide(dp, call[w].read)
      /\ MovesTo(w, "half", None)
      /\ UNCHANGED <<deal, processed, reviewVars, source_removed, stripeVars>>

CommitBadge(w) ==
    /\ At(w, "event", "half")
    /\ deal' = [deal EXCEPT !.dispute_status = None]
    /\ Acknowledge(call[w].req.arg)
    /\ Ends(w)
    /\ UNCHANGED <<rowVars, reviewVars, source_removed, stripeVars>>

-----------------------------------------------------------------------------
Serve(w) ==
    \/ \E req \in Requests : Begin(w, req)
    \/ Dies(w)
    \/ \E p \in PIs : MakeIntent(w, p)
    \/ MakeTransfer(w) \/ MakeRefund(w)
    \/ CommitParty(w) \/ CommitFunding(w) \/ CommitReview(w)
    \/ CommitRelease(w) \/ CommitRefund(w)
    \/ CommitSettlement(w) \/ SettlementRefund(w)
    \/ CommitRefresh(w)
    \/ CommitMoneyEvent(w)
    \/ CommitDisputeEvent(w) \/ CommitMissedOpening(w)
    \/ CommitDecision(w) \/ CommitBadge(w)

Outside == StripeActs \/ GraceDeadlinePasses

RaceNext ==
    \/ \E w \in Workers : Serve(w)
    \/ Outside /\ UNCHANGED <<call, calls>>

RaceSpec == RaceInit /\ [][RaceNext]_raceVars

-----------------------------------------------------------------------------
\* What holds however requests overlap and wherever they die.

\* The business paid at most one of the PaymentIntents that overlapping fund
\* requests made for it.
PaidOneIntent ==
    \A p, q \in PIs : intent[p] = "succeeded" /\ intent[q] = "succeeded" => p = q

\* Nothing is transferred before evidence was approved on a funded deal, a paid
\* row names a Transfer that exists, and two releases of a fixed-price deal make
\* one Transfer, unless the business paid two PaymentIntents: the second would
\* overdraw the charge both name as source_transaction (review.py
\* release_payout, settle_pool; services.py create_deal_payout).
PayoutIsEarnedOnce ==
    /\ transfers # <<>> => /\ deal.verified_at /\ has_proof /\ deal.funded_at
                           /\ \A n \in DOMAIN transfers :
                                 intent[transfers[n].charge] = "succeeded"
    /\ deal.paid_at => deal.transfer_id \in DOMAIN transfers
    /\ ~HasPool /\ PaidOneIntent => Len(transfers) <= 1

\* A deal never says refunded unless the bank or Stripe gave the money of a
\* payment back, and it gave back the payment the row names unless the business
\* had paid two: then the row may name one PaymentIntent and, from the other's
\* event, the charge of the other, and a refund goes to the first
\* (deals.py fund_deal; services.py mark_deal_funded_from_pi, refund_deal,
\* confirm_refund_from_charge, close_dispute_from_event).
RefundedMeansReturned ==
    deal.status = "refunded" =>
        \E p \in PIs :
            /\ \/ FullyRefunded(p)
               \/ \E dp \in DPs : dispute[dp].charge = p /\ dispute[dp].status = "lost"
            /\ PaidOneIntent => p = deal.charge_id

\* Every row of the ledger stands for something Stripe did, in that amount, or
\* in the charge's when it is a refund that returned the last of one
\* (services.py: each ledger.record follows the call it records).
LedgerIsBacked ==
    \A n \in DOMAIN ledger :
      LET row == ledger[n]
      IN  \/ row.ref.obj = "payment_intent" /\ intent[row.ref.id] = "succeeded"
          \/ /\ row.ref.obj = "transfer" /\ row.ref.id \in DOMAIN transfers
             /\ row.amount = -transfers[row.ref.id].amount
          \/ /\ row.ref.obj = "refund" /\ row.ref.id \in DOMAIN refunds
             /\ MayBeRecordedAs(row.ref.id, -row.amount)
          \/ row.ref.obj = "charge" /\ FullyRefunded(row.ref.id)
          \/ row.ref.obj = "dispute" /\ dispute[row.ref.id].status = "lost"

-----------------------------------------------------------------------------
\* What one request at a time keeps wherever it dies.  Overlapping requests
\* can lose it: every check reads the row some time before the commit.

\* A refund that Stripe made and the program died before recording is on the
\* row once its event was handled (services.py confirm_refund_from_charge).
OwnRefundSurvivesCrash ==
    \A n \in DOMAIN refunds :
        (/\ refunds[n].by = "program"
         /\ Ev("charge.refunded", n) \in processed) => deal.status = "refunded"

\* A business pays for a deal once: a PaymentIntent that was made and not
\* recorded is one nobody can pay, and the charge of a funded deal is on the
\* ledger once, however often the event and the client's /refresh tell of it
\* (deals.py fund_deal, services.py mark_deal_funded_from_pi).
ChargedOnce ==
    /\ \A p, q \in PIs :
          {intent[p], intent[q]} \subseteq {"offered", "succeeded"} => p = q
    /\ deal.funded_at =>
          Cardinality(Rows("deal_charge", RefTo("payment_intent", deal.payment_intent_id))) = 1

-----------------------------------------------------------------------------
\* What the repository says and overlapping requests do not keep.

\* review.py:395-397: a pool deal is settled once, paid_at sees to it.  Two
\* settlements that both read an unpaid deal both pay.
SettledOnce == HasPool => Len(transfers) <= 1
=============================================================================

------------------------------- MODULE Stripe -------------------------------
(***************************************************************************)
(* The part of Stripe the deal code talks to, modelled from the calls the  *)
(* code makes and the events it receives (the service itself is external): *)
(* PaymentIntents, the Transfers and Refunds drawn on their charges, the   *)
(* disputes cardholders open, and the events Stripe sends.  The charge of  *)
(* a PaymentIntent is named by the PaymentIntent.                          *)
(*                                                                         *)
(* `sent' only grows: a webhook event stays deliverable until the program  *)
(* has marked it processed, so events arrive in any order, any number of   *)
(* times, or never.                                                        *)
(***************************************************************************)
EXTENDS Integers, Sequences

CONSTANTS
    PIs,          \* PaymentIntent ids
    DPs,          \* dispute ids
    None,         \* the null of the database columns
    Charge,       \* pence charged by a PaymentIntent of the deal
    PartialRefunds, \* the pence a person may return of a charge on the dashboard
    MaxRefunds    \* bound on the refunds made outside the program

ASSUME PartialRefundsAssumption == PartialRefunds \subseteq Nat

VARIABLES
    intent,       \* PaymentIntent -> its state
    transfers,    \* the Transfers made, in order
    refunds,      \* the Refunds made, in order
    transferred,  \* PaymentIntent -> pence of its charge already transferred
    refunded,     \* PaymentIntent -> pence already refunded, by whom
    dispute,      \* dispute -> the charge it is on and Stripe's status of it
    sent          \* the events Stripe has sent

transferVars == <<transfers, transferred>>
refundVars == <<refunds, refunded>>
stripeVars == <<intent, transferVars, refundVars, dispute, sent>>

\* "created" exists at Stripe but no client holds its secret; "offered" can
\* be paid by the business.
IntentStatus == {"none", "created", "offered", "succeeded"}
DisputeStatus == {"needs_response", "under_review", "won", "lost"}
DisputeEvents == { "charge.dispute.created", "charge.dispute.updated",
                   "charge.dispute.closed", "charge.dispute.funds_withdrawn",
                   "charge.dispute.funds_reinstated" }

Transfer == [charge: PIs, amount: Nat]
Refund == [charge: PIs, amount: Nat, by: {"program", "dashboard"}]
Event == [ type : {"payment_intent.succeeded", "charge.refunded"} \cup DisputeEvents,
           obj : PIs \cup DPs \cup Nat ]   \* a PaymentIntent, a dispute, the nth Refund

Ev(type, obj) == [type |-> type, obj |-> obj]

StripeTypeOK ==
    /\ intent \in [PIs -> IntentStatus]
    /\ transfers \in Seq(Transfer)
    /\ refunds \in Seq(Refund)
    /\ transferred \in [PIs -> Nat]
    /\ refunded \in [PIs -> [program: Nat, dashboard: Nat]]
    /\ dispute \in [DPs -> [charge: PIs \cup {None}, status: DisputeStatus \cup {None}]]
    /\ sent \subseteq Event

StripeInit ==
    /\ intent = [p \in PIs |-> "none"]
    /\ transfers = <<>>
    /\ refunds = <<>>
    /\ transferred = [p \in PIs |-> 0]
    /\ refunded = [p \in PIs |-> [program |-> 0, dashboard |-> 0]]
    /\ dispute = [dp \in DPs |-> [charge |-> None, status |-> None]]
    /\ sent = {}

\* What the Charge object reports as amount_refunded.
Refunded(p) == refunded[p].program + refunded[p].dashboard
FullyRefunded(p) == Refunded(p) = Charge

Disputed(p) == \E dp \in DPs : /\ dispute[dp].charge = p
                               /\ dispute[dp].status # "won"
\* Stripe draws a Transfer with source_transaction from one charge and a
\* Refund from the same; neither can exceed what was charged, a zero amount
\* is an error, and what was not paid, is under dispute or was lost to one
\* cannot be refunded.
CanTransfer(p, amount) == amount > 0 /\ transferred[p] + amount <= Charge
CanRefund(p, amount) == /\ amount > 0
                        /\ intent[p] = "succeeded"
                        /\ Refunded(p) + amount <= Charge
                        /\ ~Disputed(p)

-----------------------------------------------------------------------------
\* Calls the program makes.  Each says what it changes of Stripe; the handler
\* that makes the call leaves the rest unchanged.

CreateIntent(p, status) ==
    /\ intent[p] = "none"
    /\ intent' = [intent EXCEPT ![p] = status]

CreateTransfer(p, amount) ==
    /\ CanTransfer(p, amount)
    /\ transfers' = Append(transfers, [charge |-> p, amount |-> amount])
    /\ transferred' = [transferred EXCEPT ![p] = @ + amount]

CreateRefund(p, amount, by) ==
    /\ CanRefund(p, amount)
    /\ refunds' = Append(refunds, [charge |-> p, amount |-> amount, by |-> by])
    /\ refunded' = [refunded EXCEPT ![p][by] = @ + amount]
    /\ sent' = sent \cup {Ev("charge.refunded", Len(refunds) + 1)}

-----------------------------------------------------------------------------
\* Steps of the customer, the cardholder's bank, a person on the dashboard.

CustomerPays(p) ==
    /\ intent[p] = "offered"
    /\ intent' = [intent EXCEPT ![p] = "succeeded"]
    /\ sent' = sent \cup {Ev("payment_intent.succeeded", p)}
    /\ UNCHANGED <<transferVars, refundVars, dispute>>

\* A refund of a part of the charge, or of everything left on it, made on
\* Stripe's dashboard.
DashboardRefund(p, amount) ==
    /\ Len(refunds) < MaxRefunds
    /\ CreateRefund(p, amount, "dashboard")
    /\ UNCHANGED <<intent, transferVars, dispute>>

CardholderDisputes(dp, p) ==
    /\ intent[p] = "succeeded"
    /\ dispute[dp].status = None
    /\ dispute' = [dispute EXCEPT ![dp] = [charge |-> p, status |-> "needs_response"]]
    /\ sent' = sent \cup {Ev("charge.dispute.created", dp),
                          Ev("charge.dispute.funds_withdrawn", dp)}
    /\ UNCHANGED <<intent, transferVars, refundVars>>

DisputeProgresses(dp) ==
    /\ dispute[dp].status = "needs_response"
    /\ dispute' = [dispute EXCEPT ![dp].status = "under_review"]
    /\ sent' = sent \cup {Ev("charge.dispute.updated", dp)}
    /\ UNCHANGED <<intent, transferVars, refundVars>>

DisputeEnds(dp, outcome) ==
    /\ dispute[dp].status \in {"needs_response", "under_review"}
    /\ dispute' = [dispute EXCEPT ![dp].status = outcome]
    /\ sent' = sent \cup {Ev("charge.dispute.closed", dp)}
                    \cup (IF outcome = "won"
                          THEN {Ev("charge.dispute.funds_reinstated", dp)} ELSE {})
    /\ UNCHANGED <<intent, transferVars, refundVars>>

\* Everything Stripe and the people on its side do of their own accord.
StripeStep ==
    \/ \E p \in PIs :
          \/ CustomerPays(p)
          \/ \E amount \in PartialRefunds \cup {Charge - Refunded(p)} :
                DashboardRefund(p, amount)
    \/ \E dp \in DPs :
          \/ \E p \in PIs : CardholderDisputes(dp, p)
          \/ DisputeProgresses(dp)
          \/ \E outcome \in {"won", "lost"} : DisputeEnds(dp, outcome)
=============================================================================

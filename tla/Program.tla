------------------------------ MODULE Program ------------------------------
(***************************************************************************)
(* The life of one affiliate program: its funding and top-ups, the         *)
(* platform owners who join it, the sales the business's store reports,    *)
(* and the settlement at the end of the campaign.                          *)
(*                                                                         *)
(* A report of the store is checked in one step and committed in another.  *)
(* The hooks of Shopify and WooCommerce are coroutines, which read the     *)
(* program's row in a step before these, then await the body; the loop     *)
(* runs one of them at a time between awaits.  Wix's and the snippet run   *)
(* in threads.  The settlement is split at each Stripe call and commit,    *)
(* and may die at any of them.  A payment is confirmed in three steps, by   *)
(* the webhook and by a /refresh at the same time: the check of the row,   *)
(* Stripe's answer, the commit.  The other handlers are one step.          *)
(***************************************************************************)
EXTENDS Money, FiniteSetsExt, Functions, SequencesExt

CONSTANTS
    Owners,         \* platform owners
    Orders,         \* order ids of the store
    None,           \* the null of the database columns
    Programs,       \* the terms a program may be created with
    Hosts,          \* where the business's checkout may live
    SaleAmounts,    \* order totals the store may report
    TopUps,         \* top-ups that may be asked for
    TopUpAmount,    \* the principal of a top-up
    Handlers,       \* the store's reports handled at a time
    MaxSales        \* bound on the affiliate_conversions rows

VARIABLES
    program,        \* the affiliate_programs row
    member,         \* owner -> the newest application or its code
    paid_net,       \* owner -> payout_net_amount of the code
    sales,          \* the affiliate_conversions rows, oldest first
    topup,          \* top-up -> status of its row
    holding_over,   \* campaign_ends_at and the holding period are past
    confirming,     \* who confirms payments -> the one in hand, what was read of the pool
    recounted,      \* (history) payments committed when they already counted
    tracking,       \* handler -> the report it handles and what it read of the row
    raced,          \* (history) orders two handlers had found unknown at a time
    settlement,     \* the settlement in progress
    died,           \* (history) a settlement died half way
    intent,         \* payment -> its PaymentIntent at Stripe
    transfers,      \* the Transfers Stripe made, in order
    refunded,       \* pence Stripe returned of the program's charge
    processed       \* payments whose payment_intent.succeeded is acknowledged

stripeVars == <<intent, transfers, refunded>>
confirmVars == <<confirming, recounted>>
fundingVars == <<topup, intent, processed, confirmVars>>
trackVars == <<tracking, raced>>
settlingVars == <<paid_net, holding_over, settlement, died, transfers, refunded>>
vars == <<program, member, paid_net, sales, topup, confirming, recounted, holding_over,
          tracking, raced, settlement, died, stripeVars, processed>>

Payments == {"funding"} \cup TopUps
Confirmers == {"refresh", "webhook"}
ThreadedHosts == {"wix", "squarespace", "custom"}
HookHosts == {"shopify", "woo"}

Sale == [ref: Orders \cup {None}, owner: Owners, commission: Nat,
         status: {"pending", "reversed", "settled"}]
Terms == [commission_type: {"flat", "pct"}, commission_rate: Nat, pool_max_budget: Nat,
          payout_fee_percent: 0..100, funding_fee_percent: 0..100]
ProgramRow ==
    [ terms : Programs, pool_max_budget : Nat, pool_committed_amount : Nat,
      pool_released_amount : {None} \cup Nat, pool_refunded_amount : {None} \cup Nat,
      host : {None} \cup Hosts,
      status : {"draft", "awaiting_funding", "funded", "live", "ended", "settled"} ]
Report == [at: {"read", "checked"}, sale: {None} \cup Sale, reverses: 0..MaxSales,
           live: BOOLEAN, committed: Nat, budget: Nat]
Confirmation == [payment: Payments, budget: {None} \cup Nat]
Payout == [owner: Owners, net: Nat]
Settling ==
    [ at : {"idle", "checked", "paying", "sent", "refunding", "finishing"},
      destinations : SUBSET Owners, loaded : SUBSET (1..MaxSales), due : Seq(Payout),
      refund : Nat, released : Nat, refund_made : BOOLEAN ]

ASSUME ProgramAssumption ==
    /\ Programs \subseteq Terms
    /\ SaleAmounts \subseteq Nat
    /\ TopUpAmount \in Nat /\ MaxSales \in Nat
    /\ Hosts \subseteq HookHosts \cup ThreadedHosts
    /\ None \notin Nat \cup HookHosts \cup ThreadedHosts \cup Orders \cup Owners
    /\ None \notin Sale \cup Report \cup Confirmation
    /\ "funding" \notin TopUps
\* MIN_TOPUP_AMOUNT: the fee on a top-up is a penny or more, where there is one.
ASSUME TopUpsPayFees ==
    \A terms \in Programs :
       terms.funding_fee_percent = 0 \/ TopUpAmount * terms.funding_fee_percent >= 100

TypeOK ==
    /\ program \in ProgramRow
    /\ member \in [Owners -> {"none", "pending", "rejected", "active", "removed"}]
    /\ paid_net \in [Owners -> {None} \cup Nat]
    /\ sales \in Seq(Sale)
    /\ topup \in [TopUps -> {"none", "pending", "funded"}]
    /\ confirming \in [Confirmers -> {None} \cup Confirmation]
    /\ recounted \subseteq Payments
    /\ holding_over \in BOOLEAN
    /\ tracking \in [Handlers -> {None} \cup Report]
    /\ raced \subseteq Orders
    /\ settlement \in Settling
    /\ died \in BOOLEAN
    /\ intent \in [Payments -> {"none", "offered", "succeeded"}]
    /\ transfers \in Seq(Payout)
    /\ refunded \in Nat
    /\ processed \subseteq Payments

Idle == [at |-> "idle", destinations |-> {}, loaded |-> {}, due |-> <<>>,
         refund |-> 0, released |-> 0, refund_made |-> FALSE]

Init ==
    /\ \E terms \in Programs :
          program = [ terms |-> terms, pool_max_budget |-> terms.pool_max_budget,
                      pool_committed_amount |-> 0, pool_released_amount |-> None,
                      pool_refunded_amount |-> None, host |-> None, status |-> "draft" ]
    /\ member = [o \in Owners |-> "none"]
    /\ paid_net = [o \in Owners |-> None]
    /\ sales = <<>>
    /\ topup = [t \in TopUps |-> "none"]
    /\ confirming = [c \in Confirmers |-> None]
    /\ recounted = {}
    /\ holding_over = FALSE
    /\ tracking = [h \in Handlers |-> None]
    /\ raced = {}
    /\ settlement = Idle
    /\ died = FALSE
    /\ intent = [p \in Payments |-> "none"]
    /\ transfers = <<>>
    /\ refunded = 0
    /\ processed = {}

-----------------------------------------------------------------------------
\* Funding.

ChargeFor(principal) ==
    DealMoney(principal, program.terms.payout_fee_percent,
              program.terms.funding_fee_percent).charge_amount
\* What Stripe collected for the program itself, the charge of charge_id.
FirstCharge == ChargeFor(program.terms.pool_max_budget)

FundProgram ==
    /\ program.status = "draft"
    /\ intent' = [intent EXCEPT !["funding"] = "offered"]
    /\ program' = [program EXCEPT !.status = "awaiting_funding"]
    /\ UNCHANGED <<member, sales, topup, confirmVars, trackVars, settlingVars, processed>>

TopUpProgram(t) ==
    /\ program.status = "live"
    /\ topup[t] = "none"
    /\ intent' = [intent EXCEPT ![t] = "offered"]
    /\ topup' = [topup EXCEPT ![t] = "pending"]
    /\ UNCHANGED <<program, member, sales, confirmVars, trackVars, settlingVars, processed>>

CustomerPays(p) ==
    /\ intent[p] = "offered"
    /\ intent' = [intent EXCEPT ![p] = "succeeded"]
    /\ UNCHANGED <<program, member, sales, topup, confirmVars, trackVars, settlingVars,
                   processed>>

Counted(p) == IF p = "funding" THEN program.status = "funded" ELSE topup[p] = "funded"
\* What the handler looks for in the row before it asks Stripe.
Awaited(p) ==
    IF p = "funding" THEN program.status = "awaiting_funding" ELSE topup[p] = "pending"

\* mark_affiliate_program_funded_from_pi and mark_affiliate_topup_funded_from_pi
\* check the payment's row, for a /refresh or for payment_intent.succeeded.
ConfirmBegins(c, p) ==
    /\ confirming[c] = None
    /\ Awaited(p)
    /\ c = "webhook" => intent[p] = "succeeded" /\ p \notin processed
    /\ confirming' = [confirming EXCEPT ![c] = [payment |-> p, budget |-> None]]
    /\ UNCHANGED <<program, member, sales, topup, trackVars, settlingVars, intent,
                   processed, recounted>>

\* Stripe says it is paid; only then is the program of a top-up read.
StripeConfirms(c) ==
    /\ confirming[c] # None /\ confirming[c].budget = None
    /\ intent[confirming[c].payment] = "succeeded"
    /\ confirming' = [confirming EXCEPT ![c].budget = program.pool_max_budget]
    /\ UNCHANGED <<program, member, sales, topup, trackVars, settlingVars, intent,
                   processed, recounted>>

\* Stripe does not answer, or not that it is paid, or the handler dies.
ConfirmFails(c) ==
    /\ confirming[c] # None
    /\ confirming' = [confirming EXCEPT ![c] = None]
    /\ UNCHANGED <<program, member, sales, topup, trackVars, settlingVars, intent,
                   processed, recounted>>

\* The row is written whatever became of it since the check, and the pool is
\* what was read of it and the top-up; the webhook may die before it marks
\* the event.
ConfirmCommits(c, marked) ==
    /\ confirming[c] # None /\ confirming[c].budget # None
    /\ LET p == confirming[c].payment
       IN  /\ \/ /\ p = "funding"
                 /\ program' = [program EXCEPT !.status = "funded"]
                 /\ UNCHANGED topup
              \/ /\ p \in TopUps
                 /\ topup' = [topup EXCEPT ![p] = "funded"]
                 /\ program' = [program EXCEPT
                                  !.pool_max_budget = confirming[c].budget + TopUpAmount]
           /\ recounted' = IF Awaited(p) THEN recounted ELSE recounted \cup {p}
           /\ marked => c = "webhook"
           /\ processed' = IF marked THEN processed \cup {p} ELSE processed
    /\ confirming' = [confirming EXCEPT ![c] = None]
    /\ UNCHANGED <<member, sales, trackVars, settlingVars, intent>>

\* payment_intent.succeeded is acknowledged when the payment is seen to count.
\* A program that has gone live in the meantime asks for redelivery for ever.
Acknowledge(p) ==
    /\ confirming["webhook"] = None
    /\ intent[p] = "succeeded" /\ p \notin processed
    /\ Counted(p)
    /\ processed' = processed \cup {p}
    /\ UNCHANGED <<program, member, sales, topup, confirmVars, trackVars, settlingVars, intent>>

\* Where the funding was committed twice this may be done again; that no
\* report is in hand then is a bound.
ConfirmTracking(host) ==
    /\ program.status = "funded"
    /\ \A h \in Handlers : tracking[h] = None
    /\ program' = [program EXCEPT !.status = "live", !.host = host]
    /\ UNCHANGED <<member, sales, trackVars, settlingVars, fundingVars>>

\* A campaign and its holding period take days: no request for the funding
\* that began before is still in hand.
HoldingPeriodEnds ==
    /\ program.status = "live"
    /\ ~holding_over
    /\ \A c \in Confirmers : confirming[c] # None => confirming[c].payment # "funding"
    /\ holding_over' = TRUE
    /\ UNCHANGED <<program, member, paid_net, sales, trackVars, settlement, died,
                   transfers, refunded, fundingVars>>

-----------------------------------------------------------------------------
\* Owners join and leave.

Becomes(o, status) ==
    /\ member' = [member EXCEPT ![o] = status]
    /\ UNCHANGED <<program, sales, trackVars, settlingVars, fundingVars>>

Apply(o) ==
    /\ program.status = "live"
    /\ member[o] \in {"none", "rejected"}
    /\ Becomes(o, "pending")
ApproveApplication(o) == member[o] = "pending" /\ Becomes(o, "active")
RejectApplication(o) == member[o] = "pending" /\ Becomes(o, "rejected")

\* Mutant of RemovePartner: a status the rest of the code does not know.
RemoveAsInactive(o) == member[o] = "active" /\ Becomes(o, "inactive")

RemovePartner(o) == member[o] = "active" /\ Becomes(o, "removed")

-----------------------------------------------------------------------------
\* The store reports sales and reversals: late, repeated, in any order.

CommissionFor(amount) ==
    IF program.terms.commission_type = "flat" THEN program.terms.commission_rate
    ELSE (amount * program.terms.commission_rate) \div 10000

\* Mutant of Known: an order is forgotten when its sale is reversed.
KnownPending(ref) ==
    ref # None /\ \E n \in DOMAIN sales : sales[n].ref = ref /\ sales[n].status = "pending"

Known(ref) == ref # None /\ \E n \in DOMAIN sales : sales[n].ref = ref

\* A sale that is reported with the code of an active partner.
NewSale(ref, o, amount) ==
    [ref |-> ref, owner |-> o, commission |-> CommissionFor(amount), status |-> "pending"]
Records(sale) == member[sale.owner] = "active" /\ ~Known(sale.ref)

\* What a request reads of the row.
Row == [ live |-> program.status \in {"live", "ended"},
         committed |-> program.pool_committed_amount, budget |-> program.pool_max_budget ]
Holds(h, at, row, sale, n) ==
    /\ tracking' = [tracking EXCEPT ![h] =
                      [ at |-> at, sale |-> sale, reverses |-> n, live |-> row.live,
                        committed |-> row.committed, budget |-> row.budget ]]
    /\ UNCHANGED <<program, member, sales, settlingVars, fundingVars>>

Checked(h) == tracking[h] # None /\ tracking[h].at = "checked"
LoopIsFree == \A h \in Handlers : ~Checked(h)
\* The report is in handler h's hands, and this is the row it goes by.
AtHand(h) ==
    IF program.host \in HookHosts THEN tracking[h] # None /\ LoopIsFree
    ELSE program.host \in ThreadedHosts /\ tracking[h] = None
Seen(h) == IF program.host \in HookHosts THEN tracking[h] ELSE Row

Finishes(h) ==
    /\ tracking' = [tracking EXCEPT ![h] = None]
    /\ UNCHANGED <<member, raced, settlingVars, fundingVars>>
\* A column that would keep the value it was read with is not written.
Commits(read, sum) ==
    program' = [program EXCEPT !.pool_committed_amount = IF sum = read THEN @ ELSE sum]

Reversible(ref) == {n \in DOMAIN sales : sales[n].ref = ref /\ sales[n].status = "pending"}
\* The bound on the table.
HasRoom ==
    Len(sales) + Cardinality({h \in Handlers : Checked(h) /\ tracking[h].sale # None}) < MaxSales

HookArrives(h) ==
    /\ program.host \in HookHosts /\ LoopIsFree
    /\ tracking[h] = None
    /\ Holds(h, "read", Row, None, 0)
    /\ UNCHANGED raced

\* The hook turns the report down, or finds it changes nothing.
HookIgnores(h) ==
    /\ program.host \in HookHosts /\ AtHand(h)
    /\ Finishes(h)
    /\ UNCHANGED <<program, sales>>

\* The orders that are checked and not committed.
ToBeRecorded ==
    {tracking[h].sale.ref : h \in {i \in Handlers : Checked(i) /\ tracking[i].sale # None}}

SaleChecked(h, ref, o, amount) ==
    /\ AtHand(h) /\ Seen(h).live
    /\ Records(NewSale(ref, o, amount)) /\ HasRoom
    /\ Holds(h, "checked", Seen(h), NewSale(ref, o, amount), 0)
    /\ raced' = raced \cup ({ref} \cap Orders \cap ToBeRecorded)

SaleCommits(h) ==
    /\ Checked(h) /\ tracking[h].sale # None
    /\ sales' = Append(sales, tracking[h].sale)
    /\ Commits(tracking[h].committed,
               Lesser(tracking[h].budget, tracking[h].committed + tracking[h].sale.commission))
    /\ Finishes(h)

\* A reversal of an order that is unknown or decided changes nothing; the
\* snippet reports none.
ReversalChecked(h, ref) ==
    /\ AtHand(h) /\ program.host \notin {"squarespace", "custom"}
    /\ \E n \in Reversible(ref) : Holds(h, "checked", Seen(h), None, n)
    /\ UNCHANGED raced

ReversalCommits(h) ==
    /\ Checked(h) /\ tracking[h].sale = None
    /\ LET n == tracking[h].reverses
       IN  /\ sales' = [sales EXCEPT ![n].status = "reversed"]
           /\ Commits(tracking[h].committed,
                      Greater(0, tracking[h].committed - sales[n].commission))
    /\ Finishes(h)

-----------------------------------------------------------------------------
\* The settlement.

PendingOf(o) == {n \in DOMAIN sales : sales[n].status = "pending" /\ sales[n].owner = o}
Earned(o) == MapThenSumSet(LAMBDA n : sales[n].commission, PendingOf(o))
\* Nobody is on the list when the commissions come to nothing.
Earners == IF \A o \in Owners : Earned(o) = 0 THEN {}
           ELSE {o \in Owners : PendingOf(o) # {}}
\* The query has no ORDER BY: the owners come in some order.
Settles(order) ==
    AffiliateSettlementFor([ pool_max_budget     |-> program.pool_max_budget,
                             payout_fee_percent  |-> program.terms.payout_fee_percent,
                             funding_fee_percent |-> program.terms.funding_fee_percent ],
                           [n \in DOMAIN order |-> Earned(order[n])])
restVars == <<member, holding_over, trackVars, fundingVars>>

\* Mutant of Settleable: the holding period is not waited for.
SettleableAtOnce == program.status \in {"live", "ended"}

Settleable == program.status \in {"live", "ended"} /\ holding_over

\* The endpoint's checks.  It goes on only if everyone who would be paid has
\* a payout account, and keeps the accounts' ids.
SettleBegins ==
    /\ settlement.at = "idle"
    /\ Settleable
    /\ \E order \in SetToSeqs(Earners) :
          LET payable == {n \in DOMAIN order : Settles(order).net_to_owner[n] > 0}
          IN  settlement' = [settlement EXCEPT !.at = "checked",
                                !.destinations = {order[n] : n \in payable}]
    /\ UNCHANGED <<program, sales, paid_net, died, transfers, refunded, restVars>>

Unused(result) == result.refund_to_business

\* settle_affiliate_program reads the pending sales again.
SettleLoads ==
    /\ settlement.at = "checked"
    /\ \E order \in SetToSeqs(Earners) :
          LET result == Settles(order)
          IN  settlement' = [settlement EXCEPT
                 !.at = "paying",
                 !.loaded = {n \in DOMAIN sales : sales[n].status = "pending"},
                 !.due = [n \in DOMAIN order |->
                            [owner |-> order[n], net |-> result.net_to_owner[n]]],
                 !.refund = Unused(result),
                 !.released = result.total_commission_capped]
    /\ UNCHANGED <<program, sales, paid_net, died, transfers, refunded, restVars>>

Payee == Head(settlement.due)
Paying == settlement.at = "paying" /\ settlement.due # <<>>
\* Every Transfer is drawn on charge_id, the program's first charge.
Drawn == MapThenSumSet(LAMBDA n : transfers[n].net, DOMAIN transfers)
Covered(net) == Drawn + net <= FirstCharge
RefundCovered(amount) == refunded + amount <= FirstCharge

\* Mutant of SalesSettled: every sale of the owner is settled.
AllSalesSettled(o) ==
    [n \in DOMAIN sales |-> IF sales[n].owner = o
                            THEN [sales[n] EXCEPT !.status = "settled"] ELSE sales[n]]

\* The rows that were loaded are written, whatever became of them since.
SalesSettled(o) ==
    [n \in DOMAIN sales |-> IF n \in settlement.loaded /\ sales[n].owner = o
                            THEN [sales[n] EXCEPT !.status = "settled"] ELSE sales[n]]

NothingDue ==
    /\ Paying /\ Payee.net = 0
    /\ sales' = SalesSettled(Payee.owner)
    /\ settlement' = [settlement EXCEPT !.due = Tail(@)]
    /\ UNCHANGED <<program, paid_net, died, transfers, refunded, restVars>>

\* No account, or Stripe's error: noted, and the next owner is paid.
OwnerFails ==
    /\ Paying /\ Payee.net > 0
    /\ settlement' = [settlement EXCEPT !.due = Tail(@)]
    /\ UNCHANGED <<program, sales, paid_net, died, transfers, refunded, restVars>>

TransferToOwner ==
    /\ Paying /\ Payee.net > 0
    /\ Payee.owner \in settlement.destinations
    /\ Covered(Payee.net)
    /\ transfers' = Append(transfers, Payee)
    /\ settlement' = [settlement EXCEPT !.at = "sent"]
    /\ UNCHANGED <<program, sales, paid_net, died, refunded, restVars>>

\* Mutant of CommitOwner: the owner is not taken off the list.
CommitAndStay ==
    /\ settlement.at = "sent"
    /\ paid_net' = [paid_net EXCEPT ![Payee.owner] = Payee.net]
    /\ sales' = SalesSettled(Payee.owner)
    /\ settlement' = [settlement EXCEPT !.at = "paying"]
    /\ UNCHANGED <<program, died, transfers, refunded, restVars>>

CommitOwner ==
    /\ settlement.at = "sent"
    /\ paid_net' = [paid_net EXCEPT ![Payee.owner] = Payee.net]
    /\ sales' = SalesSettled(Payee.owner)
    /\ settlement' = [settlement EXCEPT !.at = "paying", !.due = Tail(@)]
    /\ UNCHANGED <<program, died, transfers, refunded, restVars>>

\* What is left of the pool goes back to the business, unless nothing is or
\* Stripe refuses.
RefundUnused(made) ==
    /\ settlement.at = "paying" /\ settlement.due = <<>>
    /\ made => settlement.refund > 0 /\ RefundCovered(settlement.refund)
    /\ refunded' = IF made THEN refunded + settlement.refund ELSE refunded
    /\ settlement' = [settlement EXCEPT !.at = "finishing", !.refund_made = made]
    /\ UNCHANGED <<program, sales, paid_net, died, transfers, restVars>>

\* The program is settled whatever failed on the way.
SettleFinishes ==
    /\ settlement.at = "finishing"
    /\ program' = [program EXCEPT
          !.pool_released_amount = settlement.released,
          !.pool_refunded_amount = IF settlement.refund_made THEN settlement.refund ELSE 0,
          !.status = "settled"]
    /\ settlement' = Idle
    /\ UNCHANGED <<sales, paid_net, died, transfers, refunded, restVars>>

\* Once is enough: `died' is the bound.
SettleDies ==
    /\ settlement.at # "idle" /\ ~died
    /\ settlement' = Idle
    /\ died' = TRUE
    /\ UNCHANGED <<program, sales, paid_net, transfers, refunded, restVars>>

-----------------------------------------------------------------------------
Business ==
    \/ FundProgram
    \/ \E t \in TopUps : TopUpProgram(t)
    \/ \E p \in Payments : CustomerPays(p)
    \/ \E host \in Hosts : ConfirmTracking(host)

\* One /refresh at a time beside the webhook is a bound.
Confirmations ==
    \/ \E c \in Confirmers :
          \/ \E p \in Payments : ConfirmBegins(c, p)
          \/ StripeConfirms(c)
          \/ ConfirmFails(c)
          \/ \E marked \in BOOLEAN : ConfirmCommits(c, marked)
    \/ \E p \in Payments : Acknowledge(p)

Membership ==
    \E o \in Owners : \/ Apply(o) \/ ApproveApplication(o)
                      \/ RejectApplication(o) \/ RemovePartner(o)

Store ==
    \E h \in Handlers :
       \/ HookArrives(h) \/ HookIgnores(h) \/ SaleCommits(h) \/ ReversalCommits(h)
       \/ \E ref \in Orders \cup {None}, o \in Owners, amount \in SaleAmounts :
             SaleChecked(h, ref, o, amount)
       \/ \E ref \in Orders : ReversalChecked(h, ref)

Settlement ==
    \/ SettleBegins
    \/ SettleLoads
    \/ NothingDue \/ OwnerFails \/ TransferToOwner \/ CommitOwner
    \/ \E made \in BOOLEAN : RefundUnused(made)
    \/ SettleFinishes
    \/ SettleDies

Next ==
    \/ Business
    \/ Membership
    \/ HoldingPeriodEnds
    \/ Store
    \/ Settlement
    \/ Confirmations

Spec == Init /\ [][Next]_vars
=============================================================================

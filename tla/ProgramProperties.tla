------------------------- MODULE ProgramProperties -------------------------
(***************************************************************************)
(* What an affiliate program promises the business and the owners.         *)
(***************************************************************************)
EXTENDS Program

TransfersTo(o) == {n \in DOMAIN transfers : transfers[n].owner = o}
DecidedFor(o) ==
    MapThenSumSet(LAMBDA n : sales[n].commission,
                  {n \in DOMAIN sales : sales[n].owner = o /\ sales[n].status # "pending"})
\* The sales that somebody is about to decide.
ReadAsPending ==
    settlement.loaded \cup {tracking[h].reverses : h \in {i \in Handlers : tracking[i] # None}}
ToppedUp == {t \in TopUps : topup[t] = "funded"}
Collected == FirstCharge + Cardinality(ToppedUp) * ChargeFor(TopUpAmount)

TwiceOnlyIfRaced ==
    \A m, n \in DOMAIN sales :
       m # n /\ sales[m].ref # None /\ sales[m].ref = sales[n].ref => sales[m].ref \in raced
CoroutinesNeverRace ==
    "funding" \notin recounted /\ program.host \notin ThreadedHosts => raced = {}

\* However often and in whatever order the store reports an order, and even
\* after it was reversed, it earns one commission, unless two reports of it
\* were both checked before either was committed; the hooks that are
\* coroutines never are, however they overlap (services.py
\* record_affiliate_conversion, "Idempotent on external_order_ref").
EachOrderCountsOnce == TwiceOnlyIfRaced /\ CoroutinesNeverRace

\* A sale that was reversed or settled stays that way, whatever is reported of
\* it, unless a settlement or a reversal still in progress had read it before
\* (services.py reverse_affiliate_conversion, settle_affiliate_program).
DecidedSalesStayDecided ==
    [][ \A n \in DOMAIN sales :
          sales[n].status # "pending" /\ n \notin ReadAsPending => sales'[n] = sales[n] ]_vars

\* Unless a settlement died half way, an owner gets one Transfer, what the code
\* records of it is at most the commission of the owner's sales that are no
\* longer pending, and, unless a payment was counted twice, what goes to the
\* owners and back to the business was paid by the business (services.py
\* settle_affiliate_program, mark_affiliate_topup_funded_from_pi).
OwnersPaidOnce == ~died =>
    /\ \A o \in Owners : /\ Cardinality(TransfersTo(o)) <= 1
                         /\ paid_net[o] # None => paid_net[o] <= DecidedFor(o)
    /\ recounted = {} => Drawn + refunded <= Collected

\* Money leaves only while the program is live and the holding period is over,
\* so never before a late reversal could count and never after settlement
\* (routers/affiliate.py settle_program).
MoneyLeavesInSettlement ==
    [][ <<transfers, refunded>>' # <<transfers, refunded>> =>
          program.status = "live" /\ holding_over ]_vars
=============================================================================

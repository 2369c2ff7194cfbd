----------------------------- MODULE RaceProofs -----------------------------
(***************************************************************************)
(* Theorems about DealRace, for any number of workers, requests,           *)
(* PaymentIntents and disputes: what holds however requests overlap and    *)
(* wherever they die.                                                      *)
(*                                                                         *)
(* Nothing ties the row a worker read to the row it writes to, so the      *)
(* invariant is about both: RowGood holds of every copy of the row that is *)
(* about, and each of its parts is a fact that no later step can undo      *)
(* (Grows).  CallGood adds what a worker between its call to Stripe and    *)
(* its commit knows of the object it made.                                 *)
(***************************************************************************)
EXTENDS DealRace, DealProofs, FiniteSetTheorems

\* The money of the deal went back, by a refund or a lost dispute.
Returned ==
    \/ \E p \in PIs : FullyRefunded(p)
    \/ \E dp \in DPs : dispute[dp].status = "lost"

\* What holds of the deals row, and of every copy of it that was read.
RowGood(d) ==
    /\ d.charge_id # None => d.funded_at
    /\ d.funded_at => /\ d.charge_id \in PIs /\ d.payment_intent_id \in PIs
                      /\ intent[d.charge_id] = "succeeded"
    /\ d.verified_at => d.funded_at /\ has_proof
    /\ d.paid_at => d.transfer_id \in DOMAIN transfers
    /\ d.status = "disputed" => CanTransition(d.status_before_dispute, "disputed")
    /\ d.status = "refunded" => d.funded_at /\ Returned

\* What a worker pays the owner, by the request it serves.
NetOf(req) ==
    IF req.op = "release" THEN FixedNet
    ELSE FixedNet + PoolSettlementFor(Terms, req.arg).pool_net_to_owner

Pays(c) == c.req.op \in {"release", "settle"}

\* The stamps of a copy that was read are still on the row.
NotNewer(d) ==
    /\ d.funded_at => deal.funded_at
    /\ d.verified_at => deal.verified_at
    /\ d.payment_intent_id # None => deal.payment_intent_id # None

\* What a worker has checked, and what it knows of the object it made.
CallGood(c) ==
    /\ RowGood(c.read)
    /\ NotNewer(c.read)
    /\ c.req.op = "fund" /\ c.stage = "called" =>
          c.obj \in PIs /\ intent[c.obj] = "created"
    /\ c.req.op = "accept" => c.read.funded_at /\ has_proof
    /\ Pays(c) => c.read.funded_at /\ c.read.verified_at
    /\ c.req.op = "release" => ~HasPool
    /\ c.req.op = "settle" => HasPool
    /\ Pays(c) /\ c.stage = "called" =>
          c.obj \in DOMAIN transfers /\ transfers[c.obj].amount = NetOf(c.req)
    /\ c.req.op = "refund" => c.read.funded_at
    /\ c.req.op = "refund" /\ c.stage = "called" =>
          /\ c.obj \in DOMAIN refunds
          /\ refunds[c.obj].charge = c.read.payment_intent_id
          /\ FullyRefunded(c.read.payment_intent_id)
    /\ c.req.op = "event" => c.req.arg \in sent

CallsGood == \A w \in Workers : call[w] # Idle => CallGood(call[w])

Funder(w) == At(w, "fund", "called")

\* No two workers hold the same new PaymentIntent.
OwnIntents ==
    \A v, w \in Workers : Funder(v) /\ Funder(w) /\ v # w => call[v].obj # call[w].obj

\* Stripe pays out only from a charge that succeeded, for a verified deal; only
\* such a charge is disputed or refunded, and never for more than it was.
StripeGood ==
    /\ EventsNameObjects
    /\ \A n \in DOMAIN transfers : intent[transfers[n].charge] = "succeeded"
    /\ transfers # <<>> => deal.verified_at
    /\ \A dp \in DPs : dispute[dp].status # None =>
          dispute[dp].charge \in PIs /\ intent[dispute[dp].charge] = "succeeded"
    /\ \A p \in PIs : Refunded(p) # 0 => intent[p] = "succeeded" /\ Refunded(p) <= Charge

\* A row of the ledger stands for something Stripe did.
Backed(row) ==
    \/ /\ row.ref.obj = "payment_intent" /\ row.ref.id \in PIs
       /\ intent[row.ref.id] = "succeeded"
    \/ /\ row.ref.obj = "transfer" /\ row.ref.id \in DOMAIN transfers
       /\ row.amount = -transfers[row.ref.id].amount
    \/ /\ row.ref.obj = "refund" /\ row.ref.id \in DOMAIN refunds
       /\ refunds[row.ref.id].charge \in PIs
       /\ MayBeRecordedAs(row.ref.id, -row.amount)
    \/ row.ref.obj = "charge" /\ row.ref.id \in PIs /\ FullyRefunded(row.ref.id)
    \/ row.ref.obj = "dispute" /\ row.ref.id \in DPs /\ dispute[row.ref.id].status = "lost"

AllBacked == \A n \in DOMAIN ledger : Backed(ledger[n])

\* A charge that paid one Transfer of a fixed-price deal cannot pay a second.
OneTransferACharge ==
    ~HasPool /\ (Charge > 0 => 2 * FixedNet > Charge) =>
        /\ \A n \in DOMAIN transfers : transferred[transfers[n].charge] >= FixedNet
        /\ \A m, n \in DOMAIN transfers : transfers[m].charge = transfers[n].charge => m = n

RInv ==
    /\ RaceTypeOK
    /\ RowGood(deal)
    /\ CallsGood
    /\ OwnIntents
    /\ StripeGood
    /\ AllBacked
    /\ OneTransferACharge

-----------------------------------------------------------------------------
\* What no step undoes.

StampsStay ==
    /\ deal.funded_at => deal'.funded_at
    /\ deal.verified_at => deal'.verified_at
    /\ deal.payment_intent_id # None => deal'.payment_intent_id # None

Grows ==
    /\ \A p \in PIs : intent[p] = "succeeded" => intent'[p] = "succeeded"
    /\ \A p \in PIs : FullyRefunded(p) => FullyRefunded(p)'
    /\ \A n \in DOMAIN transfers : n \in DOMAIN transfers' /\ transfers'[n] = transfers[n]
    /\ \A n \in DOMAIN refunds : n \in DOMAIN refunds' /\ refunds'[n] = refunds[n]
    /\ \A dp \in DPs : dispute[dp].status = "lost" => dispute'[dp].status = "lost"
    /\ sent \subseteq sent'
    /\ has_proof => has_proof'
    /\ StampsStay

\* A PaymentIntent on offer to nobody stays so, but for the one w holds.
KeepsCreated(w) ==
    \A p \in PIs : intent[p] = "created" /\ ~(Funder(w) /\ call[w].obj = p)
                      => intent'[p] = "created"

LEMMA ReturnedStays ==
    ASSUME Grows, Returned
    PROVE  Returned'
BY DEF Grows, Returned

LEMMA RowStays ==
    ASSUME Grows
    PROVE  \A d \in DealRow : RowGood(d) => RowGood(d)'
<1> SUFFICES ASSUME NEW d \in DealRow, RowGood(d) PROVE RowGood(d)'
  OBVIOUS
<1> QED
  BY ReturnedStays DEF Grows, RowGood

LEMMA BackedStays ==
    ASSUME Grows
    PROVE  \A row \in LedgerRow : Backed(row) => Backed(row)'
<1> SUFFICES ASSUME NEW row \in LedgerRow, Backed(row) PROVE Backed(row)'
  OBVIOUS
<1>1. CASE row.ref.obj = "refund"
  <2> DEFINE n == row.ref.id
             p == refunds[n].charge
  <2>1. /\ n \in DOMAIN refunds /\ p \in PIs
        /\ \/ -row.amount = refunds[n].amount
           \/ -row.amount = Charge /\ FullyRefunded(p)
    BY <1>1 DEF Backed, MayBeRecordedAs
  <2>2. n \in DOMAIN refunds' /\ refunds'[n] = refunds[n]
    BY <2>1 DEF Grows
  <2>3. FullyRefunded(p) => FullyRefunded(refunds[n].charge)'
    <3>1. PICK q \in PIs : q = p
      BY <2>1
    <3>2. FullyRefunded(q) => FullyRefunded(q)'
      BY DEF Grows
    <3> QED
      BY <2>2, <3>1, <3>2 DEF FullyRefunded, Refunded
  <2> QED
    BY <1>1, <2>1, <2>2, <2>3 DEF Backed, MayBeRecordedAs
<1> QED
  BY <1>1 DEF Grows, Backed

LEMMA CallStays ==
    ASSUME Grows
    PROVE  \A c \in Call :
              /\ CallGood(c)
              /\ c.req.op = "fund" /\ c.stage = "called" => intent'[c.obj] = "created"
              => CallGood(c)'
<1> SUFFICES ASSUME NEW c \in Call, CallGood(c),
                    c.req.op = "fund" /\ c.stage = "called" => intent'[c.obj] = "created"
             PROVE  CallGood(c)'
  OBVIOUS
<1>1. c.read \in DealRow
  BY DEF Call
<1>2. RowGood(c.read)'
  BY <1>1, RowStays DEF CallGood
<1>3. NotNewer(c.read)'
  BY DEF CallGood, NotNewer, Grows, StampsStay
<1>4. c.req.op = "accept" => c.read.funded_at /\ has_proof'
  BY DEF CallGood, Grows
<1>5. c.req.op = "refund" => c.read.funded_at /\ c.read.payment_intent_id \in PIs
  BY DEF CallGood, RowGood
<1>6. c.req.op = "refund" /\ c.stage = "called" =>
         /\ c.obj \in DOMAIN refunds'
         /\ refunds'[c.obj].charge = c.read.payment_intent_id
         /\ FullyRefunded(c.read.payment_intent_id)'
  BY <1>5 DEF CallGood, Grows
<1>7. Pays(c) /\ c.stage = "called" =>
         c.obj \in DOMAIN transfers' /\ transfers'[c.obj].amount = NetOf(c.req)
  BY DEF CallGood, Grows
<1>8. c.req.op = "event" => c.req.arg \in sent'
  BY DEF CallGood, Grows
<1> QED
  BY <1>2, <1>3, <1>4, <1>5, <1>6, <1>7, <1>8 DEF CallGood, Pays

\* The invariant after a step of one worker, part by part.
LEMMA Assemble ==
    ASSUME RInv, NEW w \in Workers, Grows, KeepsCreated(w), RaceTypeOK', RowGood(deal)',
           \A v \in Workers \ {w} : call'[v] = call[v],
           call'[w] # Idle => CallGood(call[w])',
           Funder(w)' => \A v \in Workers \ {w} : Funder(v) => call[v].obj # call'[w].obj,
           StripeGood', AllBacked', OneTransferACharge'
    PROVE  RInv'
<1>1. CallsGood'
  <2> SUFFICES ASSUME NEW v \in Workers, call'[v] # Idle PROVE CallGood(call[v])'
    BY DEF CallsGood
  <2>1. CASE v = w
    BY <2>1
  <2>2. CASE v # w
    <3>1. call'[v] = call[v] /\ call[v] \in Call /\ CallGood(call[v])
      BY <2>2 DEF RInv, RaceTypeOK, CallsGood
    <3>2. call[v].req.op = "fund" /\ call[v].stage = "called" =>
             intent'[call[v].obj] = "created"
      <4> SUFFICES ASSUME Funder(v) PROVE intent'[call[v].obj] = "created"
        BY DEF Funder, At
      <4>1. call[v].obj \in PIs /\ intent[call[v].obj] = "created"
        BY <3>1 DEF CallGood, Funder, At
      <4>2. Funder(w) => call[w].obj # call[v].obj
        BY <2>2 DEF RInv, OwnIntents
      <4> QED
        BY <4>1, <4>2 DEF KeepsCreated
    <3> DEFINE c == call[v]
    <3>3. c \in Call /\ CallGood(c) /\ call'[v] = c
          /\ (c.req.op = "fund" /\ c.stage = "called" => intent'[c.obj] = "created")
      BY <3>1, <3>2
    <3> HIDE DEF c
    <3>4. CallGood(c)' /\ c' = c
      BY <3>1, <3>3, CallStays DEF CallGood, c
    <3> QED
      BY <3>4 DEF c
  <2> QED
    BY <2>1, <2>2
<1>2. OwnIntents'
  <2> SUFFICES ASSUME NEW u \in Workers, NEW v \in Workers, Funder(u)', Funder(v)', u # v
               PROVE  call'[u].obj # call'[v].obj
    BY DEF OwnIntents
  <2>1. \A x \in Workers \ {w} : call'[x] = call[x] /\ (Funder(x)' <=> Funder(x))
    BY DEF Funder, At
  <2> QED
    BY <2>1 DEF RInv, OwnIntents
<1> QED
  BY <1>1, <1>2 DEF RInv

-----------------------------------------------------------------------------
\* The commits leave Stripe alone.

LEMMA TransferHasCharge ==
    ASSUME StripeTypeOK
    PROVE  \A n \in DOMAIN transfers : transfers[n].charge \in PIs
<1> SUFFICES ASSUME NEW n \in DOMAIN transfers PROVE transfers[n].charge \in PIs
  OBVIOUS
<1>1. transfers[n] \in Transfer
  BY DEF StripeTypeOK
<1> QED
  BY <1>1 DEF Transfer

\* A step that makes no Transfer, no Refund and no dispute.
LEMMA NoNewMoney ==
    ASSUME RInv, \A p \in PIs : intent[p] = "succeeded" => intent'[p] = "succeeded",
           UNCHANGED <<transfers, refunded, dispute>>, EventsNameObjects',
           deal.verified_at => deal'.verified_at
    PROVE  StripeGood'
<1>1. /\ \A n \in DOMAIN transfers' : intent'[transfers'[n].charge] = "succeeded"
      /\ transfers' # <<>> => deal'.verified_at
  BY TransferHasCharge DEF RInv, StripeGood, RaceTypeOK, TypeOK
<1>2. \A dp \in DPs : dispute'[dp].status # None =>
         dispute'[dp].charge \in PIs /\ intent'[dispute'[dp].charge] = "succeeded"
  BY DEF RInv, StripeGood
<1>3. \A p \in PIs : Refunded(p)' # 0 => intent'[p] = "succeeded" /\ Refunded(p)' <= Charge
  BY DEF RInv, StripeGood, Refunded
<1> QED
  BY <1>1, <1>2, <1>3 DEF StripeGood

LEMMA StripeQuiet ==
    ASSUME RInv, UNCHANGED stripeVars, deal.verified_at => deal'.verified_at
    PROVE  /\ StripeTypeOK' /\ StripeGood' /\ OneTransferACharge'
           /\ \A p \in PIs : FullyRefunded(p) <=> FullyRefunded(p)'
<1>1. /\ UNCHANGED <<intent, transfers, refunds, transferred, refunded, dispute, sent>>
  BY DEF stripeVars, transferVars, refundVars
<1>2. StripeTypeOK'
  BY <1>1 DEF RInv, RaceTypeOK, TypeOK, StripeTypeOK
<1>3. StripeGood'
  <2>1. EventsNameObjects'
    BY <1>1 DEF RInv, StripeGood, EventsNameObjects
  <2> QED
    BY <1>1, <2>1, NoNewMoney
<1>4. \A p \in PIs : FullyRefunded(p) <=> FullyRefunded(p)'
  BY <1>1 DEF Refunded, FullyRefunded
<1>5. OneTransferACharge'
  BY <1>1 DEF RInv, OneTransferACharge
<1> QED
  BY <1>2, <1>3, <1>4, <1>5

\* The ledger after a commit: as it was, or one row longer.
LEMMA LedgerGrows ==
    ASSUME RInv, Grows,
           \/ ledger' = ledger
           \/ \E row \in LedgerRow : Backed(row)' /\ ledger' = Append(ledger, row)
    PROVE  ledger' \in Seq(LedgerRow) /\ AllBacked'
<1>1. ledger \in Seq(LedgerRow)
  BY DEF RInv, RaceTypeOK, TypeOK
<1>2. \A n \in DOMAIN ledger : ledger[n] \in LedgerRow
  BY <1>1
<1>3. \A n \in DOMAIN ledger : \A row \in LedgerRow : row = ledger[n] => Backed(row)'
  BY <1>2, BackedStays DEF RInv, AllBacked, Backed
<1>4. CASE ledger' = ledger
  BY <1>1, <1>2, <1>3, <1>4 DEF AllBacked, Backed
<1>5. ASSUME NEW row \in LedgerRow, Backed(row)', ledger' = Append(ledger, row)
      PROVE  ledger' \in Seq(LedgerRow) /\ AllBacked'
  <2>1. ledger' \in Seq(LedgerRow) /\ DOMAIN ledger' = 1..(Len(ledger) + 1)
    BY <1>1, <1>5
  <2>2. ASSUME NEW n \in DOMAIN ledger' PROVE Backed(ledger[n])'
    <3>1. \/ n \in DOMAIN ledger /\ ledger'[n] = ledger[n]
          \/ ledger'[n] = row
      BY <1>1, <1>5, <2>1
    <3> QED
      BY <1>2, <1>3, <1>5, <3>1 DEF Backed
  <2> QED
    BY <2>1, <2>2 DEF AllBacked
<1> QED
  BY <1>4, <1>5

\* The invariant after a commit that leaves the worker with c.
LEMMA CommitWith ==
    ASSUME RInv, NEW w \in Workers, UNCHANGED stripeVars,
           deal' \in DealRow, RowGood(deal)',
           StampsStay,
           has_proof => has_proof', has_proof' \in BOOLEAN, fresh_proof' \in BOOLEAN,
           disputes' \in [DPs -> DisputeRow], processed' \subseteq sent,
           verified_quantity' \in {None} \cup Nat, UNCHANGED source_removed,
           \/ ledger' = ledger
           \/ \E row \in LedgerRow : Backed(row)' /\ ledger' = Append(ledger, row),
           NEW c \in {Idle} \cup Call, call' = [call EXCEPT ![w] = c], UNCHANGED calls,
           c # Idle => /\ ~(c.req.op = "fund" /\ c.stage = "called")
                       /\ Grows => CallGood(c)'
    PROVE  RInv'
<1>1. UNCHANGED <<intent, transfers, refunds, transferred, refunded, dispute, sent>>
  BY DEF stripeVars, transferVars, refundVars
<1>2. /\ StripeTypeOK' /\ StripeGood' /\ OneTransferACharge'
      /\ \A p \in PIs : FullyRefunded(p) <=> FullyRefunded(p)'
  BY StripeQuiet DEF StampsStay
<1>3. Grows /\ KeepsCreated(w)
  BY <1>1, <1>2 DEF Grows, StampsStay, KeepsCreated
<1>4. ledger' \in Seq(LedgerRow) /\ AllBacked'
  BY <1>3, LedgerGrows
<1>5. TypeOK'
  BY <1>1, <1>2, <1>4 DEF RInv, RaceTypeOK, TypeOK
<1>6. /\ call' \in [Workers -> {Idle} \cup Call]
      /\ \A v \in Workers \ {w} : call'[v] = call[v]
      /\ call'[w] = c
  BY DEF RInv, RaceTypeOK
<1>7. RaceTypeOK'
  BY <1>5, <1>6 DEF RInv, RaceTypeOK
<1>8. ~Funder(w)'
  BY <1>6 DEF Funder, At, Idle
<1>9. call'[w] # Idle => CallGood(call[w])'
  BY <1>3, <1>6 DEF CallGood
<1> QED
  BY <1>2, <1>3, <1>4, <1>6, <1>7, <1>8, <1>9, Assemble

\* A commit that ends a request or leaves it half done.
LEMMA CommitStep ==
    ASSUME RInv, NEW w \in Workers, call[w] # Idle, UNCHANGED stripeVars,
           deal' \in DealRow, RowGood(deal)',
           StampsStay,
           has_proof => has_proof', has_proof' \in BOOLEAN, fresh_proof' \in BOOLEAN,
           disputes' \in [DPs -> DisputeRow], processed' \subseteq sent,
           verified_quantity' \in {None} \cup Nat, UNCHANGED source_removed,
           \/ ledger' = ledger
           \/ \E row \in LedgerRow : Backed(row)' /\ ledger' = Append(ledger, row),
           Ends(w) \/ MovesTo(w, "half", None)
    PROVE  RInv'
<1>1. call \in [Workers -> {Idle} \cup Call] /\ call[w] \in Call /\ CallGood(call[w])
      /\ calls' = calls
  BY DEF RInv, RaceTypeOK, CallsGood, Ends, MovesTo
<1>2. CASE Ends(w)
  BY <1>2, CommitWith DEF Ends
<1>3. CASE MovesTo(w, "half", None)
  <2> DEFINE half == [call[w] EXCEPT !.stage = "half", !.obj = None]
  <2>1. half \in Call /\ half.read = call[w].read /\ half.req = call[w].req
        /\ half.stage = "half"
    BY <1>1 DEF Call
  <2>2. call' = [call EXCEPT ![w] = half]
    BY <1>1, <1>3 DEF MovesTo
  <2> HIDE DEF half
  <2>3. PICK c \in Call : c = half
    BY <2>1
  <2>4. CallGood(c) /\ c.stage = "half"
    BY <1>1, <2>1, <2>3 DEF CallGood, Pays
  <2>5. Grows => CallGood(c)'
    BY <2>4, CallStays
  <2> QED
    BY <1>1, <2>2, <2>3, <2>4, <2>5, CommitWith
<1> QED
  BY <1>2, <1>3

\* The same for a commit that touches the deals row alone.
LEMMA RowCommit ==
    ASSUME RInv, NEW w \in Workers, call[w] # Idle,
           UNCHANGED <<rowVars, processed, source_removed, stripeVars>>,
           deal' \in DealRow, RowGood(deal)',
           StampsStay,
           has_proof => has_proof', has_proof' \in BOOLEAN, fresh_proof' \in BOOLEAN,
           verified_quantity' \in {None} \cup Nat,
           Ends(w) \/ MovesTo(w, "half", None)
    PROVE  RInv'
BY CommitStep DEF RInv, RaceTypeOK, TypeOK, rowVars

\* A worker that is at some stage of a request serves one.
LEMMA Serving ==
    ASSUME RInv, NEW w \in Workers, NEW op, NEW stage \in {"checked", "called", "half"},
           At(w, op, stage)
    PROVE  /\ call[w] # Idle /\ call[w] \in Call /\ CallGood(call[w])
           /\ call[w].read \in DealRow /\ call[w].req \in Requests
           /\ call[w].req.op = op /\ call[w].stage = stage
BY DEF RInv, RaceTypeOK, CallsGood, At, Idle, Call

-----------------------------------------------------------------------------
\* The commits of the parties and the reviewers.

\* A commit that keeps the stamps, and writes no status the rest depends on.
LEMMA RowKept ==
    ASSUME RInv, UNCHANGED stripeVars, has_proof => has_proof', SameStamps(deal, deal'),
           \/ /\ deal'.status = deal.status
              /\ deal'.status_before_dispute = deal.status_before_dispute
           \/ deal'.status \notin {"disputed", "refunded"}
    PROVE  /\ RowGood(deal)'
           /\ StampsStay
BY DEF RInv, RowGood, StampsStay, Returned, SameStamps, FullyRefunded, Refunded, stripeVars, transferVars,
       refundVars

LEMMA ApproveOver ==
    ASSUME NEW d \in DealRow, NEW read \in DealRow, NEW party
    PROVE  LET r == Approve(d, read, party)
           IN  /\ r \in DealRow /\ SameStamps(d, r) /\ SameBadge(d, r)
               /\ r.status \in {d.status, "approved"}
<1> DEFINE bd == d.business_approved \/ party = "business"
           od == d.owner_approved \/ party = "owner"
           b == read.business_approved \/ party = "business"
           o == read.owner_approved \/ party = "owner"
           s == IF b /\ o /\ CanTransition(read.status, "approved") THEN "approved" ELSE d.status
<1>1. bd \in BOOLEAN /\ od \in BOOLEAN
  OBVIOUS
<1>2. s \in Status /\ s \in {d.status, "approved"}
  BY DEF DealRow, Status
<1>3. Approve(d, read, party)
        = [d EXCEPT !.business_approved = bd, !.owner_approved = od, !.status = s]
  BY DEF Approve
<1> HIDE DEF bd, od, b, o, s
<1>4. Approve(d, read, party) \in DealRow
  BY <1>1, <1>2, <1>3 DEF DealRow
<1>5. Approve(d, read, party).status = s
  BY <1>3 DEF DealRow
<1>6. SameStamps(d, Approve(d, read, party)) /\ SameBadge(d, Approve(d, read, party))
  BY <1>3 DEF DealRow, SameStamps, SameBadge
<1> QED
  BY <1>2, <1>4, <1>5, <1>6

LEMMA CommitPartyStep ==
    ASSUME RInv, NEW w \in Workers, CommitParty(w)
    PROVE  RInv'
<1> DEFINE c == call[w]
<1>1. /\ UNCHANGED <<rowVars, processed, verified_quantity, source_removed, stripeVars>>
      /\ Ends(w) /\ deal \in DealRow
      /\ verified_quantity' \in {None} \cup Nat
  BY DEF CommitParty, RInv, RaceTypeOK, TypeOK
<1>2. /\ has_proof => has_proof'
      /\ has_proof' \in BOOLEAN /\ fresh_proof' \in BOOLEAN
  <2>1. has_proof \in BOOLEAN /\ fresh_proof \in BOOLEAN
    BY DEF RInv, RaceTypeOK, TypeOK
  <2>2. \/ UNCHANGED <<has_proof, fresh_proof>>
        \/ has_proof' = TRUE /\ fresh_proof' = TRUE
    BY DEF CommitParty
  <2> QED
    BY <2>1, <2>2
<1>3. /\ call[w] # Idle /\ deal' \in DealRow /\ SameStamps(deal, deal')
      /\ \/ /\ deal'.status = deal.status
            /\ deal'.status_before_dispute = deal.status_before_dispute
         \/ deal'.status \notin {"disputed", "refunded"}
  <2>1. CASE At(w, "approve", "checked") /\ deal' = Approve(deal, c.read, c.req.arg)
    <3>1. c.read \in DealRow /\ call[w] # Idle
      BY <2>1, Serving
    <3>2. /\ deal' \in DealRow /\ SameStamps(deal, deal') /\ SameBadge(deal, deal')
          /\ deal'.status \in {deal.status, "approved"}
      <4> DEFINE party == c.req.arg
                 read == c.read
      <4>1. read \in DealRow /\ deal' = Approve(deal, read, party)
        BY <2>1, <3>1
      <4> HIDE DEF party, read
      <4> QED
        BY <1>1, <4>1, ApproveOver
    <3> QED
      BY <3>1, <3>2 DEF SameBadge
  <2>2. CASE At(w, "decline", "checked") /\ deal' = Decline(deal)
    BY <1>1, <2>2, Serving, DeclineEffect
  <2>3. CASE At(w, "proof", "checked") /\ deal' = SubmitProof(deal, c.read)
    <3>1. call[w] # Idle
      BY <2>3, Serving
    <3>2. PICK s \in {deal.status, "proof_submitted"} : deal' = [deal EXCEPT !.status = s]
      BY <2>3 DEF SubmitProof
    <3>3. s \in Status
      BY <1>1 DEF DealRow, Status
    <3>4. /\ deal' \in DealRow /\ SameStamps(deal, deal') /\ SameBadge(deal, deal')
          /\ deal'.status = s
      BY <1>1, <3>2, <3>3, StatusEffect
    <3> QED
      BY <3>1, <3>4 DEF SameBadge
  <2> QED
    BY <2>1, <2>2, <2>3 DEF CommitParty
<1>4. /\ RowGood(deal)'
      /\ StampsStay
  BY <1>1, <1>2, <1>3, RowKept
<1> QED
  BY <1>1, <1>2, <1>3, <1>4, RowCommit

LEMMA CommitReviewStep ==
    ASSUME RInv, NEW w \in Workers, CommitReview(w)
    PROVE  RInv'
<1> DEFINE c == call[w]
<1>1. /\ UNCHANGED <<rowVars, processed, has_proof, source_removed, stripeVars>>
      /\ Ends(w) \/ MovesTo(w, "half", None)
      /\ deal \in DealRow /\ has_proof' \in BOOLEAN /\ fresh_proof' \in BOOLEAN
      /\ has_proof => has_proof'
  BY DEF CommitReview, RInv, RaceTypeOK, TypeOK
<1>2. CASE /\ At(w, "accept", "checked") /\ deal' = MarkVerified(deal)
           /\ verified_quantity' = c.req.arg
  <2>1. /\ call[w] # Idle /\ c.req.arg \in {None} \cup Nat
        /\ deal.funded_at /\ has_proof
    BY <1>2, Serving, RequestsAssumption, TermsAssumption DEF CallGood, NotNewer
  <2>2. /\ deal' \in DealRow /\ deal'.funded_at = deal.funded_at /\ deal'.verified_at
        /\ deal'.charge_id = deal.charge_id /\ deal'.paid_at = deal.paid_at
        /\ deal'.payment_intent_id = deal.payment_intent_id
        /\ deal'.transfer_id = deal.transfer_id /\ deal'.status = "verified"
    BY <1>1, <1>2 DEF MarkVerified, DealRow, Status
  <2>3. RowGood(deal)'
    BY <1>1, <2>1, <2>2 DEF RInv, RowGood, stripeVars, transferVars
  <2> QED
    BY <1>1, <1>2, <2>1, <2>2, <2>3, RowCommit DEF StampsStay
<1>3. CASE /\ At(w, "send_back", "checked") \/ At(w, "grace", "checked")
           /\ deal' = SendBack(deal, c.req.arg, FALSE)
           /\ UNCHANGED verified_quantity
  <2>1. call[w] # Idle /\ c.req.arg \in {"rejected", "changes_requested"}
    BY <1>3, Serving, RequestsAssumption
  <2>2. PICK target \in {"rejected", "changes_requested"} : target = c.req.arg
    BY <2>1
  <2>3. target \in Status /\ deal' = SendBack(deal, target, FALSE) /\ FALSE \in BOOLEAN
    BY <1>3, <2>2 DEF Status
  <2>4. deal' \in DealRow /\ SameStamps(deal, deal') /\ deal'.status = target
    BY <1>1, <2>3, SendBackEffect
  <2>5. RowGood(deal)' /\ StampsStay
    BY <1>1, <2>4, RowKept
  <2>6. verified_quantity' \in {None} \cup Nat
    BY <1>3 DEF RInv, RaceTypeOK, TypeOK
  <2> QED
    BY <1>1, <2>1, <2>4, <2>5, <2>6, RowCommit
<1>4. CASE /\ At(w, "grace", "half")
           /\ deal' = [deal EXCEPT !.proof_grace_deadline = "open"]
           /\ UNCHANGED verified_quantity
  <2>1. call[w] # Idle
    BY <1>4, Serving
  <2>2. /\ deal' \in DealRow /\ SameStamps(deal, deal') /\ deal'.status = deal.status
        /\ deal'.status_before_dispute = deal.status_before_dispute
    BY <1>1, <1>4 DEF DealRow, SameStamps
  <2>3. RowGood(deal)' /\ StampsStay
    BY <1>1, <2>2, RowKept
  <2>4. verified_quantity' \in {None} \cup Nat
    BY <1>4 DEF RInv, RaceTypeOK, TypeOK
  <2> QED
    BY <1>1, <2>1, <2>2, <2>3, <2>4, RowCommit
<1> QED
  BY <1>2, <1>3, <1>4 DEF CommitReview

-----------------------------------------------------------------------------
\* Beginning a request and dying.

LEMMA NothingMoves ==
    ASSUME RInv, UNCHANGED vars
    PROVE  /\ Grows /\ TypeOK' /\ RowGood(deal)' /\ StripeGood'
           /\ AllBacked' /\ OneTransferACharge'
           /\ \A w \in Workers : KeepsCreated(w)
<1>1. UNCHANGED <<deal, disputes, ledger, processed, has_proof, fresh_proof,
                  verified_quantity, source_removed, intent, transfers, transferred,
                  refunds, refunded, dispute, sent, stripeVars>>
  BY DEF vars, dbVars, stripeVars, transferVars, refundVars
<1>2. StripeTypeOK' /\ StripeGood' /\ OneTransferACharge'
      /\ \A p \in PIs : FullyRefunded(p) <=> FullyRefunded(p)'
  BY <1>1, StripeQuiet
<1>3. TypeOK'
  BY <1>1, <1>2 DEF RInv, RaceTypeOK, TypeOK
<1>4. Grows /\ \A w \in Workers : KeepsCreated(w)
  BY <1>1, <1>2 DEF Grows, StampsStay, KeepsCreated
<1>5. AllBacked'
  BY <1>1, <1>4, LedgerGrows
<1>6. RowGood(deal)'
  <2>1. deal \in DealRow /\ RowGood(deal) /\ deal' = deal
    BY <1>1 DEF RInv, RaceTypeOK, TypeOK
  <2>2. \A d \in DealRow : RowGood(d) => RowGood(d)'
    BY <1>4, RowStays
  <2> QED
    BY <2>1, <2>2 DEF RowGood
<1> QED
  BY <1>2, <1>3, <1>4, <1>5, <1>6

LEMMA DiesStep ==
    ASSUME RInv, NEW w \in Workers, Dies(w)
    PROVE  RInv'
<1>1. /\ Grows /\ TypeOK' /\ RowGood(deal)' /\ StripeGood'
      /\ AllBacked' /\ OneTransferACharge' /\ KeepsCreated(w)
  BY NothingMoves DEF Dies
<1>2. /\ call' \in [Workers -> {Idle} \cup Call] /\ calls' = calls
      /\ \A v \in Workers \ {w} : call'[v] = call[v]
      /\ call'[w] = Idle
  BY DEF Dies, Ends, RInv, RaceTypeOK
<1>3. RaceTypeOK'
  BY <1>1, <1>2 DEF RInv, RaceTypeOK
<1>4. ~Funder(w)'
  BY <1>2 DEF Funder, At, Idle
<1> QED
  BY <1>1, <1>2, <1>3, <1>4, Assemble

LEMMA BeginStep ==
    ASSUME RInv, NEW w \in Workers, NEW req \in Requests, Begin(w, req)
    PROVE  RInv'
<1> DEFINE c == [stage |-> "checked", req |-> req, read |-> deal, obj |-> None]
<1>1. /\ Grows /\ TypeOK' /\ RowGood(deal)' /\ StripeGood'
      /\ AllBacked' /\ OneTransferACharge' /\ KeepsCreated(w)
  BY NothingMoves DEF Begin
<1>2. deal \in DealRow /\ RowGood(deal) /\ Checks(req)
  BY DEF RInv, RaceTypeOK, TypeOK, Begin
<1>3. c \in Call /\ c.read = deal /\ c.req = req /\ c.stage = "checked"
  BY <1>2 DEF Call
<1>4. /\ call' \in [Workers -> {Idle} \cup Call] /\ calls' \in 0..MaxCalls
      /\ \A v \in Workers \ {w} : call'[v] = call[v]
      /\ call'[w] = c
  BY <1>3, StartAssumption DEF Begin, RInv, RaceTypeOK
<1>5. RaceTypeOK'
  BY <1>1, <1>4 DEF RaceTypeOK
<1> HIDE DEF c
<1>6. ~Funder(w)'
  BY <1>3, <1>4 DEF Funder, At
<1>7. CallGood(c)
  <2>1. req.op = "accept" => deal.funded_at /\ has_proof
    BY <1>2 DEF Checks, VerifyAllowed
  <2>2. /\ req.op \in {"release", "settle"} => deal.funded_at /\ deal.verified_at
        /\ req.op = "release" => ~HasPool
        /\ req.op = "settle" => HasPool
    BY <1>2 DEF Checks, SettleAllowed, ReleaseAllowed, PayoutEligible
  <2>3. req.op = "refund" => deal.funded_at
    BY <1>2 DEF Checks, RefundAllowed
  <2>4. req.op = "event" => req.arg \in sent
    BY <1>2 DEF Checks
  <2> QED
    BY <1>2, <1>3, <2>1, <2>2, <2>3, <2>4 DEF CallGood, NotNewer, Pays
<1>8. CallGood(call[w])'
  <2>1. \A x \in Call : CallGood(x) /\ x.stage = "checked" => CallGood(x)'
    BY <1>1, CallStays
  <2> QED
    BY <1>3, <1>4, <1>7, <2>1 DEF CallGood
<1> QED
  BY <1>1, <1>4, <1>5, <1>6, <1>8, Assemble

-----------------------------------------------------------------------------
\* The calls to Stripe.

\* A worker whose call made obj knows so; the row and the ledger are as they were.
LEMMA CalledStep ==
    ASSUME RInv, NEW w \in Workers, NEW op, At(w, op, "checked"),
           NEW obj \in PIs \cup Nat \cup {None}, MovesTo(w, "called", obj),
           UNCHANGED dbVars, StripeTypeOK', Grows, KeepsCreated(w), sent \subseteq sent',
           StripeGood', OneTransferACharge',
           op = "fund" => /\ obj \in PIs /\ intent'[obj] = "created"
                          /\ \A v \in Workers : Funder(v) => call[v].obj # obj,
           op \in {"release", "settle"} =>
              /\ obj \in DOMAIN transfers'
              /\ transfers'[obj].amount = NetOf(call[w].req),
           op = "refund" => /\ obj \in DOMAIN refunds'
                            /\ refunds'[obj].charge = call[w].read.payment_intent_id
                            /\ FullyRefunded(call[w].read.payment_intent_id)'
    PROVE  RInv'
<1>1. UNCHANGED <<deal, disputes, ledger, processed, has_proof, fresh_proof,
                  verified_quantity, source_removed>>
  BY DEF dbVars
<1>2. PICK old \in Call : /\ old = call[w] /\ CallGood(old) /\ old.req.op = op
                         /\ call \in [Workers -> {Idle} \cup Call]
  BY Serving DEF RInv, RaceTypeOK
<1>3. PICK c \in Call : /\ c = [old EXCEPT !.stage = "called", !.obj = obj]
                       /\ c.read = old.read /\ c.req = old.req
                       /\ c.stage = "called" /\ c.obj = obj
                       /\ c.read \in DealRow
  <2> DEFINE c == [old EXCEPT !.stage = "called", !.obj = obj]
  <2>1. /\ c \in Call /\ c.read = old.read /\ c.req = old.req
        /\ c.stage = "called" /\ c.obj = obj /\ c.read \in DealRow
    BY DEF Call
  <2> QED
    BY <2>1
<1>4. /\ call' \in [Workers -> {Idle} \cup Call] /\ calls' = calls
      /\ \A v \in Workers \ {w} : call'[v] = call[v]
      /\ call'[w] = c
  BY <1>2, <1>3 DEF MovesTo
<1>5. RaceTypeOK'
  BY <1>1, <1>4 DEF RInv, RaceTypeOK, TypeOK
<1>6. RowGood(deal)' /\ RowGood(c.read)'
  <2>1. deal \in DealRow /\ RowGood(deal) /\ deal' = deal /\ RowGood(old.read)
    BY <1>1, <1>2 DEF RInv, RaceTypeOK, TypeOK, CallGood
  <2>2. \A d \in DealRow : RowGood(d) => RowGood(d)'
    BY RowStays
  <2> QED
    BY <1>3, <2>1, <2>2 DEF RowGood
<1>7. AllBacked'
  BY <1>1, LedgerGrows
<1>8. CallGood(call[w])'
  <2>1. NotNewer(c.read)'
    BY <1>1, <1>2, <1>3 DEF CallGood, NotNewer
  <2>2. /\ c.req.op = "accept" => c.read.funded_at /\ has_proof'
        /\ Pays(c) => c.read.funded_at /\ c.read.verified_at
        /\ c.req.op = "release" => ~HasPool
        /\ c.req.op = "settle" => HasPool
        /\ c.req.op = "refund" => c.read.funded_at
        /\ c.req.op = "event" => c.req.arg \in sent'
    BY <1>1, <1>2, <1>3 DEF CallGood, Pays
  <2>3. /\ c.req.op = "fund" => c.obj \in PIs /\ intent'[c.obj] = "created"
        /\ Pays(c) => c.obj \in DOMAIN transfers' /\ transfers'[c.obj].amount = NetOf(c.req)
        /\ c.req.op = "refund" =>
              /\ c.obj \in DOMAIN refunds'
              /\ refunds'[c.obj].charge = c.read.payment_intent_id
              /\ FullyRefunded(c.read.payment_intent_id)'
    <3>1. c.req = call[w].req /\ c.req.op = op /\ c.obj = obj
          /\ c.read.payment_intent_id = call[w].read.payment_intent_id
      BY <1>2, <1>3
    <3>2. c.req.op = "fund" => c.obj \in PIs /\ intent'[c.obj] = "created"
      BY <3>1
    <3>3. Pays(c) => c.obj \in DOMAIN transfers' /\ transfers'[c.obj].amount = NetOf(c.req)
      BY <3>1 DEF Pays
    <3>4. c.req.op = "refund" =>
             c.obj \in DOMAIN refunds' /\ refunds'[c.obj].charge = c.read.payment_intent_id
      BY <3>1
    <3>5. c.req.op = "refund" => FullyRefunded(c.read.payment_intent_id)'
      BY <1>4, <3>1 DEF FullyRefunded, Refunded
    <3> QED
      BY <3>2, <3>3, <3>4, <3>5
  <2> QED
    BY <1>4, <1>6, <2>1, <2>2, <2>3 DEF CallGood, Pays
<1>9. Funder(w)' => \A v \in Workers \ {w} : Funder(v) => call[v].obj # call'[w].obj
  <2>1. Funder(w)' => op = "fund"
    BY <1>2, <1>3, <1>4 DEF Funder, At
  <2> QED
    BY <1>3, <1>4, <2>1
<1> QED
  BY <1>4, <1>5, <1>6, <1>7, <1>8, <1>9, Assemble

LEMMA MakeIntentStep ==
    ASSUME RInv, NEW w \in Workers, NEW p \in PIs, MakeIntent(w, p)
    PROVE  RInv'
<1>1. /\ At(w, "fund", "checked") /\ CreateIntent(p, "created") /\ MovesTo(w, "called", p)
      /\ UNCHANGED <<dbVars, transferVars, refundVars, dispute, sent>>
  BY DEF MakeIntent
<1>2. /\ intent[p] = "none" /\ intent' = [intent EXCEPT ![p] = "created"]
      /\ intent \in [PIs -> IntentStatus] /\ StripeTypeOK /\ EventsNameObjects
  BY <1>1 DEF CreateIntent, RInv, RaceTypeOK, TypeOK, StripeTypeOK, StripeGood
<1>3. UNCHANGED <<transfers, transferred, refunds, refunded, dispute, sent, deal, has_proof>>
  BY <1>1 DEF transferVars, refundVars, dbVars
<1>4. StripeTypeOK' /\ EventsNameObjects'
  BY <1>1, <1>2, IntentMade
<1>5. /\ \A q \in PIs : intent[q] # "none" => intent'[q] = intent[q]
      /\ intent'[p] = "created"
  BY <1>2
<1>6. Grows
  BY <1>3, <1>5 DEF Grows, StampsStay, FullyRefunded, Refunded
<1>7. KeepsCreated(w)
  BY <1>5 DEF KeepsCreated
<1>8. StripeGood'
  <2>1. \A q \in PIs : intent[q] = "succeeded" => intent'[q] = "succeeded"
    BY <1>5
  <2> QED
    BY <1>3, <1>4, <2>1, NoNewMoney
<1>9. OneTransferACharge'
  BY <1>3 DEF RInv, OneTransferACharge
<1>10. \A v \in Workers : Funder(v) => call[v].obj # p
  <2> SUFFICES ASSUME NEW v \in Workers, Funder(v), call[v].obj = p PROVE FALSE
    OBVIOUS
  <2>1. intent[call[v].obj] = "created"
    BY Serving DEF Funder, At, CallGood
  <2> QED
    BY <1>2, <2>1
<1> QED
  BY <1>1, <1>3, <1>4, <1>5, <1>6, <1>7, <1>8, <1>9, <1>10, CalledStep

\* A Transfer for a worker that checked a verified deal.
LEMMA NewTransfer ==
    ASSUME RInv, NEW w \in Workers, call[w] # Idle, Pays(call[w]),
           NEW amount \in Int, CreateTransfer(call[w].read.charge_id, amount),
           ~HasPool => amount = FixedNet,
           UNCHANGED <<dbVars, intent, refundVars, dispute, sent>>
    PROVE  /\ StripeTypeOK' /\ Grows /\ StripeGood' /\ OneTransferACharge'
           /\ Len(transfers') \in DOMAIN transfers'
           /\ transfers'[Len(transfers')].amount = amount
<1> DEFINE p == call[w].read.charge_id
           n == Len(transfers) + 1
<1>1. /\ p \in PIs /\ intent[p] = "succeeded" /\ deal.verified_at
  BY DEF RInv, CallsGood, CallGood, RowGood, NotNewer
<1>2. /\ transfers \in Seq(Transfer) /\ transferred \in [PIs -> Nat] /\ StripeTypeOK
      /\ Charge \in Int
  BY ChargeIsInt DEF RInv, RaceTypeOK, TypeOK, StripeTypeOK
<1>3. UNCHANGED <<intent, refunds, refunded, dispute, sent, deal, has_proof>>
  BY DEF refundVars, dbVars
<1>4. /\ amount \in Nat /\ amount > 0 /\ transferred[p] + amount <= Charge
      /\ transfers' = Append(transfers, [charge |-> p, amount |-> amount])
      /\ transferred' = [transferred EXCEPT ![p] = transferred[p] + amount]
  BY <1>2 DEF CreateTransfer, CanTransfer
<1> HIDE DEF p
<1>5. [charge |-> p, amount |-> amount] \in Transfer
  BY <1>1, <1>4 DEF Transfer
<1>6. /\ transfers' \in Seq(Transfer) /\ Len(transfers') = n
      /\ DOMAIN transfers = 1..Len(transfers) /\ DOMAIN transfers' = 1..n
      /\ transfers'[n].charge = p /\ transfers'[n].amount = amount
      /\ \A m \in DOMAIN transfers : transfers'[m] = transfers[m]
      /\ n \in Nat \ {0}
  BY <1>2, <1>4, <1>5
<1> HIDE DEF n
<1>7. \A m \in DOMAIN transfers' : m \in DOMAIN transfers \/ m = n
  BY <1>6 DEF n
<1>8. /\ transferred' \in [PIs -> Nat] /\ transferred'[p] = transferred[p] + amount
      /\ \A q \in PIs \ {p} : transferred'[q] = transferred[q]
  BY <1>1, <1>2, <1>4
<1>9. StripeTypeOK'
  BY <1>2, <1>3, <1>6, <1>8 DEF StripeTypeOK
<1>10. Grows
  <2>1. \A m \in DOMAIN transfers : m \in DOMAIN transfers' /\ transfers'[m] = transfers[m]
    BY <1>6 DEF n
  <2> QED
    BY <1>3, <2>1 DEF Grows, StampsStay, FullyRefunded, Refunded
<1>11. StripeGood'
  <2>1. EventsNameObjects'
    BY <1>3 DEF RInv, StripeGood, EventsNameObjects
  <2>2. \A m \in DOMAIN transfers' : intent'[transfers'[m].charge] = "succeeded"
    BY <1>1, <1>3, <1>6, <1>7 DEF RInv, StripeGood
  <2>3. /\ \A dp \in DPs : dispute'[dp].status # None =>
              dispute'[dp].charge \in PIs /\ intent'[dispute'[dp].charge] = "succeeded"
        /\ \A q \in PIs : Refunded(q)' # 0 =>
              intent'[q] = "succeeded" /\ Refunded(q)' <= Charge
    BY <1>3 DEF RInv, StripeGood, Refunded
  <2> QED
    BY <1>1, <1>3, <2>1, <2>2, <2>3 DEF StripeGood
<1>12. OneTransferACharge'
  <2> SUFFICES ASSUME ~HasPool, Charge > 0 => 2 * FixedNet > Charge
               PROVE  /\ \A m \in DOMAIN transfers' :
                            transferred'[transfers'[m].charge] >= FixedNet
                      /\ \A l, m \in DOMAIN transfers' :
                            transfers'[l].charge = transfers'[m].charge => l = m
    BY DEF OneTransferACharge
  <2>1. /\ \A m \in DOMAIN transfers : /\ transferred[transfers[m].charge] >= FixedNet
                                       /\ transfers[m].charge \in PIs
        /\ \A l, m \in DOMAIN transfers : transfers[l].charge = transfers[m].charge => l = m
    BY <1>2, TransferHasCharge DEF RInv, OneTransferACharge
  <2>2. amount = FixedNet /\ FixedNet \in Int
    BY FixedNetIsInt
  <2>3. \A q \in PIs : transferred[q] \in Nat
    BY <1>2
  <2>4. \A m \in DOMAIN transfers : transfers[m].charge # p
    BY <1>1, <1>2, <1>4, <2>1, <2>2, <2>3
  <2>5. ASSUME NEW m \in DOMAIN transfers' PROVE transferred'[transfers'[m].charge] >= FixedNet
    <3>1. CASE m = n
      BY <1>1, <1>6, <1>8, <2>2, <2>3, <3>1
    <3>2. CASE m \in DOMAIN transfers
      BY <1>6, <1>8, <2>1, <2>4, <3>2
    <3> QED
      BY <1>7, <3>1, <3>2
  <2>6. ASSUME NEW l \in DOMAIN transfers', NEW m \in DOMAIN transfers',
               transfers'[l].charge = transfers'[m].charge
        PROVE  l = m
    BY <1>6, <1>7, <2>1, <2>4, <2>6
  <2> QED
    BY <2>5, <2>6
<1>13. n \in DOMAIN transfers'
  BY <1>6
<1> QED
  BY <1>6, <1>9, <1>10, <1>11, <1>12, <1>13

LEMMA MakeTransferStep ==
    ASSUME RInv, NEW w \in Workers, MakeTransfer(w)
    PROVE  RInv'
<1> DEFINE n == Len(transfers')
<1>1. /\ MovesTo(w, "called", n)
      /\ UNCHANGED <<dbVars, intent, refundVars, dispute, sent>>
  BY DEF MakeTransfer
<1>2. PICK op \in {"release", "settle"}, amount \in Int :
         /\ At(w, op, "checked") /\ CreateTransfer(call[w].read.charge_id, amount)
         /\ amount = NetOf(call[w].req)
  <2>1. CASE At(w, "release", "checked") /\ CreateTransfer(call[w].read.charge_id, FixedNet)
    <3>1. NetOf(call[w].req) = FixedNet
      BY <2>1 DEF NetOf, At
    <3> QED
      BY <2>1, <3>1, FixedNetIsInt
  <2>2. CASE /\ At(w, "settle", "checked")
             /\ CreateTransfer(call[w].read.charge_id, FixedNet + Settlement(w).pool_net_to_owner)
    <3>1. call[w].req.arg \in Nat /\ call[w].req.op = "settle"
      BY <2>2, Serving, RequestsAssumption, TermsAssumption
    <3>2. Settlement(w).pool_net_to_owner \in Int
      BY <3>1, PoolTypes DEF Settlement
    <3>3. NetOf(call[w].req) = FixedNet + Settlement(w).pool_net_to_owner
      BY <3>1 DEF NetOf, Settlement
    <3>4. FixedNet + Settlement(w).pool_net_to_owner \in Int
      BY <3>2, FixedNetIsInt
    <3> QED
      BY <2>2, <3>3, <3>4
  <2> QED
    BY <2>1, <2>2 DEF MakeTransfer
<1>3. /\ call[w] # Idle /\ CallGood(call[w]) /\ call[w].req.op = op
  BY <1>2, Serving
<1>4. Pays(call[w]) /\ (~HasPool => amount = FixedNet)
  BY <1>2, <1>3 DEF Pays, NetOf, CallGood
<1>5. /\ StripeTypeOK' /\ Grows /\ StripeGood' /\ OneTransferACharge'
      /\ n \in DOMAIN transfers' /\ transfers'[n].amount = amount
  BY <1>1, <1>2, <1>3, <1>4, NewTransfer
<1>6. KeepsCreated(w) /\ sent \subseteq sent'
  BY <1>1 DEF KeepsCreated
<1>7. PICK obj \in Nat : obj = n
  <2>1. transfers' \in Seq(Transfer)
    BY <1>5 DEF StripeTypeOK
  <2> QED
    BY <2>1
<1> QED
  BY <1>1, <1>2, <1>5, <1>6, <1>7, CalledStep

\* A Refund, made by the program or on the dashboard.
LEMMA NewRefund ==
    ASSUME RInv, NEW p \in PIs, NEW amount \in Int, NEW by \in {"program", "dashboard"},
           CreateRefund(p, amount, by), UNCHANGED <<intent, transferVars, dispute>>,
           has_proof => has_proof',
           StampsStay
    PROVE  /\ StripeTypeOK' /\ Grows /\ StripeGood' /\ OneTransferACharge'
           /\ Len(refunds') \in DOMAIN refunds' /\ Len(refunds') \in Nat
           /\ refunds'[Len(refunds')].amount = amount
           /\ refunds'[Len(refunds')].charge = p
           /\ Refunded(p)' = Refunded(p) + amount
           /\ amount \in Nat
<1> DEFINE n == Len(refunds) + 1
<1>1. /\ StripeTypeOK /\ EventsNameObjects /\ refunds \in Seq(Refund)
      /\ transferred \in [PIs -> Nat] /\ transfers \in Seq(Transfer)
      /\ refunded \in [PIs -> [program: Nat, dashboard: Nat]]
      /\ intent \in [PIs -> IntentStatus]
      /\ dispute \in [DPs -> [charge: PIs \cup {None}, status: DisputeStatus \cup {None}]]
      /\ Charge \in Int
  BY ChargeIsInt DEF RInv, RaceTypeOK, TypeOK, StripeTypeOK, StripeGood
<1>2. /\ refunds' \in Seq(Refund) /\ sent' \subseteq Event /\ sent \subseteq sent'
      /\ refunded' \in [PIs -> [program: Nat, dashboard: Nat]]
      /\ amount \in Nat /\ EventsNameObjects'
  BY <1>1, RefundMade
<1>3. /\ amount > 0 /\ Refunded(p) + amount <= Charge
      /\ \A q \in PIs \ {p} : refunded'[q] = refunded[q]
      /\ Refunded(p)' = Refunded(p) + amount
  <2>1. /\ amount > 0 /\ Refunded(p) + amount <= Charge
        /\ by = "program" => /\ refunded'[p].program = refunded[p].program + amount
                             /\ refunded'[p].dashboard = refunded[p].dashboard
        /\ by = "dashboard" => /\ refunded'[p].dashboard = refunded[p].dashboard + amount
                               /\ refunded'[p].program = refunded[p].program
        /\ \A q \in PIs \ {p} : refunded'[q] = refunded[q]
    BY <1>1, RefundDraws
  <2>2. refunded[p].program \in Nat /\ refunded[p].dashboard \in Nat
    BY <1>1
  <2>3. Refunded(p)' = Refunded(p) + amount
    BY <1>2, <2>1, <2>2 DEF Refunded
  <2> QED
    BY <2>1, <2>3
<1>4. UNCHANGED <<intent, transfers, transferred, dispute>>
  BY DEF transferVars
<1>5. StripeTypeOK'
  BY <1>1, <1>2, <1>4 DEF StripeTypeOK
<1>6. /\ Len(refunds') = n /\ n \in Nat \ {0}
      /\ DOMAIN refunds = 1..Len(refunds) /\ DOMAIN refunds' = 1..n
      /\ refunds'[n].amount = amount /\ refunds'[n].charge = p
      /\ \A m \in DOMAIN refunds : refunds'[m] = refunds[m]
  <2>1. refunds' = Append(refunds, [charge |-> p, amount |-> amount, by |-> by])
    BY DEF CreateRefund
  <2> QED
    BY <1>1, <2>1
<1>7. /\ \A m \in DOMAIN refunds : m \in DOMAIN refunds' /\ refunds'[m] = refunds[m]
      /\ \A m \in DOMAIN refunds' : m \in DOMAIN refunds \/ m = n
      /\ n \in DOMAIN refunds'
  BY <1>6
<1> HIDE DEF n
<1>8. \A q \in PIs : Refunded(q) \in Nat
  BY <1>1 DEF Refunded
<1>9. \A q \in PIs : FullyRefunded(q) => FullyRefunded(q)'
  <2> SUFFICES ASSUME NEW q \in PIs, FullyRefunded(q) PROVE FullyRefunded(q)'
    OBVIOUS
  <2>1. q # p
    BY <1>1, <1>3, <1>8 DEF FullyRefunded
  <2> QED
    BY <1>3, <2>1 DEF FullyRefunded, Refunded
<1>10. Grows
  BY <1>2, <1>4, <1>7, <1>9 DEF Grows
<1>11. StripeGood'
  <2>1. \A q \in PIs : Refunded(q)' # 0 => intent'[q] = "succeeded" /\ Refunded(q)' <= Charge
    <3> SUFFICES ASSUME NEW q \in PIs, Refunded(q)' # 0
                 PROVE  intent'[q] = "succeeded" /\ Refunded(q)' <= Charge
      OBVIOUS
    <3>1. CASE q = p
      BY <1>3, <1>4, <3>1 DEF CreateRefund, CanRefund
    <3>2. CASE q # p
      <4>1. Refunded(q)' = Refunded(q)
        BY <1>3, <3>2 DEF Refunded
      <4> QED
        BY <1>4, <4>1 DEF RInv, StripeGood
    <3> QED
      BY <3>1, <3>2
  <2>2. \A dp \in DPs : dispute'[dp].status # None =>
              dispute'[dp].charge \in PIs /\ intent'[dispute'[dp].charge] = "succeeded"
    BY <1>4 DEF RInv, StripeGood
  <2>3. /\ \A m \in DOMAIN transfers' : intent'[transfers'[m].charge] = "succeeded"
        /\ transfers' # <<>> => deal'.verified_at
    BY <1>4 DEF RInv, StripeGood, StampsStay
  <2> QED
    BY <1>2, <2>1, <2>2, <2>3 DEF StripeGood
<1>12. OneTransferACharge'
  BY <1>4 DEF RInv, OneTransferACharge
<1> QED
  BY <1>2, <1>3, <1>5, <1>6, <1>7, <1>10, <1>11, <1>12

LEMMA MakeRefundStep ==
    ASSUME RInv, NEW w \in Workers, MakeRefund(w)
    PROVE  RInv'
<1> DEFINE p == call[w].read.payment_intent_id
           amount == Charge - Refunded(p)
<1>1. /\ At(w, "refund", "checked") /\ CreateRefund(p, amount, "program")
      /\ MovesTo(w, "called", Len(refunds'))
      /\ UNCHANGED <<dbVars, intent, transferVars, dispute>>
  BY DEF MakeRefund
<1>2. PICK q \in PIs : q = p
  BY <1>1, Serving DEF CallGood, RowGood
<1>3. amount \in Int /\ Refunded(q) \in Nat /\ Charge \in Int
  <2>1. refunded \in [PIs -> [program: Nat, dashboard: Nat]] /\ Charge \in Int
    BY ChargeIsInt DEF RInv, RaceTypeOK, TypeOK, StripeTypeOK
  <2> QED
    BY <1>2, <2>1 DEF Refunded
<1>4. UNCHANGED <<deal, has_proof>>
  BY <1>1 DEF dbVars
<1>5. /\ StripeTypeOK' /\ Grows /\ StripeGood' /\ OneTransferACharge'
      /\ Len(refunds') \in DOMAIN refunds' /\ Len(refunds') \in Nat
      /\ refunds'[Len(refunds')].charge = q
      /\ Refunded(q)' = Refunded(q) + amount
  <2>1. CreateRefund(q, amount, "program") /\ amount = Charge - Refunded(q)
    BY <1>1, <1>2
  <2> HIDE DEF amount, p
  <2> QED
    BY <1>1, <1>3, <1>4, <2>1, NewRefund DEF StampsStay
<1>6. FullyRefunded(q)'
  <2>1. Refunded(q)' = Charge
    BY <1>2, <1>3, <1>5
  <2> QED
    BY <2>1 DEF FullyRefunded
<1>7. FullyRefunded(call[w].read.payment_intent_id)'
  <2>1. call'[w].read = call[w].read
    <3>1. call[w] \in Call /\ call \in [Workers -> {Idle} \cup Call]
      BY <1>1, Serving DEF RInv, RaceTypeOK
    <3> QED
      BY <1>1, <3>1 DEF MovesTo, Call
  <2> QED
    BY <1>2, <1>6, <2>1 DEF FullyRefunded, Refunded
<1>8. KeepsCreated(w) /\ sent \subseteq sent'
  BY <1>1, <1>5 DEF KeepsCreated, Grows
<1> QED
  BY <1>1, <1>2, <1>5, <1>7, <1>8, CalledStep

LEMMA SettlementRefundStep ==
    ASSUME RInv, NEW w \in Workers, SettlementRefund(w)
    PROVE  RInv'
<1> DEFINE p == call[w].read.payment_intent_id
           unused == Settlement(w).refund_to_business
           n == Len(refunds')
<1>1. /\ At(w, "settle", "half") /\ CreateRefund(p, unused, "program") /\ Ends(w)
      /\ UNCHANGED <<disputes, processed, reviewVars, source_removed, intent,
                     transferVars, dispute>>
      /\ \/ /\ deal' = MarkPoolRefunded(deal, n, unused)
            /\ Log(RefundEntry(unused, n))
         \/ UNCHANGED <<deal, ledger>>
  BY DEF SettlementRefund
<1>2. /\ call[w] # Idle /\ CallGood(call[w]) /\ call[w].req.op = "settle"
      /\ call[w].req.arg \in Nat
  BY <1>1, Serving, RequestsAssumption, TermsAssumption
<1>3. p \in PIs /\ HasPool /\ unused \in Int
  BY <1>2, PoolTypes DEF CallGood, RowGood, Pays, Settlement
<1>4. unused \in Nat /\ n \in Nat
  <2>1. StripeTypeOK /\ EventsNameObjects
    BY DEF RInv, RaceTypeOK, TypeOK, StripeGood
  <2> HIDE DEF p, unused, n
  <2> QED
    BY <1>1, <1>3, <2>1, RefundMade DEF n
<1>5. deal \in DealRow /\ RowGood(deal) /\ ledger \in Seq(LedgerRow)
  BY DEF RInv, RaceTypeOK, TypeOK
<1>6. /\ deal' \in DealRow /\ SameStamps(deal, deal') /\ deal'.status = deal.status
      /\ deal'.status_before_dispute = deal.status_before_dispute
  <2> HIDE DEF unused, n
  <2>1. CASE deal' = MarkPoolRefunded(deal, n, unused)
    BY <1>4, <1>5, <2>1, PoolRefundedEffect DEF SameBadge
  <2>2. CASE deal' = deal
    BY <1>5, <2>2 DEF SameStamps
  <2> QED
    BY <1>1, <2>1, <2>2
<1>7. /\ StripeTypeOK' /\ Grows /\ StripeGood' /\ OneTransferACharge'
      /\ n \in DOMAIN refunds' /\ refunds'[n].charge \in PIs
      /\ refunds'[n].amount = unused
  <2>1. /\ StampsStay
        /\ has_proof => has_proof'
    BY <1>1, <1>6 DEF SameStamps, reviewVars, StampsStay
  <2> HIDE DEF p, unused, n
  <2> QED
    BY <1>1, <1>3, <2>1, NewRefund DEF n
<1>8. RowGood(deal)'
  <2>1. \A d \in DealRow : RowGood(d) => RowGood(d)'
    BY <1>7, RowStays
  <2>2. RowGood(deal')
    BY <1>5, <1>6 DEF RowGood, SameStamps
  <2> QED
    BY <1>6, <2>1, <2>2 DEF RowGood
<1>9. ledger' \in Seq(LedgerRow) /\ AllBacked'
  <2> DEFINE row == RefundEntry(unused, n)
  <2>1. /\ row \in LedgerRow /\ row.ref.obj = "refund" /\ row.ref.id = n
        /\ -row.amount = unused
    <3> HIDE DEF unused, n
    <3>1. -unused \in Int /\ "deal_refund" \in LedgerKind
      BY <1>4 DEF LedgerKind
    <3> QED
      BY <1>4, <1>5, <3>1, EntryTypes DEF RefundEntry, Entry, RefTo
  <2>2. PICK entry \in LedgerRow : entry = row
    BY <2>1
  <2>3. Backed(entry)'
    BY <1>3, <1>7, <2>1, <2>2 DEF Backed, MayBeRecordedAs
  <2>4. ledger' = ledger \/ ledger' = Append(ledger, entry)
    BY <1>1, <2>2 DEF Log
  <2> QED
    BY <1>7, <2>3, <2>4, LedgerGrows
<1>10. /\ call' \in [Workers -> {Idle} \cup Call] /\ calls' = calls
       /\ \A v \in Workers \ {w} : call'[v] = call[v]
       /\ call'[w] = Idle
  BY <1>1 DEF Ends, RInv, RaceTypeOK
<1>11. processed \subseteq sent'
  BY <1>7 DEF RInv, RaceTypeOK, TypeOK, Grows
<1>12. RaceTypeOK'
  BY <1>1, <1>6, <1>7, <1>9, <1>10, <1>11 DEF RInv, RaceTypeOK, TypeOK, reviewVars
<1>13. KeepsCreated(w) /\ ~Funder(w)'
  BY <1>1, <1>10 DEF KeepsCreated, Funder, At, Idle
<1> QED
  BY <1>7, <1>8, <1>9, <1>10, <1>12, <1>13, Assemble

-----------------------------------------------------------------------------
\* The commits that follow a call to Stripe.

LEMMA CommitFundingStep ==
    ASSUME RInv, NEW w \in Workers, CommitFunding(w)
    PROVE  RInv'
<1> DEFINE p == call[w].obj
<1>1. /\ At(w, "fund", "called") /\ deal' = AwaitFunding(deal, p) /\ Ends(w)
      /\ intent' = [intent EXCEPT ![p] = "offered"]
      /\ UNCHANGED <<rowVars, processed, reviewVars, source_removed,
                     transferVars, refundVars, dispute, sent>>
  BY DEF CommitFunding
<1>2. call[w] # Idle /\ p \in PIs /\ intent[p] = "created"
  BY <1>1, Serving DEF CallGood
<1>3. /\ deal \in DealRow /\ RowGood(deal) /\ intent \in [PIs -> IntentStatus] /\ StripeTypeOK
  BY DEF RInv, RaceTypeOK, TypeOK, StripeTypeOK
<1>4. /\ intent' \in [PIs -> IntentStatus]
      /\ \A q \in PIs \ {p} : intent'[q] = intent[q]
      /\ \A q \in PIs : intent[q] = "succeeded" => intent'[q] = "succeeded"
  BY <1>1, <1>2, <1>3 DEF IntentStatus
<1>5. UNCHANGED <<transfers, transferred, refunds, refunded, dispute, sent, disputes,
                  ledger, processed, has_proof, fresh_proof, verified_quantity,
                  source_removed>>
  BY <1>1 DEF rowVars, reviewVars, transferVars, refundVars
<1>6. /\ deal' \in DealRow /\ deal'.status = "awaiting_funding"
      /\ deal'.funded_at = deal.funded_at /\ deal'.verified_at = deal.verified_at
      /\ deal'.paid_at = deal.paid_at /\ deal'.charge_id = deal.charge_id
      /\ deal'.transfer_id = deal.transfer_id /\ deal'.payment_intent_id = p
  BY <1>1, <1>2, <1>3 DEF AwaitFunding, DealRow, Status
<1>7. StripeTypeOK'
  BY <1>3, <1>4, <1>5 DEF StripeTypeOK
<1>8. Grows
  BY <1>2, <1>4, <1>5, <1>6, NoneAssumption
  DEF Grows, StampsStay, FullyRefunded, Refunded
<1>9. KeepsCreated(w)
  BY <1>1, <1>4 DEF KeepsCreated, Funder
<1>10. StripeGood'
  <2>1. EventsNameObjects'
    BY <1>5 DEF RInv, StripeGood, EventsNameObjects
  <2> QED
    BY <1>4, <1>5, <1>6, <2>1, NoNewMoney
<1>11. OneTransferACharge'
  BY <1>5 DEF RInv, OneTransferACharge
<1>12. RowGood(deal)'
  BY <1>2, <1>3, <1>4, <1>5, <1>6 DEF RowGood
<1>13. ledger' \in Seq(LedgerRow) /\ AllBacked'
  BY <1>5, <1>8, LedgerGrows
<1>14. /\ call' \in [Workers -> {Idle} \cup Call] /\ calls' = calls
       /\ \A v \in Workers \ {w} : call'[v] = call[v]
       /\ call'[w] = Idle
  BY <1>1 DEF Ends, RInv, RaceTypeOK
<1>15. RaceTypeOK'
  BY <1>5, <1>6, <1>7, <1>14 DEF RInv, RaceTypeOK, TypeOK
<1>16. ~Funder(w)'
  BY <1>14 DEF Funder, At, Idle
<1> QED
  BY <1>8, <1>9, <1>10, <1>11, <1>12, <1>13, <1>14, <1>15, <1>16, Assemble

\* Recording a payout: the row says paid, the ledger names the Transfer.
LEMMA PayoutCommit ==
    ASSUME RInv, NEW w \in Workers, call[w] # Idle, Pays(call[w]), call[w].stage = "called",
           deal' \in DealRow, deal'.status = "paid", deal'.transfer_id = call[w].obj,
           deal'.funded_at = deal.funded_at, deal'.verified_at = deal.verified_at,
           deal'.charge_id = deal.charge_id,
           deal'.payment_intent_id = deal.payment_intent_id,
           Log(PayoutEntry(NetOf(call[w].req), call[w].obj)), NetOf(call[w].req) \in Int,
           UNCHANGED <<disputes, processed, reviewVars, source_removed, stripeVars>>,
           Ends(w) \/ MovesTo(w, "half", None)
    PROVE  RInv'
<1>1. PICK n \in DOMAIN transfers :
         n = call[w].obj /\ transfers[n].amount = NetOf(call[w].req)
  BY DEF RInv, CallsGood, CallGood
<1>2. PICK net \in Int : net = NetOf(call[w].req)
  OBVIOUS
<1>3. n \in Nat
  BY DEF RInv, RaceTypeOK, TypeOK, StripeTypeOK
<1>4. PICK row : row = PayoutEntry(net, n)
  OBVIOUS
<1>5. /\ row \in LedgerRow /\ row.ref.obj = "transfer" /\ row.ref.id = n /\ row.amount = -net
  <2>1. -net \in Int /\ "deal_payout" \in LedgerKind /\ ledger \in Seq(LedgerRow)
    BY DEF LedgerKind, RInv, RaceTypeOK, TypeOK
  <2> QED
    BY <1>3, <1>4, <2>1, EntryTypes DEF PayoutEntry, Entry, RefTo
<1>6. UNCHANGED <<transfers, intent, refunded, dispute, disputes, processed, has_proof,
                  fresh_proof, verified_quantity, source_removed>>
  BY DEF stripeVars, transferVars, refundVars, reviewVars
<1>7. Backed(row)' /\ ledger' = Append(ledger, row)
  BY <1>1, <1>2, <1>4, <1>5, <1>6 DEF Backed, Log
<1>8. RowGood(deal)'
  BY <1>1, <1>6 DEF RInv, RowGood
<1>9. TypeOK
  BY DEF RInv, RaceTypeOK
<1> QED
  BY <1>5, <1>6, <1>7, <1>8, <1>9, CommitStep DEF TypeOK, StampsStay

LEMMA CommitReleaseStep ==
    ASSUME RInv, NEW w \in Workers, CommitRelease(w)
    PROVE  RInv'
<1> DEFINE n == call[w].obj
<1>1. /\ At(w, "release", "called") /\ deal' = MarkPaid(deal, n)
      /\ Log(PayoutEntry(FixedNet, n)) /\ Ends(w)
      /\ UNCHANGED <<disputes, processed, reviewVars, source_removed, stripeVars>>
  BY DEF CommitRelease
<1>2. /\ call[w] # Idle /\ Pays(call[w]) /\ call[w].stage = "called"
      /\ NetOf(call[w].req) = FixedNet /\ FixedNet \in Int
      /\ n \in DOMAIN transfers
  BY <1>1, Serving, FixedNetIsInt DEF Pays, NetOf, CallGood
<1>3. n \in Nat /\ deal \in DealRow
  BY <1>2 DEF RInv, RaceTypeOK, TypeOK, StripeTypeOK
<1>4. /\ deal' \in DealRow /\ deal'.status = "paid" /\ deal'.transfer_id = n
      /\ deal'.funded_at = deal.funded_at /\ deal'.verified_at = deal.verified_at
      /\ deal'.charge_id = deal.charge_id
      /\ deal'.payment_intent_id = deal.payment_intent_id
  <2> HIDE DEF n
  <2> QED
    BY <1>1, <1>3, MarkPaidEffect
<1> QED
  BY <1>1, <1>2, <1>4, PayoutCommit

LEMMA CommitSettlementStep ==
    ASSUME RInv, NEW w \in Workers, CommitSettlement(w)
    PROVE  RInv'
<1> DEFINE n == call[w].obj
           gross == Settlement(w).pool_gross
           paid == MarkSettled(deal, n, gross)
<1>1. /\ At(w, "settle", "called")
      /\ \/ deal' = paid /\ MovesTo(w, "half", None)
         \/ deal' = [paid EXCEPT !.pool_refunded_amount = 0] /\ Ends(w)
      /\ Log(PayoutEntry(FixedNet + Settlement(w).pool_net_to_owner, n))
      /\ UNCHANGED <<disputes, processed, reviewVars, source_removed, stripeVars>>
  BY DEF CommitSettlement
<1>2. /\ call[w] # Idle /\ Pays(call[w]) /\ call[w].stage = "called"
      /\ call[w].req.arg \in Nat
      /\ NetOf(call[w].req) = FixedNet + Settlement(w).pool_net_to_owner
      /\ n \in DOMAIN transfers
  BY <1>1, Serving, RequestsAssumption, TermsAssumption
  DEF Pays, NetOf, CallGood, Settlement
<1>3. /\ gross \in Nat /\ Settlement(w).pool_net_to_owner \in Int /\ FixedNet \in Int
      /\ n \in Nat /\ deal \in DealRow
  BY <1>2, PoolTypes, FixedNetIsInt
  DEF Settlement, RInv, RaceTypeOK, TypeOK, StripeTypeOK
<1>4. /\ paid \in DealRow /\ paid.status = "paid" /\ paid.transfer_id = n
      /\ paid.funded_at = deal.funded_at /\ paid.verified_at = deal.verified_at
      /\ paid.charge_id = deal.charge_id
      /\ paid.payment_intent_id = deal.payment_intent_id
  <2> HIDE DEF n, gross
  <2> QED
    BY <1>3, MarkSettledEffect
<1>5. /\ deal' \in DealRow /\ deal'.status = "paid" /\ deal'.transfer_id = n
      /\ deal'.funded_at = deal.funded_at /\ deal'.verified_at = deal.verified_at
      /\ deal'.charge_id = deal.charge_id
      /\ deal'.payment_intent_id = deal.payment_intent_id
  <2> HIDE DEF n, paid
  <2>1. CASE deal' = paid
    BY <1>4, <2>1
  <2>2. CASE deal' = [paid EXCEPT !.pool_refunded_amount = 0]
    BY <1>4, <2>2, PoolRefundedEffect DEF SameStamps
  <2> QED
    BY <1>1, <2>1, <2>2
<1>6. NetOf(call[w].req) \in Int
  BY <1>2, <1>3
<1>7. Ends(w) \/ MovesTo(w, "half", None)
  BY <1>1
<1> QED
  BY <1>1, <1>2, <1>5, <1>6, <1>7, PayoutCommit

LEMMA CommitRefundStep ==
    ASSUME RInv, NEW w \in Workers, CommitRefund(w)
    PROVE  RInv'
<1>1. /\ At(w, "refund", "called") /\ deal' = MarkRefunded(deal, call[w].obj)
      /\ Log(RefundEntry(Charge, call[w].obj)) /\ Ends(w)
      /\ UNCHANGED <<disputes, processed, reviewVars, source_removed, stripeVars>>
  BY DEF CommitRefund
<1>2. /\ call[w] # Idle /\ call[w].obj \in DOMAIN refunds
      /\ FullyRefunded(call[w].read.payment_intent_id)
      /\ refunds[call[w].obj].charge = call[w].read.payment_intent_id
      /\ call[w].read.payment_intent_id \in PIs /\ deal.funded_at
  BY <1>1, Serving DEF CallGood, RowGood, NotNewer
<1>3. PICK n \in DOMAIN refunds : n = call[w].obj
  BY <1>2
<1>4. /\ n \in Nat /\ deal \in DealRow /\ RowGood(deal) /\ ledger \in Seq(LedgerRow)
      /\ TypeOK /\ Charge \in Int
  BY ChargeIsInt DEF RInv, RaceTypeOK, TypeOK, StripeTypeOK
<1>5. /\ deal' \in DealRow /\ SameStamps(deal, deal') /\ deal'.status = "refunded"
  BY <1>1, <1>3, <1>4, MarkRefundedEffect
<1>6. UNCHANGED <<transfers, intent, refunds, refunded, dispute, disputes, processed,
                  has_proof, fresh_proof, verified_quantity, source_removed>>
  BY <1>1 DEF stripeVars, transferVars, refundVars, reviewVars
<1>7. PICK row : row = RefundEntry(Charge, n)
  OBVIOUS
<1>8. /\ row \in LedgerRow /\ row.ref.obj = "refund" /\ row.ref.id = n
      /\ row.amount = -Charge
  <2>1. -Charge \in Int /\ "deal_refund" \in LedgerKind
    BY <1>4 DEF LedgerKind
  <2> QED
    BY <1>4, <1>7, <2>1, EntryTypes DEF RefundEntry, Entry, RefTo
<1>9. Backed(row)' /\ ledger' = Append(ledger, row)
  <2>1. -row.amount = Charge
    BY <1>4, <1>8
  <2>2. refunds[n].charge \in PIs /\ FullyRefunded(refunds[n].charge)'
    BY <1>2, <1>3, <1>6 DEF FullyRefunded, Refunded
  <2> QED
    BY <1>1, <1>3, <1>6, <1>7, <1>8, <2>1, <2>2 DEF Backed, Log, MayBeRecordedAs
<1>10. RowGood(deal)'
  BY <1>2, <1>4, <1>5, <1>6 DEF RowGood, SameStamps, Returned, FullyRefunded, Refunded
<1> QED
  BY <1>1, <1>2, <1>4, <1>5, <1>6, <1>8, <1>9, <1>10, CommitStep DEF TypeOK, SameStamps, StampsStay

-----------------------------------------------------------------------------
\* Stripe's events and /refresh, on a row that may be out of date.

LEMMA FundsCommit ==
    ASSUME RInv, NEW w \in Workers, call[w] # Idle, NEW p \in PIs, Funds(p, call[w].read),
           UNCHANGED <<disputes, reviewVars, source_removed, stripeVars>>,
           processed' \subseteq sent, Ends(w)
    PROVE  RInv'
<1>1. /\ call[w].read.payment_intent_id = p /\ intent[p] = "succeeded"
      /\ deal' = MarkFunded(deal, p)
      /\ ledger' = Append(ledger, Entry("deal_charge", Charge, RefTo("payment_intent", p)))
  BY DEF Funds, Log
<1>2. /\ deal \in DealRow /\ RowGood(deal) /\ ledger \in Seq(LedgerRow) /\ TypeOK
      /\ CallGood(call[w]) /\ Charge \in Int
  BY ChargeIsInt DEF RInv, RaceTypeOK, TypeOK, CallsGood
<1>3. deal.payment_intent_id \in PIs
  BY <1>1, <1>2, NoneAssumption DEF CallGood, NotNewer, DealRow
<1>4. /\ deal' \in DealRow /\ SameBadge(deal, deal')
      /\ deal'.verified_at = deal.verified_at /\ deal'.paid_at = deal.paid_at
      /\ deal'.payment_intent_id = deal.payment_intent_id
      /\ deal'.transfer_id = deal.transfer_id
      /\ deal'.status = "funded" /\ deal'.funded_at /\ deal'.charge_id = p
  BY <1>1, <1>2, MarkFundedEffect
<1>5. UNCHANGED <<intent, transfers, has_proof, fresh_proof, verified_quantity>>
  BY DEF stripeVars, transferVars, reviewVars
<1>6. RowGood(deal)'
  BY <1>1, <1>2, <1>3, <1>4, <1>5 DEF RowGood
<1>7. PICK row : row = Entry("deal_charge", Charge, RefTo("payment_intent", p))
  OBVIOUS
<1>8. row \in LedgerRow /\ row.ref.obj = "payment_intent" /\ row.ref.id = p
  <2>1. "deal_charge" \in LedgerKind
    BY DEF LedgerKind
  <2> QED
    BY <1>2, <1>7, <2>1, EntryTypes DEF Entry, RefTo
<1>9. Backed(row)' /\ ledger' = Append(ledger, row)
  BY <1>1, <1>5, <1>7, <1>8 DEF Backed
<1> QED
  BY <1>2, <1>4, <1>5, <1>6, <1>8, <1>9, CommitStep DEF TypeOK, StampsStay

\* An event that changes nothing but its mark.
LEMMA IgnoredCommit ==
    ASSUME RInv, NEW w \in Workers, call[w] # Idle,
           UNCHANGED <<deal, rowVars, reviewVars, source_removed, stripeVars>>,
           processed' \subseteq sent, Ends(w)
    PROVE  RInv'
<1>1. UNCHANGED <<deal, disputes, ledger, intent, transfers, refunded, dispute, has_proof,
                  fresh_proof, verified_quantity>>
  BY DEF rowVars, reviewVars, stripeVars, transferVars, refundVars
<1>2. TypeOK /\ RowGood(deal)
  BY DEF RInv, RaceTypeOK
<1>3. RowGood(deal)'
  BY <1>1, <1>2 DEF RowGood, Returned, FullyRefunded, Refunded
<1> QED
  BY <1>1, <1>2, <1>3, CommitStep DEF TypeOK, StampsStay

LEMMA CommitRefreshStep ==
    ASSUME RInv, NEW w \in Workers, CommitRefresh(w)
    PROVE  RInv'
<1>1. call[w] # Idle /\ processed \subseteq sent
  BY Serving DEF CommitRefresh, RInv, RaceTypeOK, TypeOK
<1> QED
  BY <1>1, FundsCommit DEF CommitRefresh, RefreshDeal

\* What the handler of an event knows of it.
LEMMA EventServed ==
    ASSUME RInv, NEW w \in Workers, NEW stage \in {"checked", "half"}, At(w, "event", stage)
    PROVE  LET e == call[w].req.arg
           IN  /\ call[w] # Idle /\ call[w] \in Call /\ CallGood(call[w])
               /\ call[w].read \in DealRow
               /\ call[w].req.op = "event" /\ call[w].stage = stage
               /\ e \in sent /\ (Acknowledge(e) => processed' \subseteq sent)
               /\ e.type = "payment_intent.succeeded" => e.obj \in PIs
               /\ e.type = "charge.refunded" => e.obj \in DOMAIN refunds
               /\ e.type \in DisputeEvents =>
                     e.obj \in DPs /\ dispute[e.obj].status \in DisputeStatus
<1>1. /\ call[w] # Idle /\ call[w] \in Call /\ CallGood(call[w])
      /\ call[w].read \in DealRow
      /\ call[w].req.op = "event" /\ call[w].stage = stage
  BY Serving
<1>2. PICK e \in sent : e = call[w].req.arg
  BY <1>1 DEF CallGood
<1>3. EventsNameObjects /\ processed \subseteq sent
  BY DEF RInv, StripeGood, RaceTypeOK, TypeOK
<1>4. /\ e.type = "payment_intent.succeeded" => e.obj \in PIs
      /\ e.type = "charge.refunded" => e.obj \in DOMAIN refunds
      /\ e.type \in DisputeEvents =>
            e.obj \in DPs /\ dispute[e.obj].status \in DisputeStatus
  BY <1>3 DEF EventsNameObjects
<1>5. Acknowledge(e) => processed' \subseteq sent
  BY <1>3 DEF Acknowledge
<1> QED
  BY <1>1, <1>2, <1>4, <1>5

LEMMA CommitMoneyEventStep ==
    ASSUME RInv, NEW w \in Workers, CommitMoneyEvent(w)
    PROVE  RInv'
<1>1. PICK e \in sent : /\ e = call[w].req.arg /\ Ends(w) /\ call[w] # Idle
                        /\ CallGood(call[w])
                        /\ Acknowledge(e) => processed' \subseteq sent
                        /\ e.type = "payment_intent.succeeded" => e.obj \in PIs
                        /\ e.type = "charge.refunded" => e.obj \in DOMAIN refunds
                        /\ \/ OnPaymentSucceeded(e, call[w].read)
                           \/ OnChargeRefunded(e, call[w].read)
  BY EventServed DEF CommitMoneyEvent
<1>2. UNCHANGED <<disputes, reviewVars, source_removed, stripeVars>> /\ processed' \subseteq sent
  BY <1>1 DEF OnPaymentSucceeded, OnChargeRefunded
<1>3. CASE UNCHANGED <<deal, ledger>>
  BY <1>1, <1>2, <1>3, IgnoredCommit DEF rowVars
<1>4. CASE e.type = "payment_intent.succeeded" /\ Funds(e.obj, call[w].read)
  BY <1>1, <1>2, <1>4, FundsCommit
<1>5. ASSUME NEW p, e.type = "charge.refunded", p = refunds[e.obj].charge,
             call[w].read.charge_id = p, FullyRefunded(p),
             deal' = [deal EXCEPT !.status = "refunded"],
             Log(Entry("deal_refund", -Refunded(p), RefTo("charge", p)))
      PROVE  RInv'
  <2>1. p \in PIs
    <3>1. refunds[e.obj] \in Refund
      BY <1>1, <1>5 DEF RInv, RaceTypeOK, TypeOK, StripeTypeOK
    <3> QED
      BY <1>5, <3>1 DEF Refund
  <2>2. deal.funded_at
    <3>1. p # None
      BY <2>1, NoneAssumption
    <3> QED
      BY <1>1, <1>5, <3>1 DEF CallGood, NotNewer, RowGood
  <2>3. /\ deal \in DealRow /\ RowGood(deal) /\ ledger \in Seq(LedgerRow) /\ TypeOK
        /\ Charge \in Int /\ Refunded(p) = Charge /\ "refunded" \in Status
    BY <1>5, ChargeIsInt DEF RInv, RaceTypeOK, TypeOK, FullyRefunded, Status
  <2>4. /\ deal' \in DealRow /\ SameStamps(deal, deal') /\ deal'.status = "refunded"
    BY <1>5, <2>3, StatusEffect
  <2>5. UNCHANGED <<intent, transfers, refunded, dispute, has_proof, fresh_proof,
                    verified_quantity>>
    BY <1>2 DEF stripeVars, transferVars, refundVars, reviewVars
  <2>6. FullyRefunded(p)'
    BY <1>5, <2>5 DEF FullyRefunded, Refunded
  <2>7. RowGood(deal)'
    BY <2>1, <2>2, <2>3, <2>4, <2>5, <2>6 DEF RowGood, SameStamps, Returned
  <2>8. PICK row : row = Entry("deal_refund", -Refunded(p), RefTo("charge", p))
    OBVIOUS
  <2>9. row \in LedgerRow /\ row.ref.obj = "charge" /\ row.ref.id = p
    <3>1. "deal_refund" \in LedgerKind /\ -Refunded(p) \in Int
      BY <2>3 DEF LedgerKind
    <3> QED
      BY <2>1, <2>3, <2>8, <3>1, EntryTypes DEF Entry, RefTo
  <2>10. Backed(row)' /\ ledger' = Append(ledger, row)
    BY <1>5, <2>1, <2>6, <2>8, <2>9 DEF Backed, Log
  <2> QED
    BY <1>1, <1>2, <2>3, <2>4, <2>5, <2>7, <2>9, <2>10, CommitStep
    DEF TypeOK, StampsStay, SameStamps
<1> QED
  BY <1>1, <1>3, <1>4, <1>5 DEF OnPaymentSucceeded, OnChargeRefunded

-----------------------------------------------------------------------------
\* Disputes, on a row that may be out of date.

\* Opening keeps the row good: it freezes from a status that can be frozen.
LEMMA OpenOver ==
    ASSUME RInv, NEW read \in DealRow, NEW dp \in DPs, dispute[dp].status \in DisputeStatus
    PROVE  LET f == DealFor(dp, read)
               row == RowFor(dp, read)
           IN  /\ f \in DealRow /\ row \in DisputeRow /\ SameStamps(deal, f)
               /\ RowGood(f)
<1>1. deal \in DealRow /\ RowGood(deal) /\ disputes[dp] \in DisputeRow
  BY DEF RInv, RaceTypeOK, TypeOK
<1>2. RowFor(dp, read) \in DisputeRow
  BY <1>1 DEF RowFor, DisputeRow, DealRow
<1>3. CASE disputes[dp].recorded
  BY <1>1, <1>2, <1>3 DEF DealFor, SameStamps
<1>4. CASE ~disputes[dp].recorded
  <2> DEFINE s == dispute[dp].status
             f == OpenDispute(deal, read, s)
  <2>1. DealFor(dp, read) = f
    BY <1>4 DEF DealFor
  <2>2. CASE Freezes(read)
    <3>1. f = [deal EXCEPT !.dispute_status = s, !.status = "disputed",
                           !.status_before_dispute = read.status]
      BY <2>2 DEF OpenDispute
    <3>2. /\ f \in DealRow /\ SameStamps(deal, f) /\ f.status = "disputed"
          /\ f.status_before_dispute = read.status
      BY <1>1, <3>1 DEF DealRow, Status, SameStamps
    <3>3. CanTransition(read.status, "disputed")
      BY <2>2 DEF Freezes
    <3> HIDE DEF f
    <3>4. RowGood(f)
      BY <1>1, <3>2, <3>3 DEF RowGood, SameStamps
    <3> QED
      BY <1>2, <2>1, <3>2, <3>4
  <2>3. CASE ~Freezes(read)
    <3>1. f = [deal EXCEPT !.dispute_status = s]
      BY <2>3 DEF OpenDispute
    <3>2. /\ f \in DealRow /\ SameStamps(deal, f) /\ f.status = deal.status
          /\ f.status_before_dispute = deal.status_before_dispute
      BY <1>1, <3>1, BadgeEffect
    <3> HIDE DEF f
    <3>3. RowGood(f)
      BY <1>1, <3>2 DEF RowGood, SameStamps
    <3> QED
      BY <1>2, <2>1, <3>2, <3>3
  <2> QED
    BY <2>2, <2>3
<1> QED
  BY <1>3, <1>4

\* A commit to the row, the disputes and the ledger of a good row that kept its
\* stamps.
LEMMA DisputeCommit ==
    ASSUME RInv, NEW w \in Workers, call[w] # Idle, NEW dp \in DPs, NEW row \in DisputeRow,
           NEW d \in DealRow, RowGood(d), SameStamps(deal, d), deal' = d,
           disputes' = [disputes EXCEPT ![dp] = row],
           \/ ledger' = ledger
           \/ /\ dispute[dp].status = "lost"
              /\ ledger' = Append(ledger, Entry("dispute_lost", -Charge, RefTo("dispute", dp))),
           UNCHANGED <<reviewVars, source_removed, stripeVars>>, processed' \subseteq sent,
           Ends(w) \/ MovesTo(w, "half", None)
    PROVE  RInv'
<1>1. UNCHANGED <<intent, transfers, refunded, dispute, has_proof, fresh_proof,
                  verified_quantity>>
  BY DEF stripeVars, transferVars, refundVars, reviewVars
<1>2. TypeOK /\ ledger \in Seq(LedgerRow) /\ disputes \in [DPs -> DisputeRow] /\ Charge \in Int
  BY ChargeIsInt DEF RInv, RaceTypeOK, TypeOK
<1>3. RowGood(deal)'
  BY <1>1 DEF RowGood, Returned, FullyRefunded, Refunded
<1>4. StampsStay
  BY DEF StampsStay, SameStamps
<1>5. PICK entry : entry = Entry("dispute_lost", -Charge, RefTo("dispute", dp))
  OBVIOUS
<1>6. entry \in LedgerRow /\ entry.ref.obj = "dispute" /\ entry.ref.id = dp
  <2>1. "dispute_lost" \in LedgerKind /\ -Charge \in Int
    BY <1>2 DEF LedgerKind
  <2> QED
    BY <1>2, <1>5, <2>1, EntryTypes DEF Entry, RefTo
<1>7. \/ ledger' = ledger
      \/ \E r \in LedgerRow : Backed(r)' /\ ledger' = Append(ledger, r)
  <2>1. dispute[dp].status = "lost" => Backed(entry)'
    BY <1>1, <1>6 DEF Backed
  <2> QED
    BY <1>5, <1>6, <2>1
<1>8. disputes' \in [DPs -> DisputeRow]
  BY <1>2
<1> QED
  BY <1>1, <1>2, <1>3, <1>4, <1>7, <1>8, CommitStep DEF TypeOK

\* Closing in one step: the dispute was on record, and the deal that was read is
\* frozen or had been paid.
LEMMA CloseOver ==
    ASSUME RInv, NEW read \in DealRow, RowGood(read), NotNewer(read), NEW dp \in DPs,
           dispute[dp].status \in DisputeStatus,
           disputes[dp].recorded, read.charge_id = dispute[dp].charge,
           disputes[dp].payout_already_released \/ read.status = "disputed"
    PROVE  LET r == CloseDispute(deal, read, disputes[dp], dispute[dp].status)
           IN  r \in DealRow /\ RowGood(r) /\ SameStamps(deal, r)
<1> DEFINE row == disputes[dp]
           outcome == dispute[dp].status
           r == CloseDispute(deal, read, row, outcome)
<1>1. deal \in DealRow /\ RowGood(deal)
  BY DEF RInv, RaceTypeOK, TypeOK
<1>2. CASE row.payout_already_released \/ read.status # "disputed"
  <2>1. r = [deal EXCEPT !.dispute_status = None]
    BY <1>2 DEF CloseDispute
  <2>2. /\ r \in DealRow /\ SameStamps(deal, r) /\ r.status = deal.status
        /\ r.status_before_dispute = deal.status_before_dispute
    BY <1>1, <2>1 DEF DealRow, SameStamps
  <2> HIDE DEF r
  <2>3. RowGood(r)
    BY <1>1, <2>2 DEF RowGood, SameStamps
  <2> QED
    BY <2>2, <2>3 DEF r
<1>3. CASE ~row.payout_already_released /\ read.status = "disputed"
  <2>1. CanTransition(read.status_before_dispute, "disputed")
    BY <1>3 DEF RowGood
  <2>2. /\ read.status_before_dispute \in Status \ {"disputed", "refunded"}
        /\ read.status_before_dispute # None
    BY <2>1, TableSources, NoneAssumption
  <2>3. PICK s : /\ s = IF outcome = "lost" THEN "refunded" ELSE read.status_before_dispute
                 /\ s \in Status /\ s # "disputed"
                 /\ s = "refunded" => outcome = "lost"
    BY <2>2 DEF Status
  <2>4. r = [deal EXCEPT !.dispute_status = None, !.status_before_dispute = None, !.status = s]
    BY <1>3, <2>2, <2>3 DEF CloseDispute
  <2>5. /\ r \in DealRow /\ SameStamps(deal, r) /\ r.status = s
    BY <1>1, <2>3, <2>4 DEF DealRow, SameStamps
  <2>6. deal.funded_at
    <3>1. dispute[dp].charge \in PIs
      <4>1. dispute[dp].status # None
        BY NoneAssumption
      <4> QED
        BY <4>1 DEF RInv, StripeGood
    <3>2. read.charge_id # None
      BY <3>1, NoneAssumption
    <3> QED
      BY <3>2 DEF RowGood, NotNewer
  <2>7. s = "refunded" => Returned
    BY <2>3 DEF Returned
  <2> HIDE DEF r
  <2>8. RowGood(r)
    BY <1>1, <2>3, <2>5, <2>6, <2>7 DEF RowGood, SameStamps
  <2> QED
    BY <2>5, <2>8 DEF r
<1> QED
  BY <1>2, <1>3

\* What the handler of a dispute event on this deal knows.
LEMMA DisputeServed ==
    ASSUME RInv, NEW w \in Workers, NEW stage \in {"checked", "half"}, At(w, "event", stage),
           call[w].req.arg.type \in DisputeEvents
    PROVE  \E e \in sent, dp \in DPs, read \in DealRow :
              /\ e = call[w].req.arg /\ dp = e.obj /\ read = call[w].read
              /\ call[w] # Idle /\ call[w] \in Call /\ call[w].req.op = "event"
              /\ RowGood(read) /\ NotNewer(read)
              /\ dispute[dp].status \in DisputeStatus
              /\ disputes[dp] \in DisputeRow
              /\ Acknowledge(e) => processed' \subseteq sent
<1>1. LET e == call[w].req.arg
      IN  /\ call[w] # Idle /\ call[w] \in Call /\ CallGood(call[w])
          /\ call[w].read \in DealRow /\ call[w].req.op = "event"
          /\ e \in sent /\ (Acknowledge(e) => processed' \subseteq sent)
          /\ e.obj \in DPs /\ dispute[e.obj].status \in DisputeStatus
  BY EventServed
<1>2. \A dp \in DPs : disputes[dp] \in DisputeRow
  BY DEF RInv, RaceTypeOK, TypeOK
<1> QED
  BY <1>1, <1>2 DEF CallGood

LEMMA CommitDisputeEventStep ==
    ASSUME RInv, NEW w \in Workers, CommitDisputeEvent(w)
    PROVE  RInv'
<1>1. /\ At(w, "event", "checked") /\ call[w].req.arg.type \in DisputeEvents
      /\ ~ClosesInParts(w) /\ Ends(w)
      /\ OnDispute(call[w].req.arg, call[w].read)
  BY DEF CommitDisputeEvent, OnDispute
<1>2. PICK e \in sent, dp \in DPs, read \in DealRow :
         /\ e = call[w].req.arg /\ dp = e.obj /\ read = call[w].read
         /\ call[w] # Idle /\ RowGood(read) /\ NotNewer(read)
         /\ dispute[dp].status \in DisputeStatus
         /\ disputes[dp] \in DisputeRow
         /\ Acknowledge(e) => processed' \subseteq sent
  BY <1>1, DisputeServed
<1>3. /\ OnDispute(e, read) /\ processed' \subseteq sent
      /\ UNCHANGED <<reviewVars, source_removed, stripeVars>>
  BY <1>1, <1>2 DEF OnDispute
<1>4. CASE UNCHANGED <<deal, disputes, ledger>>
  BY <1>1, <1>2, <1>3, <1>4, IgnoredCommit DEF rowVars
<1>5. CASE EnsureOpen(dp, read)
  <2>1. /\ deal' = DealFor(dp, read) /\ ledger' = ledger
        /\ disputes' = [disputes EXCEPT ![dp] = RowFor(dp, read)]
    BY <1>5 DEF EnsureOpen
  <2> QED
    BY <1>1, <1>2, <1>3, <2>1, OpenOver, DisputeCommit
<1>6. CASE Update(dp, read)
  <2> DEFINE s == dispute[dp].status
             f == DealFor(dp, read)
             row == [RowFor(dp, read) EXCEPT !.status = s]
             d == [f EXCEPT !.dispute_status = s]
  <2>1. deal' = d /\ ledger' = ledger /\ disputes' = [disputes EXCEPT ![dp] = row]
    BY <1>6 DEF Update
  <2>2. f \in DealRow /\ RowFor(dp, read) \in DisputeRow /\ SameStamps(deal, f) /\ RowGood(f)
    BY <1>2, OpenOver
  <2>3. row \in DisputeRow
    BY <1>2, <2>2 DEF DisputeRow
  <2>4. /\ d \in DealRow /\ SameStamps(f, d) /\ d.status = f.status
        /\ d.status_before_dispute = f.status_before_dispute
    <3> HIDE DEF f
    <3> QED
      BY <1>2, <2>2, BadgeEffect
  <2> HIDE DEF f, d, row
  <2>5. RowGood(d) /\ SameStamps(deal, d)
    BY <2>2, <2>4 DEF RowGood, SameStamps
  <2> QED
    BY <1>1, <1>2, <1>3, <2>1, <2>3, <2>4, <2>5, DisputeCommit
<1>7. CASE /\ Close(dp, read) /\ e.type = "charge.dispute.closed"
           /\ read.charge_id = dispute[dp].charge
  <2> DEFINE outcome == dispute[dp].status
             old == disputes[dp]
             row == [old EXCEPT !.status = outcome, !.outcome = outcome, !.closed_at = TRUE]
             r == CloseDispute(deal, read, old, outcome)
  <2>1. /\ old.recorded /\ ~old.closed_at
        /\ old.payout_already_released \/ read.status = "disputed"
    <3>1. ~old.closed_at
      BY <1>7 DEF Close, Decide
    <3> QED
      BY <1>1, <1>2, <1>7, <3>1 DEF ClosesInParts, Closes
  <2>2. RowFor(dp, read) = old /\ DealFor(dp, read) = deal
    BY <2>1 DEF RowFor, DealFor
  <2>3. /\ disputes' = [disputes EXCEPT ![dp] = row]
        /\ deal' = r
        /\ \/ ledger' = ledger
           \/ /\ outcome = "lost"
              /\ ledger' = Append(ledger, Entry("dispute_lost", -Charge, RefTo("dispute", dp)))
    BY <1>7, <2>1, <2>2 DEF Close, Decide, Thawed, Log
  <2>4. row \in DisputeRow
    BY <1>2 DEF DisputeRow
  <2>5. r \in DealRow /\ RowGood(r) /\ SameStamps(deal, r)
    BY <1>2, <1>7, <2>1, CloseOver
  <2> HIDE DEF row, r
  <2> QED
    BY <1>1, <1>2, <1>3, <2>3, <2>4, <2>5, DisputeCommit
<1> QED
  BY <1>2, <1>3, <1>4, <1>5, <1>6, <1>7 DEF OnDispute

LEMMA CommitMissedOpeningStep ==
    ASSUME RInv, NEW w \in Workers, CommitMissedOpening(w)
    PROVE  RInv'
<1>1. /\ At(w, "event", "checked") /\ call[w].req.arg.type \in DisputeEvents
      /\ EnsureOpen(call[w].req.arg.obj, call[w].read)
      /\ call' = [call EXCEPT ![w].read = deal'] /\ UNCHANGED calls
      /\ UNCHANGED <<processed, reviewVars, source_removed, stripeVars>>
  BY DEF CommitMissedOpening, ClosesInParts, Closes, DisputeEvents
<1>2. PICK e \in sent, dp \in DPs, read \in DealRow :
         /\ e = call[w].req.arg /\ dp = e.obj /\ read = call[w].read
         /\ call[w] # Idle /\ call[w] \in Call /\ call[w].req.op = "event"
         /\ dispute[dp].status \in DisputeStatus
  BY <1>1, DisputeServed
<1>3. /\ deal' = DealFor(dp, read) /\ ledger' = ledger
      /\ disputes' = [disputes EXCEPT ![dp] = RowFor(dp, read)]
  BY <1>1, <1>2 DEF EnsureOpen
<1>4. PICK d \in DealRow : d = deal' /\ SameStamps(deal, d) /\ RowGood(d)
  BY <1>2, <1>3, OpenOver
<1>5. RowFor(dp, read) \in DisputeRow
  BY <1>2, OpenOver
<1>6. UNCHANGED <<intent, transfers, refunded, dispute, has_proof, fresh_proof,
                  verified_quantity>>
  BY <1>1 DEF stripeVars, transferVars, refundVars, reviewVars
<1>7. RowGood(d)' /\ RowGood(deal)'
  BY <1>4, <1>6 DEF RowGood, Returned, FullyRefunded, Refunded
<1>8. TypeOK /\ disputes \in [DPs -> DisputeRow] /\ call \in [Workers -> {Idle} \cup Call]
      /\ CallGood(call[w])
  BY <1>2 DEF RInv, RaceTypeOK, TypeOK, CallsGood
<1>9. PICK c \in Call : /\ c = [call[w] EXCEPT !.read = d]
                        /\ c.read = d /\ c.req = call[w].req /\ c.req.op = "event"
                        /\ c.req.arg = e
  <2> DEFINE c == [call[w] EXCEPT !.read = d]
  <2>1. c \in Call /\ c.read = d /\ c.req = call[w].req
    BY <1>2 DEF Call
  <2> QED
    BY <1>2, <2>1
<1>10. call' = [call EXCEPT ![w] = c]
  BY <1>1, <1>4, <1>8, <1>9
<1>11. Grows => CallGood(c)'
  <2> SUFFICES ASSUME Grows PROVE CallGood(c)'
    OBVIOUS
  <2>1. RowGood(c.read)' /\ NotNewer(c.read)' /\ e \in sent'
    BY <1>4, <1>7, <1>9 DEF NotNewer, Grows
  <2> QED
    BY <1>9, <2>1 DEF CallGood, Pays
<1>12. StampsStay
  BY <1>4 DEF StampsStay, SameStamps
<1>13. disputes' \in [DPs -> DisputeRow]
  BY <1>3, <1>5, <1>8
<1> QED
  BY <1>1, <1>3, <1>4, <1>6, <1>7, <1>8, <1>9, <1>10, <1>11, <1>12, <1>13, CommitWith
  DEF TypeOK

LEMMA CommitDecisionStep ==
    ASSUME RInv, NEW w \in Workers, CommitDecision(w)
    PROVE  RInv'
<1>1. /\ At(w, "event", "checked") /\ call[w].req.arg.type \in DisputeEvents
      /\ disputes[call[w].req.arg.obj].recorded
      /\ Decide(call[w].req.arg.obj, call[w].read)
      /\ MovesTo(w, "half", None)
      /\ UNCHANGED <<deal, processed, reviewVars, source_removed, stripeVars>>
  BY DEF CommitDecision, ClosesInParts, Closes, DisputeEvents
<1>2. PICK e \in sent, dp \in DPs, read \in DealRow :
         /\ e = call[w].req.arg /\ dp = e.obj /\ read = call[w].read
         /\ call[w] # Idle /\ dispute[dp].status \in DisputeStatus
         /\ disputes[dp] \in DisputeRow
  BY <1>1, DisputeServed
<1> DEFINE outcome == dispute[dp].status
           row == [disputes[dp] EXCEPT !.status = outcome, !.outcome = outcome,
                                       !.closed_at = TRUE]
<1>3. /\ disputes' = [disputes EXCEPT ![dp] = row]
      /\ \/ ledger' = ledger
         \/ /\ outcome = "lost"
            /\ ledger' = Append(ledger, Entry("dispute_lost", -Charge, RefTo("dispute", dp)))
  BY <1>1, <1>2 DEF Decide, RowFor, Log
<1>4. row \in DisputeRow
  BY <1>2 DEF DisputeRow
<1>5. /\ deal \in DealRow /\ RowGood(deal) /\ deal' = deal /\ SameStamps(deal, deal)
      /\ processed' \subseteq sent
  BY <1>1 DEF RInv, RaceTypeOK, TypeOK, SameStamps
<1> HIDE DEF row
<1> QED
  BY <1>1, <1>2, <1>3, <1>4, <1>5, DisputeCommit

LEMMA CommitBadgeStep ==
    ASSUME RInv, NEW w \in Workers, CommitBadge(w)
    PROVE  RInv'
<1>1. /\ At(w, "event", "half") /\ deal' = [deal EXCEPT !.dispute_status = None]
      /\ Acknowledge(call[w].req.arg) /\ Ends(w)
      /\ UNCHANGED <<rowVars, reviewVars, source_removed, stripeVars>>
  BY DEF CommitBadge
<1>2. call[w] # Idle /\ processed' \subseteq sent
  BY <1>1, EventServed
<1>3. TypeOK /\ deal \in DealRow
  BY DEF RInv, RaceTypeOK, TypeOK
<1>4. /\ deal' \in DealRow /\ SameStamps(deal, deal') /\ deal'.status = deal.status
      /\ deal'.status_before_dispute = deal.status_before_dispute
  BY <1>1, <1>3 DEF DealRow, SameStamps
<1>5. UNCHANGED <<has_proof, fresh_proof, verified_quantity, disputes, ledger>>
  BY <1>1 DEF reviewVars, rowVars
<1>6. RowGood(deal)' /\ StampsStay
  BY <1>1, <1>4, <1>5, RowKept
<1> QED
  BY <1>1, <1>2, <1>3, <1>4, <1>5, <1>6, CommitStep DEF TypeOK

-----------------------------------------------------------------------------
\* What happens outside the workers.

LEMMA AssembleOutside ==
    ASSUME RInv, Grows, \A p \in PIs : intent[p] = "created" => intent'[p] = "created",
           UNCHANGED <<call, calls>>, TypeOK', RowGood(deal)',
           StripeGood', AllBacked', OneTransferACharge'
    PROVE  RInv'
<1>1. RaceTypeOK'
  BY DEF RInv, RaceTypeOK
<1>2. CallsGood'
  <2> SUFFICES ASSUME NEW v \in Workers, call'[v] # Idle PROVE CallGood(call[v])'
    BY DEF CallsGood
  <2>1. PICK c \in Call : c = call[v] /\ CallGood(c)
    BY DEF RInv, RaceTypeOK, CallsGood
  <2>2. CallGood(c)'
    BY <2>1, CallStays DEF CallGood
  <2> QED
    BY <2>1, <2>2 DEF CallGood
<1>3. OwnIntents'
  BY DEF RInv, OwnIntents, Funder, At
<1> QED
  BY <1>1, <1>2, <1>3 DEF RInv

LEMMA GraceRaceStep ==
    ASSUME RInv, GraceDeadlinePasses, UNCHANGED <<call, calls>>
    PROVE  RInv'
<1>1. /\ deal' = [deal EXCEPT !.proof_grace_deadline = "past"]
      /\ UNCHANGED <<rowVars, processed, reviewVars, source_removed, stripeVars>>
  BY DEF GraceDeadlinePasses
<1>2. UNCHANGED <<disputes, ledger, has_proof, fresh_proof, verified_quantity, intent,
                  transfers, transferred, refunds, refunded, dispute, sent>>
  BY <1>1 DEF rowVars, reviewVars, stripeVars, transferVars, refundVars
<1>3. TypeOK /\ deal \in DealRow
  BY DEF RInv, RaceTypeOK, TypeOK
<1>4. /\ deal' \in DealRow /\ SameStamps(deal, deal') /\ deal'.status = deal.status
      /\ deal'.status_before_dispute = deal.status_before_dispute
  BY <1>1, <1>3 DEF DealRow, SameStamps
<1>5. RowGood(deal)' /\ StampsStay
  BY <1>1, <1>2, <1>4, RowKept
<1>6. /\ StripeTypeOK' /\ StripeGood' /\ OneTransferACharge'
      /\ \A p \in PIs : FullyRefunded(p) <=> FullyRefunded(p)'
  BY <1>1, <1>5, StripeQuiet DEF StampsStay
<1>7. Grows
  BY <1>2, <1>5, <1>6 DEF Grows
<1>8. ledger' \in Seq(LedgerRow) /\ AllBacked'
  BY <1>2, <1>7, LedgerGrows
<1>9. TypeOK'
  BY <1>1, <1>2, <1>3, <1>4, <1>6, <1>8 DEF TypeOK
<1> QED
  BY <1>2, <1>5, <1>6, <1>7, <1>8, <1>9, AssembleOutside

\* What Stripe and the people on its side do, to what the invariant says of them.
LEMMA StripeMoves ==
    ASSUME RInv, StripeStep, UNCHANGED dbVars
    PROVE  /\ Grows /\ StripeGood' /\ OneTransferACharge'
           /\ \A p \in PIs : intent[p] = "created" => intent'[p] = "created"
<1>1. /\ StripeTypeOK /\ EventsNameObjects /\ intent \in [PIs -> IntentStatus]
      /\ dispute \in [DPs -> [charge: PIs \cup {None}, status: DisputeStatus \cup {None}]]
      /\ refunded \in [PIs -> [program: Nat, dashboard: Nat]] /\ Charge \in Int
  BY ChargeIsInt DEF RInv, RaceTypeOK, TypeOK, StripeTypeOK, StripeGood
<1>2. sent \subseteq sent' /\ EventsNameObjects'
  BY <1>1, StripeStepKeeps
<1>3. UNCHANGED <<deal, has_proof>>
  BY DEF dbVars
<1>4. ASSUME NEW p \in PIs, CustomerPays(p)
      PROVE  /\ Grows /\ StripeGood' /\ OneTransferACharge'
             /\ \A q \in PIs : intent[q] = "created" => intent'[q] = "created"
  <2>1. /\ intent[p] = "offered" /\ intent' = [intent EXCEPT ![p] = "succeeded"]
        /\ UNCHANGED <<transfers, transferred, refunds, refunded, dispute>>
    BY <1>4 DEF CustomerPays, transferVars, refundVars
  <2>2. /\ \A q \in PIs : intent[q] = "succeeded" => intent'[q] = "succeeded"
        /\ \A q \in PIs : intent[q] = "created" => intent'[q] = "created"
    BY <1>1, <2>1
  <2>3. Grows
    BY <1>2, <1>3, <2>1, <2>2 DEF Grows, StampsStay, FullyRefunded, Refunded
  <2>4. StripeGood'
    BY <1>2, <1>3, <2>1, <2>2, NoNewMoney
  <2>5. OneTransferACharge'
    BY <2>1 DEF RInv, OneTransferACharge
  <2> QED
    BY <2>2, <2>3, <2>4, <2>5
<1>5. ASSUME NEW p \in PIs, NEW amount \in PartialRefunds \cup {Charge - Refunded(p)},
             DashboardRefund(p, amount)
      PROVE  /\ Grows /\ StripeGood' /\ OneTransferACharge'
             /\ \A q \in PIs : intent[q] = "created" => intent'[q] = "created"
  <2>1. /\ CreateRefund(p, amount, "dashboard")
        /\ UNCHANGED <<intent, transferVars, dispute>>
    BY <1>5 DEF DashboardRefund
  <2>2. amount \in Int
    <3>1. Refunded(p) \in Int
      BY <1>1 DEF Refunded
    <3>2. CASE amount \in PartialRefunds
      BY <3>2, PartialRefundsAssumption
    <3>3. CASE amount = Charge - Refunded(p)
      BY <1>1, <3>1, <3>3
    <3> QED
      BY <3>2, <3>3
  <2> QED
    BY <1>3, <2>1, <2>2, NewRefund DEF StampsStay
<1>6. ASSUME NEW dp \in DPs,
             \/ \E p \in PIs : CardholderDisputes(dp, p)
             \/ DisputeProgresses(dp)
             \/ \E outcome \in {"won", "lost"} : DisputeEnds(dp, outcome)
      PROVE  /\ Grows /\ StripeGood' /\ OneTransferACharge'
             /\ \A q \in PIs : intent[q] = "created" => intent'[q] = "created"
  <2>1. UNCHANGED <<intent, transfers, transferred, refunds, refunded>>
    BY <1>6 DEF CardholderDisputes, DisputeProgresses, DisputeEnds, transferVars, refundVars
  <2>2. /\ dispute[dp].status # "lost"
        /\ \A x \in DPs \ {dp} : dispute'[x] = dispute[x]
        /\ dispute'[dp].charge \in PIs /\ intent[dispute'[dp].charge] = "succeeded"
    <3>1. ASSUME NEW p \in PIs, CardholderDisputes(dp, p)
          PROVE  /\ dispute[dp].status # "lost"
                 /\ \A x \in DPs \ {dp} : dispute'[x] = dispute[x]
                 /\ dispute'[dp].charge \in PIs /\ intent[dispute'[dp].charge] = "succeeded"
      BY <1>1, <3>1, NoneAssumption DEF CardholderDisputes, DisputeStatus
    <3>2. CASE \/ DisputeProgresses(dp)
               \/ \E outcome \in {"won", "lost"} : DisputeEnds(dp, outcome)
      <4>1. dispute[dp].status \in {"needs_response", "under_review"}
        BY <3>2 DEF DisputeProgresses, DisputeEnds
      <4>2. dispute[dp].charge \in PIs /\ intent[dispute[dp].charge] = "succeeded"
        BY <4>1, NoneAssumption DEF RInv, StripeGood, DisputeStatus
      <4>3. PICK s : dispute' = [dispute EXCEPT ![dp].status = s]
        BY <3>2 DEF DisputeProgresses, DisputeEnds
      <4> QED
        BY <1>1, <4>1, <4>2, <4>3
    <3> QED
      BY <1>6, <3>1, <3>2
  <2>3. Grows
    BY <1>2, <1>3, <2>1, <2>2 DEF Grows, StampsStay, FullyRefunded, Refunded
  <2>4. StripeGood'
    <3>1. \A x \in DPs : dispute'[x].status # None =>
             dispute'[x].charge \in PIs /\ intent'[dispute'[x].charge] = "succeeded"
      BY <2>1, <2>2 DEF RInv, StripeGood
    <3>2. \A q \in PIs : Refunded(q)' # 0 => intent'[q] = "succeeded" /\ Refunded(q)' <= Charge
      BY <2>1 DEF RInv, StripeGood, Refunded
    <3>3. /\ \A m \in DOMAIN transfers' : intent'[transfers'[m].charge] = "succeeded"
          /\ transfers' # <<>> => deal'.verified_at
      BY <1>3, <2>1 DEF RInv, StripeGood
    <3> QED
      BY <1>2, <3>1, <3>2, <3>3 DEF StripeGood
  <2>5. OneTransferACharge'
    BY <2>1 DEF RInv, OneTransferACharge
  <2> QED
    BY <2>1, <2>3, <2>4, <2>5
<1> QED
  BY <1>4, <1>5, <1>6 DEF StripeStep

LEMMA StripeRaceStep ==
    ASSUME RInv, StripeActs, UNCHANGED <<call, calls>>
    PROVE  RInv'
<1>1. StripeStep /\ UNCHANGED dbVars
  BY DEF StripeActs
<1>2. /\ Grows /\ StripeGood' /\ OneTransferACharge'
      /\ \A p \in PIs : intent[p] = "created" => intent'[p] = "created"
  BY <1>1, StripeMoves
<1>3. UNCHANGED <<deal, disputes, ledger, processed, has_proof, fresh_proof,
                  verified_quantity, source_removed>>
  BY <1>1 DEF dbVars
<1>4. TypeOK'
  <2>1. TypeOK /\ EventsNameObjects
    BY DEF RInv, RaceTypeOK, StripeGood
  <2>2. StripeTypeOK' /\ sent \subseteq sent'
    BY <1>1, <2>1, StripeStepKeeps DEF TypeOK
  <2> QED
    BY <1>3, <2>1, <2>2 DEF TypeOK
<1>5. RowGood(deal)'
  <2>1. deal \in DealRow /\ RowGood(deal)
    BY DEF RInv, RaceTypeOK, TypeOK
  <2>2. \A d \in DealRow : RowGood(d) => RowGood(d)'
    BY <1>2, RowStays
  <2> QED
    BY <1>3, <2>1, <2>2 DEF RowGood
<1>6. AllBacked'
  BY <1>2, <1>3, LedgerGrows
<1> QED
  BY <1>2, <1>4, <1>5, <1>6, AssembleOutside

LEMMA NoStep ==
    ASSUME RInv, UNCHANGED raceVars
    PROVE  RInv'
<1>1. UNCHANGED <<vars, call, calls>>
  BY DEF raceVars
<1>2. UNCHANGED intent
  BY <1>1 DEF vars, stripeVars
<1> QED
  BY <1>1, <1>2, NothingMoves, AssembleOutside

-----------------------------------------------------------------------------
\* The invariant.

LEMMA RaceBegins == RaceInit => RInv
<1> SUFFICES ASSUME RaceInit PROVE RInv
  OBVIOUS
<1> DEFINE row == [NewDeal(FALSE) EXCEPT !.status = Start,
                                         !.business_approved = (Start = "approved"),
                                         !.owner_approved = (Start = "approved")]
<1>1. InitWith(row) /\ call = [w \in Workers |-> Idle] /\ calls = 0
  BY DEF RaceInit
<1>2. /\ row \in DealRow /\ row.charge_id = None /\ ~row.funded_at /\ ~row.verified_at
      /\ ~row.paid_at /\ row.status \notin {"disputed", "refunded"}
  BY StartAssumption DEF NewDeal, DealRow, Status
<1> HIDE DEF row
<1>3. /\ deal = row /\ ledger = <<>> /\ processed = {} /\ transfers = <<>> /\ refunds = <<>>
      /\ sent = {} /\ intent = [p \in PIs |-> "none"] /\ transferred = [p \in PIs |-> 0]
      /\ refunded = [p \in PIs |-> [program |-> 0, dashboard |-> 0]]
      /\ dispute = [dp \in DPs |-> [charge |-> None, status |-> None]]
      /\ has_proof = FALSE /\ fresh_proof = FALSE /\ verified_quantity = None
      /\ source_removed = FALSE
  BY <1>1 DEF InitWith, StripeInit
<1>4. StripeTypeOK
  <2>1. /\ intent \in [PIs -> IntentStatus] /\ sent \subseteq Event
        /\ transferred \in [PIs -> Nat]
        /\ refunded \in [PIs -> [program: Nat, dashboard: Nat]]
        /\ dispute \in [DPs -> [charge: PIs \cup {None}, status: DisputeStatus \cup {None}]]
    BY <1>3 DEF IntentStatus
  <2>2. transfers \in Seq(Transfer) /\ refunds \in Seq(Refund)
    BY <1>3
  <2> QED
    BY <2>1, <2>2 DEF StripeTypeOK
<1>5. disputes \in [DPs -> DisputeRow]
  BY <1>1 DEF InitWith, DisputeRow
<1>6. TypeOK
  <2>1. has_proof \in BOOLEAN /\ fresh_proof \in BOOLEAN /\ source_removed \in BOOLEAN
    BY <1>3
  <2>2. ledger \in Seq(LedgerRow) /\ processed \subseteq sent
        /\ verified_quantity \in {None} \cup Nat /\ deal \in DealRow
    BY <1>2, <1>3
  <2> QED
    BY <1>4, <1>5, <2>1, <2>2 DEF TypeOK
<1>7. RaceTypeOK
  BY <1>1, <1>6, StartAssumption DEF RaceTypeOK
<1>8. RowGood(deal)
  BY <1>2, <1>3 DEF RowGood
<1>9. CallsGood /\ OwnIntents
  BY <1>1 DEF CallsGood, OwnIntents, Funder, At, Idle
<1>10. AllBacked /\ OneTransferACharge
  BY <1>3 DEF AllBacked, OneTransferACharge
<1>11. StripeGood
  BY <1>3 DEF StripeGood, EventsNameObjects, Refunded
<1> QED
  BY <1>7, <1>8, <1>9, <1>10, <1>11 DEF RInv

LEMMA RaceKeeps == RInv /\ [RaceNext]_raceVars => RInv'
<1> SUFFICES ASSUME RInv, [RaceNext]_raceVars PROVE RInv'
  OBVIOUS
<1>1. ASSUME NEW w \in Workers, Serve(w) PROVE RInv'
  <2>1. CASE \E req \in Requests : Begin(w, req)
    BY <2>1, BeginStep
  <2>2. CASE Dies(w)
    BY <2>2, DiesStep
  <2>3. CASE \E p \in PIs : MakeIntent(w, p)
    BY <2>3, MakeIntentStep
  <2>4. CASE MakeTransfer(w)
    BY <2>4, MakeTransferStep
  <2>5. CASE MakeRefund(w)
    BY <2>5, MakeRefundStep
  <2>6. CASE CommitParty(w)
    BY <2>6, CommitPartyStep
  <2>7. CASE CommitFunding(w)
    BY <2>7, CommitFundingStep
  <2>8. CASE CommitReview(w)
    BY <2>8, CommitReviewStep
  <2>9. CASE CommitRelease(w)
    BY <2>9, CommitReleaseStep
  <2>10. CASE CommitRefund(w)
    BY <2>10, CommitRefundStep
  <2>11. CASE CommitSettlement(w)
    BY <2>11, CommitSettlementStep
  <2>12. CASE SettlementRefund(w)
    BY <2>12, SettlementRefundStep
  <2>13. CASE CommitRefresh(w)
    BY <2>13, CommitRefreshStep
  <2>14. CASE CommitMoneyEvent(w)
    BY <2>14, CommitMoneyEventStep
  <2>15. CASE CommitDisputeEvent(w)
    BY <2>15, CommitDisputeEventStep
  <2>16. CASE CommitMissedOpening(w)
    BY <2>16, CommitMissedOpeningStep
  <2>17. CASE CommitDecision(w)
    BY <2>17, CommitDecisionStep
  <2>18. CASE CommitBadge(w)
    BY <2>18, CommitBadgeStep
  <2> QED
    BY <1>1, <2>1, <2>2, <2>3, <2>4, <2>5, <2>6, <2>7, <2>8, <2>9, <2>10, <2>11, <2>12,
       <2>13, <2>14, <2>15, <2>16, <2>17, <2>18 DEF Serve
<1>2. CASE Outside /\ UNCHANGED <<call, calls>>
  BY <1>2, StripeRaceStep, GraceRaceStep DEF Outside
<1>3. CASE UNCHANGED raceVars
  BY <1>3, NoStep
<1> QED
  BY <1>1, <1>2, <1>3 DEF RaceNext

LEMMA RaceInvariance == RaceSpec => []RInv
BY RaceBegins, RaceKeeps, PTL DEF RaceSpec

-----------------------------------------------------------------------------
\* What it says.

\* Whatever the workers do, every variable stays in its type: no handler writes
\* to the row, to a request or to the ledger what does not belong there, however
\* old the row it read.
THEOREM RaceTypes == RaceSpec => []RaceTypeOK
BY RaceInvariance, PTL DEF RInv

\* The fees leave the owner more than half of what is charged (config.py: 10 and
\* 5 per cent).
ModestFees == 2 * Terms.seller_pct + Terms.buyer_pct < 100

\* A second Transfer of a fixed price does not fit in the charge.
LEMMA NetIsMostOfCharge ==
    ASSUME ~HasPool, ModestFees
    PROVE  Charge > 0 => 2 * FixedNet > Charge
<1> DEFINE price == Terms.listed_price
           s == Terms.seller_pct
           b == Terms.buyer_pct
           sf == (price * s) \div 100
           bf == (price * b) \div 100
<1>1. price \in Nat /\ s \in 0..100 /\ b \in 0..100 /\ Terms.pool_max_budget = 0
  BY TermsAssumption DEF HasPool
<1>2. DealMoney(price, s, b).net_to_owner = price - sf
      /\ DealMoney(price, s, b).charge_amount = price + bf
  BY DEF DealMoney
<1>3. DealMoney(0, s, b).charge_amount = 0
  BY <1>1 DEF DealMoney
<1>4. FixedNet = price - sf /\ Charge = price + bf
  <2>1. sf \in Nat /\ bf \in Nat
    BY <1>1, ShareOfPrice
  <2> HIDE DEF sf, bf
  <2> QED
    BY <1>1, <1>2, <1>3, <2>1, ChargeAssumption DEF FixedNet, TotalChargeFor
<1>5. CASE price = 0
  <2>1. price * b = 0
    BY <1>1, <1>5
  <2>2. bf = 0
    BY <2>1
  <2> HIDE DEF bf, sf
  <2> QED
    BY <1>4, <1>5, <2>2
<1>6. SUFFICES ASSUME price > 0 PROVE 2 * FixedNet > Charge
  BY <1>1, <1>5
<1>7. /\ price * s \in Nat /\ price * b \in Nat
      /\ 2 * (price * s) + price * b = price * (2 * s + b)
      /\ price * (2 * s + b) < price * 100
  <2>1. \A a, k \in Nat : a > 0 /\ k <= 99 => a * k < a * 100
    OBVIOUS
  <2>2. 2 * s + b \in Nat /\ 2 * s + b <= 99 /\ price > 0
    BY <1>1, <1>6 DEF ModestFees
  <2>3. price * s \in Nat /\ price * b \in Nat
    BY <1>1
  <2>4. 2 * (price * s) + price * b = price * (2 * s + b)
    <3>1. price \in Int /\ s \in Int /\ b \in Int
      BY <1>1
    <3> HIDE DEF price, s, b
    <3> QED
      BY <3>1
  <2> QED
    BY <1>1, <2>1, <2>2, <2>3, <2>4
<1> DEFINE ps == price * s
           pb == price * b
<1>8. ps \in Nat /\ pb \in Nat /\ 2 * ps + pb < price * 100
  BY <1>7
<1>9. sf = ps \div 100 /\ bf = pb \div 100
  OBVIOUS
<1> HIDE DEF ps, pb, sf, bf
<1>10. 100 * sf <= ps /\ 100 * bf <= pb /\ sf \in Nat /\ bf \in Nat
  BY <1>8, <1>9
<1> QED
  BY <1>1, <1>4, <1>8, <1>10, <1>6

\* However requests overlap and wherever they die, the owner is paid only for a
\* funded deal that was approved on evidence, a row that says paid names a
\* Transfer, and two releases of a fixed price make one Transfer, unless the
\* business paid two PaymentIntents (review.py release_payout and settle_pool;
\* services.py create_deal_payout).
THEOREM EarnedOnce ==
    ASSUME ModestFees
    PROVE  RaceSpec => []PayoutIsEarnedOnce
<1>1. RInv => PayoutIsEarnedOnce
  <2> SUFFICES ASSUME RInv PROVE PayoutIsEarnedOnce
    OBVIOUS
  <2>1. RowGood(deal) /\ StripeGood /\ OneTransferACharge /\ transfers \in Seq(Transfer)
    BY DEF RInv, RaceTypeOK, TypeOK, StripeTypeOK
  <2>2. \A n \in DOMAIN transfers : transfers[n].charge \in PIs
    BY TransferHasCharge DEF RInv, RaceTypeOK, TypeOK
  <2>3. ~HasPool /\ PaidOneIntent => Len(transfers) <= 1
    <3> SUFFICES ASSUME ~HasPool, PaidOneIntent, ~(Len(transfers) <= 1) PROVE FALSE
      OBVIOUS
    <3>1. 1 \in DOMAIN transfers /\ 2 \in DOMAIN transfers
      BY <2>1
    <3>2. transfers[1].charge = transfers[2].charge
      BY <2>1, <2>2, <3>1 DEF StripeGood, PaidOneIntent
    <3>3. \A m, n \in DOMAIN transfers : transfers[m].charge = transfers[n].charge => m = n
      BY <2>1, NetIsMostOfCharge DEF OneTransferACharge
    <3> QED
      BY <3>1, <3>2, <3>3
  <2> QED
    BY <2>1, <2>3 DEF PayoutIsEarnedOnce, RowGood, StripeGood
<1> QED
  BY <1>1, RaceInvariance, PTL

\* A payment of a deal that says refunded was refunded in full or lost to the
\* bank, even where the handler that wrote so had read an older row, and it is
\* the one that funded the deal unless the business paid two (services.py
\* refund_deal, confirm_refund_from_charge, close_dispute_from_event).
THEOREM RefundsAreReal == RaceSpec => []RefundedMeansReturned
<1>1. RInv => RefundedMeansReturned
  <2> DEFINE GivenUp(p) ==
                \/ FullyRefunded(p)
                \/ \E dp \in DPs : dispute[dp].charge = p /\ dispute[dp].status = "lost"
  <2> SUFFICES ASSUME RInv, deal.status = "refunded"
               PROVE  \E p \in PIs : GivenUp(p) /\ (PaidOneIntent => p = deal.charge_id)
    BY DEF RefundedMeansReturned
  <2> DEFINE c == deal.charge_id
  <2>1. /\ StripeGood /\ Returned /\ c \in PIs /\ intent[c] = "succeeded"
        /\ \A p \in PIs : Refunded(p) \in Nat
        /\ Charge \in Int
    BY ChargeIsInt DEF RInv, RowGood, RaceTypeOK, TypeOK, StripeTypeOK, Refunded
  <2>2. ASSUME PaidOneIntent, NEW p \in PIs, FullyRefunded(p) PROVE FullyRefunded(c)
    <3>1. CASE Charge = 0
      <4>1. Refunded(c) = 0
        BY <2>1, <3>1 DEF StripeGood
      <4> QED
        BY <3>1, <4>1 DEF FullyRefunded
    <3>2. CASE Charge # 0
      <4>1. intent[p] = "succeeded"
        BY <2>2, <3>2, <2>1 DEF StripeGood, FullyRefunded
      <4> QED
        BY <2>1, <2>2, <4>1 DEF PaidOneIntent
    <3> QED
      BY <3>1, <3>2
  <2>3. ASSUME NEW dp \in DPs, dispute[dp].status = "lost"
        PROVE  dispute[dp].charge \in PIs /\ intent[dispute[dp].charge] = "succeeded"
    BY <2>1, <2>3, NoneAssumption DEF StripeGood, DisputeStatus
  <2>4. CASE PaidOneIntent
    <3>1. GivenUp(c)
      BY <2>1, <2>2, <2>3, <2>4 DEF Returned, PaidOneIntent
    <3> QED
      BY <2>1, <3>1
  <2>5. CASE ~PaidOneIntent
    BY <2>1, <2>3, <2>5 DEF Returned
  <2> QED
    BY <2>4, <2>5
<1> QED
  BY <1>1, RaceInvariance, PTL

\* Every row of the ledger stands for something Stripe did: a worker records the
\* object its own call made, or an event of a charge it found refunded, and none
\* of that is ever undone.  A refund's row has the refund's amount, or the
\* charge's if the refund returned the last of it (services.py: each
\* ledger.record follows the call it records).
THEOREM LedgerIsTrue == RaceSpec => []LedgerIsBacked
<1>1. RInv => LedgerIsBacked
  BY DEF RInv, AllBacked, Backed, LedgerIsBacked
<1> QED
  BY <1>1, RaceInvariance, PTL

-----------------------------------------------------------------------------
\* One request at a time, wherever it dies.

OneWorker == \A v, w \in Workers : v = w

MovesStatus == {"decline", "accept", "send_back", "grace", "release", "settle"}

\* The row a worker read is the row, but for what its own first commit wrote.
SoloCall(c) ==
    /\ c.read.payment_intent_id = deal.payment_intent_id
    /\ c.read.charge_id = deal.charge_id
    /\ c.read.funded_at = deal.funded_at
    /\ c.stage # "half" => c.read.status = deal.status
    /\ c.req.op = "fund" => deal.payment_intent_id = None
    /\ c.req.op \in MovesStatus /\ c.stage # "half" => deal.status # "refunded"
    /\ c.req.op = "event" /\ c.stage = "half" => c.req.arg.type = "charge.dispute.closed"

SoloCalls == \A w \in Workers : call[w] # Idle => SoloCall(call[w])

\* Only the PaymentIntent on the row can be paid.
OfferedIsNamed ==
    \A p \in PIs : intent[p] \in {"offered", "succeeded"} => p = deal.payment_intent_id

\* The charge of a funded deal is that PaymentIntent's and has one row.
ChargeRecorded ==
    /\ deal.funded_at =>
         /\ deal.charge_id = deal.payment_intent_id
         /\ \E n \in DOMAIN ledger :
               /\ ledger[n].kind = "deal_charge"
               /\ ledger[n].ref = RefTo("payment_intent", deal.payment_intent_id)
               /\ \A m \in DOMAIN ledger : ledger[m].kind = "deal_charge" => m = n
    /\ ~deal.funded_at => \A m \in DOMAIN ledger : ledger[m].kind # "deal_charge"

\* The program refunds the deal's own charge.
OwnRefunds ==
    \A n \in DOMAIN refunds :
        refunds[n].by = "program" => deal.funded_at /\ refunds[n].charge = deal.charge_id

SoloMoney == OfferedIsNamed /\ ChargeRecorded /\ OwnRefunds /\ OwnRefundSurvivesCrash

SInv == SoloCalls /\ SoloMoney

SameIds ==
    /\ deal'.payment_intent_id = deal.payment_intent_id
    /\ deal'.charge_id = deal.charge_id
    /\ deal'.funded_at = deal.funded_at

NoNewCharge ==
    \/ ledger' = ledger
    \/ \E row : row.kind # "deal_charge" /\ ledger' = Append(ledger, row)

\* No PaymentIntent becomes one that can be paid.
NothingOffered ==
    \A p \in PIs : intent'[p] \in {"offered", "succeeded"}
                       => intent[p] \in {"offered", "succeeded"}

\* A Refund that is new is not the program's, or is one of the deal's charge
\* whose event nobody has seen.
NewRefundsOwned ==
    \A n \in DOMAIN refunds' :
        \/ n \in DOMAIN refunds /\ refunds'[n] = refunds[n]
        \/ refunds'[n].by # "program"
        \/ /\ deal.funded_at /\ refunds'[n].charge = deal.charge_id
           /\ Ev("charge.refunded", n) \notin processed'

\* The charge keeps its one row.
LEMMA ChargeKept ==
    ASSUME RInv, ChargeRecorded, SameIds, NoNewCharge
    PROVE  ChargeRecorded'
<1>1. ledger \in Seq(LedgerRow)
  BY DEF RInv, RaceTypeOK, TypeOK
<1>2. CASE ledger' = ledger
  BY <1>2 DEF ChargeRecorded, SameIds
<1>3. ASSUME NEW row, row.kind # "deal_charge",
             ledger' = Append(ledger, row)
      PROVE  ChargeRecorded'
  <2>1. \A n \in DOMAIN ledger' : \/ n \in DOMAIN ledger /\ ledger'[n] = ledger[n]
                                  \/ ledger'[n] = row
    BY <1>1, <1>3
  <2>2. \A n \in DOMAIN ledger : n \in DOMAIN ledger' /\ ledger'[n] = ledger[n]
    BY <1>1, <1>3
  <2>3. \A m \in DOMAIN ledger' : ledger'[m].kind = "deal_charge" =>
           m \in DOMAIN ledger /\ ledger[m].kind = "deal_charge"
    BY <1>3, <2>1
  <2>4. CASE deal.funded_at
    <3>1. PICK n \in DOMAIN ledger :
             /\ ledger[n].kind = "deal_charge"
             /\ ledger[n].ref = RefTo("payment_intent", deal.payment_intent_id)
             /\ \A m \in DOMAIN ledger : ledger[m].kind = "deal_charge" => m = n
      BY <2>4 DEF ChargeRecorded
    <3>2. n \in DOMAIN ledger' /\ ledger'[n] = ledger[n]
      BY <2>2
    <3>3. \A m \in DOMAIN ledger' : ledger'[m].kind = "deal_charge" => m = n
      BY <2>3, <3>1
    <3> QED
      BY <2>4, <3>1, <3>2, <3>3 DEF ChargeRecorded, SameIds
  <2>5. CASE ~deal.funded_at
    BY <2>3, <2>5 DEF ChargeRecorded, SameIds
  <2> QED
    BY <2>4, <2>5
<1> QED
  BY <1>2, <1>3 DEF NoNewCharge

LEMMA MoneyKept ==
    ASSUME RInv, SoloMoney, SameIds, NoNewCharge, NewRefundsOwned,
           deal.status = "refunded" => deal'.status = "refunded",
           NothingOffered,
           \A e \in processed' : e.type = "charge.refunded" => e \in processed
    PROVE  SoloMoney'
<1>1. OfferedIsNamed'
  BY DEF SoloMoney, OfferedIsNamed, NothingOffered, SameIds
<1>2. ChargeRecorded'
  BY ChargeKept DEF SoloMoney
<1>3. OwnRefunds'
  BY DEF SoloMoney, OwnRefunds, SameIds, NewRefundsOwned
<1>4. OwnRefundSurvivesCrash'
  <2> SUFFICES ASSUME NEW n \in DOMAIN refunds', refunds'[n].by = "program",
                      Ev("charge.refunded", n) \in processed'
               PROVE  deal'.status = "refunded"
    BY DEF OwnRefundSurvivesCrash
  <2>1. n \in DOMAIN refunds /\ refunds'[n] = refunds[n]
    BY DEF NewRefundsOwned
  <2>2. Ev("charge.refunded", n) \in processed
    BY DEF Ev
  <2> QED
    BY <2>1, <2>2 DEF SoloMoney, OwnRefundSurvivesCrash
<1> QED
  BY <1>1, <1>2, <1>3, <1>4 DEF SoloMoney

\* A step that leaves Stripe alone.
LEMMA MoneyLeft ==
    ASSUME RInv, SoloMoney, UNCHANGED stripeVars, SameIds, NoNewCharge,
           deal.status = "refunded" => deal'.status = "refunded",
           \A e \in processed' : e.type = "charge.refunded" => e \in processed
    PROVE  SoloMoney'
<1>1. UNCHANGED <<intent, refunds>>
  BY DEF stripeVars, refundVars
<1>2. NewRefundsOwned
  BY <1>1 DEF NewRefundsOwned
<1> QED
  BY <1>1, <1>2, MoneyKept DEF NothingOffered

LEMMA SoloEnds ==
    ASSUME OneWorker, NEW w \in Workers, RInv, Ends(w)
    PROVE  SoloCalls'
BY DEF OneWorker, Ends, SoloCalls, RInv, RaceTypeOK

\* The one worker goes on with the request it serves, as c.
LEMMA SoloGoesOn ==
    ASSUME OneWorker, NEW w \in Workers, RInv, NEW c, SoloCall(c)',
           call' = [call EXCEPT ![w] = c]
    PROVE  SoloCalls'
<1>1. call'[w] = c
  BY DEF RInv, RaceTypeOK
<1>2. ASSUME NEW v \in Workers PROVE SoloCall(call[v])'
  <2>1. call'[v] = c
    BY <1>1 DEF OneWorker
  <2> QED
    BY <2>1 DEF SoloCall
<1> QED
  BY <1>2 DEF SoloCalls

\* Nothing leaves the refunded state.
LEMMA RefundedIsLast ==
    \A s : ~CanTransition("refunded", s)
BY DEF CanTransition, AllowedTransitions

LEMMA SoloMovesOn ==
    ASSUME OneWorker, NEW w \in Workers, RInv, SoloCalls, call[w] # Idle, SameIds,
           NEW stage \in {"called", "half"}, NEW obj, MovesTo(w, stage, obj),
           stage = "called" => call[w].stage # "half" /\ UNCHANGED deal,
           stage = "half" /\ call[w].req.op = "event" =>
              call[w].req.arg.type = "charge.dispute.closed"
    PROVE  SoloCalls'
<1> DEFINE next == [call[w] EXCEPT !.stage = stage, !.obj = obj]
<1>1. call \in [Workers -> {Idle} \cup Call] /\ call[w] \in Call /\ SoloCall(call[w])
  BY DEF RInv, RaceTypeOK, SoloCalls
<1>2. /\ next.read = call[w].read /\ next.req = call[w].req
      /\ next.stage = stage
  BY <1>1 DEF Call
<1>3. call' = [call EXCEPT ![w] = next]
  BY DEF MovesTo
<1> HIDE DEF next
<1>4. PICK c : c = next
  OBVIOUS
<1>5. SoloCall(c)'
  BY <1>1, <1>2, <1>4 DEF SoloCall, SameIds
<1> QED
  BY <1>3, <1>4, <1>5, SoloGoesOn

\* What the one worker knows while it serves a request.
LEMMA SoloServing ==
    ASSUME RInv, SInv, NEW w \in Workers, NEW op, NEW stage \in {"checked", "called", "half"},
           At(w, op, stage)
    PROVE  /\ call[w] # Idle /\ call[w] \in Call /\ CallGood(call[w]) /\ SoloCall(call[w])
           /\ call[w].read \in DealRow /\ call[w].req \in Requests
           /\ call[w].req.op = op /\ call[w].stage = stage
           /\ stage # "half" => call[w].read.status = deal.status
BY Serving DEF SInv, SoloCalls, SoloCall

LEMMA SoloBegin ==
    ASSUME OneWorker, RInv, SInv, NEW w \in Workers, NEW req \in Requests, Begin(w, req)
    PROVE  SInv'
<1>1. UNCHANGED vars
  BY DEF Begin
<1>2. UNCHANGED <<deal, ledger, processed, intent, refunds, sent>> /\ UNCHANGED stripeVars
  BY <1>1 DEF vars, dbVars, stripeVars, refundVars
<1>3. SoloMoney'
  <2>1. SameIds /\ NoNewCharge
    BY <1>2 DEF SameIds, NoNewCharge
  <2> QED
    BY <1>2, <2>1, MoneyLeft DEF SInv
<1>4. SoloCalls'
  <2> DEFINE c == [stage |-> "checked", req |-> req, read |-> deal, obj |-> None]
  <2>1. Checks(req) /\ call' = [call EXCEPT ![w] = c]
    BY DEF Begin
  <2>2. req.op = "fund" => deal.payment_intent_id = None
    BY <2>1 DEF Checks
  <2>3. \A s : ~CanTransition("refunded", s)
    BY RefundedIsLast
  <2>4. req.op \in MovesStatus => deal.status # "refunded"
    BY <2>1, <2>3 DEF Checks, MovesStatus, DeclineAllowed, VerifyAllowed, ReleaseAllowed,
                      SettleAllowed
  <2>5. SoloCall(c)
    BY <2>2, <2>4 DEF SoloCall
  <2> HIDE DEF c
  <2>6. PICK cc : cc = c
    OBVIOUS
  <2>7. SoloCall(cc)'
    BY <1>2, <2>5, <2>6 DEF SoloCall
  <2> QED
    BY <2>1, <2>6, <2>7, SoloGoesOn
<1> QED
  BY <1>3, <1>4 DEF SInv

LEMMA SoloDies ==
    ASSUME OneWorker, RInv, SInv, NEW w \in Workers, Dies(w)
    PROVE  SInv'
<1>1. UNCHANGED <<deal, ledger, processed>> /\ UNCHANGED stripeVars
  BY DEF Dies, vars, dbVars
<1>2. SameIds /\ NoNewCharge
  BY <1>1 DEF SameIds, NoNewCharge
<1> QED
  BY <1>1, <1>2, MoneyLeft, SoloEnds DEF SInv, Dies

-----------------------------------------------------------------------------
\* Its calls to Stripe.

\* A call leaves the database alone; the next step finds the row as it was.
LEMMA SoloCalled ==
    ASSUME OneWorker, RInv, SInv, NEW w \in Workers, call[w] # Idle,
           call[w].stage = "checked", NEW obj, MovesTo(w, "called", obj), UNCHANGED dbVars,
           NewRefundsOwned,
           NothingOffered
    PROVE  SInv'
<1>1. UNCHANGED <<deal, ledger, processed>>
  BY DEF dbVars
<1>2. SameIds /\ NoNewCharge
  BY <1>1 DEF SameIds, NoNewCharge
<1>3. SoloMoney'
  BY <1>1, <1>2, MoneyKept DEF SInv
<1>4. SoloCalls'
  BY <1>1, <1>2, SoloMovesOn DEF SInv
<1> QED
  BY <1>3, <1>4 DEF SInv

LEMMA SoloIntent ==
    ASSUME OneWorker, RInv, SInv, NEW w \in Workers, NEW p \in PIs, MakeIntent(w, p)
    PROVE  SInv'
<1>1. At(w, "fund", "checked") /\ CreateIntent(p, "created") /\ MovesTo(w, "called", p)
      /\ UNCHANGED dbVars /\ UNCHANGED refunds
  BY DEF MakeIntent, refundVars
<1>2. call[w] # Idle /\ call[w].stage = "checked"
  BY <1>1, SoloServing
<1>3. NewRefundsOwned
  BY <1>1 DEF NewRefundsOwned
<1>4. NothingOffered
  BY <1>1 DEF NothingOffered, CreateIntent, RInv, RaceTypeOK, TypeOK, StripeTypeOK
<1> QED
  BY <1>1, <1>2, <1>3, <1>4, SoloCalled

LEMMA SoloTransfer ==
    ASSUME OneWorker, RInv, SInv, NEW w \in Workers, MakeTransfer(w)
    PROVE  SInv'
<1>1. /\ At(w, "release", "checked") \/ At(w, "settle", "checked")
      /\ MovesTo(w, "called", Len(transfers'))
      /\ UNCHANGED dbVars /\ UNCHANGED <<refunds, intent>>
  BY DEF MakeTransfer, refundVars
<1>2. call[w] # Idle /\ call[w].stage = "checked"
  BY <1>1, SoloServing
<1>3. NewRefundsOwned
  BY <1>1 DEF NewRefundsOwned
<1> QED
  BY <1>1, <1>2, <1>3, SoloCalled DEF NothingOffered

\* A Refund the program makes is of the deal's charge, and its event is new.
LEMMA SoloRefundMade ==
    ASSUME RInv, SInv, NEW c \in Call, CallGood(c), SoloCall(c), c.read.funded_at,
           NEW amount, CreateRefund(c.read.payment_intent_id, amount, "program"),
           UNCHANGED processed
    PROVE  NewRefundsOwned
<1> DEFINE p == c.read.payment_intent_id
<1>1. deal.funded_at /\ p = deal.charge_id
  BY DEF SoloCall, SInv, SoloMoney, ChargeRecorded
<1>2. refunds \in Seq(Refund) /\ processed \subseteq sent /\ EventsNameObjects
  BY DEF RInv, RaceTypeOK, TypeOK, StripeTypeOK, StripeGood
<1>3. refunds' = Append(refunds, [charge |-> p, amount |-> amount, by |-> "program"])
  BY DEF CreateRefund
<1>4. \A n \in DOMAIN refunds' :
         \/ n \in DOMAIN refunds /\ refunds'[n] = refunds[n]
         \/ n = Len(refunds) + 1 /\ refunds'[n].charge = p
  BY <1>2, <1>3
<1>5. Len(refunds) + 1 \notin DOMAIN refunds
  BY <1>2
<1>6. Ev("charge.refunded", Len(refunds) + 1) \notin processed'
  BY <1>2, <1>5 DEF EventsNameObjects, Ev
<1> QED
  BY <1>1, <1>4, <1>6 DEF NewRefundsOwned

LEMMA SoloRefund ==
    ASSUME OneWorker, RInv, SInv, NEW w \in Workers, MakeRefund(w)
    PROVE  SInv'
<1>1. /\ At(w, "refund", "checked")
      /\ MovesTo(w, "called", Len(refunds'))
      /\ UNCHANGED dbVars /\ UNCHANGED <<processed, intent>>
  BY DEF MakeRefund, dbVars
<1>2. PICK amount : CreateRefund(call[w].read.payment_intent_id, amount, "program")
  BY DEF MakeRefund
<1>3. /\ call[w] # Idle /\ call[w].stage = "checked"
      /\ call[w] \in Call /\ CallGood(call[w]) /\ SoloCall(call[w])
      /\ call[w].read.funded_at
  BY <1>1, SoloServing DEF CallGood
<1>4. NewRefundsOwned
  BY <1>1, <1>2, <1>3, SoloRefundMade
<1> QED
  BY <1>1, <1>3, <1>4, SoloCalled DEF NothingOffered

LEMMA SoloSettlementRefund ==
    ASSUME OneWorker, RInv, SInv, NEW w \in Workers, SettlementRefund(w)
    PROVE  SInv'
<1> DEFINE unused == Settlement(w).refund_to_business
<1>1. /\ At(w, "settle", "half") /\ Ends(w)
      /\ CreateRefund(call[w].read.payment_intent_id, unused, "program")
      /\ UNCHANGED <<processed, intent>>
  BY DEF SettlementRefund
<1>2. \/ /\ deal' = MarkPoolRefunded(deal, Len(refunds'), unused)
         /\ ledger' = Append(ledger, RefundEntry(unused, Len(refunds')))
      \/ UNCHANGED <<deal, ledger>>
  BY DEF SettlementRefund, Log
<1>3. /\ call[w] \in Call /\ CallGood(call[w]) /\ SoloCall(call[w])
      /\ call[w].read.funded_at
  BY <1>1, SoloServing DEF CallGood, Pays
<1>4. NewRefundsOwned
  BY <1>1, <1>3, SoloRefundMade
<1>5. SameIds /\ deal'.status = deal.status
  <2>1. deal \in DealRow
    BY DEF RInv, RaceTypeOK, TypeOK
  <2> HIDE DEF unused
  <2> QED
    BY <1>2, <2>1 DEF SameIds, MarkPoolRefunded, DealRow
<1>6. NoNewCharge
  BY <1>2 DEF NoNewCharge, RefundEntry, Entry
<1>7. SoloMoney'
  BY <1>1, <1>4, <1>5, <1>6, MoneyKept DEF SInv, NothingOffered
<1> QED
  BY <1>1, <1>7, SoloEnds DEF SInv

-----------------------------------------------------------------------------
\* Its commits.

LEMMA SoloCommit ==
    ASSUME OneWorker, RInv, SInv, NEW w \in Workers, Ends(w), UNCHANGED stripeVars,
           SameIds, NoNewCharge, deal.status = "refunded" => deal'.status = "refunded",
           \A e \in processed' : e.type = "charge.refunded" => e \in processed
    PROVE  SInv'
BY MoneyLeft, SoloEnds DEF SInv

LEMMA SoloParty ==
    ASSUME OneWorker, RInv, SInv, NEW w \in Workers, CommitParty(w)
    PROVE  SInv'
<1> DEFINE c == call[w]
<1>1. deal \in DealRow
  BY DEF RInv, RaceTypeOK, TypeOK
<1>2. /\ Ends(w) /\ UNCHANGED stripeVars /\ UNCHANGED <<ledger, processed>>
  BY DEF CommitParty, rowVars
<1>3. SameIds /\ (deal.status = "refunded" => deal'.status = "refunded")
  <2>1. CASE At(w, "approve", "checked") /\ deal' = Approve(deal, c.read, c.req.arg)
    <3>1. c.read.status = deal.status
      BY <2>1, SoloServing
    <3> QED
      BY <1>1, <2>1, <3>1, RefundedIsLast DEF Approve, SameIds, DealRow
  <2>2. CASE At(w, "decline", "checked") /\ deal' = Decline(deal)
    <3>1. deal.status # "refunded"
      BY <2>2, SoloServing DEF SoloCall, MovesStatus
    <3> QED
      BY <1>1, <2>2, <3>1 DEF Decline, SameIds, DealRow
  <2>3. CASE At(w, "proof", "checked") /\ deal' = SubmitProof(deal, c.read)
    <3>1. c.read.status = deal.status
      BY <2>3, SoloServing
    <3> QED
      BY <1>1, <2>3, <3>1, RefundedIsLast DEF SubmitProof, SameIds, DealRow
  <2> QED
    BY <2>1, <2>2, <2>3 DEF CommitParty
<1>4. NoNewCharge
  BY <1>2 DEF NoNewCharge
<1> QED
  BY <1>2, <1>3, <1>4, SoloCommit

\* The row names the PaymentIntent as it is offered; there was none before.
LEMMA SoloFunding ==
    ASSUME OneWorker, RInv, SInv, NEW w \in Workers, CommitFunding(w)
    PROVE  SInv'
<1> DEFINE p == call[w].obj
<1>1. /\ At(w, "fund", "called") /\ Ends(w) /\ deal' = AwaitFunding(deal, p)
      /\ CanTransition(call[w].read.status, "awaiting_funding")
      /\ intent' = [intent EXCEPT ![p] = "offered"]
      /\ UNCHANGED <<ledger, processed, refunds>>
  BY DEF CommitFunding, rowVars, refundVars
<1>2. /\ deal.payment_intent_id = None /\ p \in PIs
      /\ call[w].read.status = deal.status
  BY <1>1, SoloServing DEF SoloCall, CallGood
<1>3. deal \in DealRow /\ RowGood(deal) /\ intent \in [PIs -> IntentStatus]
  BY DEF RInv, RaceTypeOK, TypeOK, StripeTypeOK
<1>4. ~deal.funded_at /\ deal.status # "refunded"
  BY <1>1, <1>2, <1>3, NoneAssumption, RefundedIsLast DEF RowGood
<1>5. /\ deal'.payment_intent_id = p /\ deal'.funded_at = deal.funded_at
  BY <1>1, <1>3 DEF AwaitFunding, DealRow
<1>6. OfferedIsNamed'
  <2>1. \A q \in PIs : intent[q] \notin {"offered", "succeeded"}
    BY <1>2, NoneAssumption DEF SInv, SoloMoney, OfferedIsNamed
  <2>2. \A q \in PIs : q # p => intent'[q] = intent[q]
    BY <1>1, <1>3
  <2> QED
    BY <1>5, <2>1, <2>2 DEF OfferedIsNamed
<1>7. ChargeRecorded'
  BY <1>1, <1>4, <1>5 DEF SInv, SoloMoney, ChargeRecorded
<1>8. \A n \in DOMAIN refunds : refunds[n].by # "program"
  BY <1>4 DEF SInv, SoloMoney, OwnRefunds
<1>9. OwnRefunds' /\ OwnRefundSurvivesCrash'
  BY <1>1, <1>8 DEF OwnRefunds, OwnRefundSurvivesCrash
<1> QED
  BY <1>1, <1>6, <1>7, <1>9, SoloEnds DEF SInv, SoloMoney

LEMMA SoloReview ==
    ASSUME OneWorker, RInv, SInv, NEW w \in Workers, CommitReview(w)
    PROVE  SInv'
<1> DEFINE c == call[w]
<1>1. deal \in DealRow /\ UNCHANGED stripeVars /\ UNCHANGED <<ledger, processed>>
  BY DEF RInv, RaceTypeOK, TypeOK, CommitReview, rowVars
<1>2. NoNewCharge
  BY <1>1 DEF NoNewCharge
<1>3. CASE At(w, "accept", "checked") /\ deal' = MarkVerified(deal) /\ Ends(w)
  <2>1. deal.status # "refunded"
    BY <1>3, SoloServing DEF SoloCall, MovesStatus
  <2>2. SameIds
    BY <1>1, <1>3 DEF MarkVerified, SameIds, DealRow
  <2> QED
    BY <1>1, <1>2, <1>3, <2>1, <2>2, SoloCommit
<1>4. CASE At(w, "send_back", "checked") /\ deal' = SendBack(deal, c.req.arg, FALSE)
           /\ Ends(w)
  <2>1. deal.status # "refunded"
    BY <1>4, SoloServing DEF SoloCall, MovesStatus
  <2>2. SameIds
    BY <1>1, <1>4 DEF SendBack, SameIds, DealRow
  <2> QED
    BY <1>1, <1>2, <1>4, <2>1, <2>2, SoloCommit
<1>5. CASE At(w, "grace", "checked") /\ deal' = SendBack(deal, c.req.arg, FALSE)
           /\ MovesTo(w, "half", None)
  <2>1. deal.status # "refunded" /\ c # Idle /\ c.req.op = "grace"
    BY <1>5, SoloServing DEF SoloCall, MovesStatus
  <2>2. SameIds
    BY <1>1, <1>5 DEF SendBack, SameIds, DealRow
  <2>3. SoloMoney'
    BY <1>1, <1>2, <2>1, <2>2, MoneyLeft DEF SInv
  <2>4. SoloCalls'
    BY <1>5, <2>1, <2>2, SoloMovesOn DEF SInv
  <2> QED
    BY <2>3, <2>4 DEF SInv
<1>6. CASE At(w, "grace", "half") /\ deal' = [deal EXCEPT !.proof_grace_deadline = "open"]
           /\ Ends(w)
  <2>1. SameIds /\ deal'.status = deal.status
    BY <1>1, <1>6 DEF SameIds, DealRow
  <2> QED
    BY <1>1, <1>2, <1>6, <2>1, SoloCommit
<1> QED
  BY <1>3, <1>4, <1>5, <1>6 DEF CommitReview

LEMMA SoloRelease ==
    ASSUME OneWorker, RInv, SInv, NEW w \in Workers, CommitRelease(w)
    PROVE  SInv'
<1> DEFINE n == call[w].obj
<1>1. /\ At(w, "release", "called") /\ Ends(w) /\ deal' = MarkPaid(deal, n)
      /\ ledger' = Append(ledger, PayoutEntry(FixedNet, n))
      /\ UNCHANGED stripeVars /\ UNCHANGED processed
  BY DEF CommitRelease, Log
<1>2. deal.status # "refunded"
  BY <1>1, SoloServing DEF SoloCall, MovesStatus
<1>3. deal \in DealRow
  BY DEF RInv, RaceTypeOK, TypeOK
<1>4. SameIds
  BY <1>1, <1>3 DEF MarkPaid, SameIds, DealRow
<1>5. NoNewCharge
  BY <1>1 DEF NoNewCharge, PayoutEntry, Entry
<1> QED
  BY <1>1, <1>2, <1>4, <1>5, SoloCommit

LEMMA SoloRefundCommit ==
    ASSUME OneWorker, RInv, SInv, NEW w \in Workers, CommitRefund(w)
    PROVE  SInv'
<1> DEFINE n == call[w].obj
<1>1. /\ Ends(w) /\ deal' = MarkRefunded(deal, n)
      /\ ledger' = Append(ledger, RefundEntry(Charge, n))
      /\ UNCHANGED stripeVars /\ UNCHANGED processed
  BY DEF CommitRefund, Log
<1>2. deal \in DealRow
  BY DEF RInv, RaceTypeOK, TypeOK
<1>3. SameIds /\ deal'.status = "refunded"
  BY <1>1, <1>2 DEF MarkRefunded, SameIds, DealRow
<1>4. NoNewCharge
  BY <1>1 DEF NoNewCharge, RefundEntry, Entry
<1> QED
  BY <1>1, <1>3, <1>4, SoloCommit

LEMMA SoloSettlement ==
    ASSUME OneWorker, RInv, SInv, NEW w \in Workers, CommitSettlement(w)
    PROVE  SInv'
<1> DEFINE n == call[w].obj
           paid == MarkSettled(deal, n, Settlement(w).pool_gross)
           net == FixedNet + Settlement(w).pool_net_to_owner
<1>1. /\ At(w, "settle", "called")
      /\ \/ deal' = paid /\ MovesTo(w, "half", None)
         \/ deal' = [paid EXCEPT !.pool_refunded_amount = 0] /\ Ends(w)
      /\ ledger' = Append(ledger, PayoutEntry(net, n))
      /\ UNCHANGED stripeVars /\ UNCHANGED processed
  BY DEF CommitSettlement, Log
<1>2. deal.status # "refunded" /\ call[w] # Idle /\ call[w].req.op = "settle"
  BY <1>1, SoloServing DEF SoloCall, MovesStatus
<1>3. deal \in DealRow
  BY DEF RInv, RaceTypeOK, TypeOK
<1>4. SameIds
  BY <1>1, <1>3 DEF MarkSettled, MarkPaid, SameIds, DealRow
<1>5. NoNewCharge
  BY <1>1 DEF NoNewCharge, PayoutEntry, Entry
<1>6. SoloMoney'
  BY <1>1, <1>2, <1>4, <1>5, MoneyLeft DEF SInv
<1>7. SoloCalls'
  BY <1>1, <1>2, <1>4, SoloEnds, SoloMovesOn DEF SInv
<1> QED
  BY <1>6, <1>7 DEF SInv

\* The deal is funded once: the row that was read was not, so the row is not.
LEMMA SoloFunds ==
    ASSUME OneWorker, RInv, SInv, NEW w \in Workers, call[w] # Idle, call[w].stage # "half",
           NEW p \in PIs, Funds(p, call[w].read), UNCHANGED stripeVars,
           \A e \in processed' : e.type = "charge.refunded" => e \in processed, Ends(w)
    PROVE  SInv'
<1>1. /\ call[w].read.payment_intent_id = p /\ ~call[w].read.funded_at
      /\ deal' = MarkFunded(deal, p)
      /\ ledger' = Append(ledger, Entry("deal_charge", Charge, RefTo("payment_intent", p)))
  BY DEF Funds, Log
<1>2. deal.payment_intent_id = p /\ ~deal.funded_at
  BY <1>1 DEF SInv, SoloCalls, SoloCall
<1>3. deal \in DealRow /\ ledger \in Seq(LedgerRow) /\ UNCHANGED <<intent, refunds>>
  BY DEF RInv, RaceTypeOK, TypeOK, stripeVars, refundVars
<1>4. deal'.funded_at /\ deal'.charge_id = p /\ deal'.payment_intent_id = p
  BY <1>1, <1>2, <1>3 DEF MarkFunded, DealRow
<1>5. OfferedIsNamed'
  BY <1>2, <1>3, <1>4 DEF SInv, SoloMoney, OfferedIsNamed
<1>6. ChargeRecorded'
  <2> DEFINE n == Len(ledger) + 1
  <2>1. \A m \in DOMAIN ledger : ledger[m].kind # "deal_charge"
    BY <1>2 DEF SInv, SoloMoney, ChargeRecorded
  <2>2. PICK row : row = Entry("deal_charge", Charge, RefTo("payment_intent", p))
    OBVIOUS
  <2>3. /\ n \in DOMAIN ledger' /\ ledger'[n] = row
        /\ \A m \in DOMAIN ledger' : m = n \/ (m \in DOMAIN ledger /\ ledger'[m] = ledger[m])
    BY <1>1, <1>3, <2>2
  <2>4. row.kind = "deal_charge" /\ row.ref = RefTo("payment_intent", p)
    BY <2>2 DEF Entry
  <2> HIDE DEF n
  <2>5. \A m \in DOMAIN ledger' : ledger'[m].kind = "deal_charge" => m = n
    BY <2>1, <2>3
  <2> QED
    BY <1>4, <2>3, <2>4, <2>5 DEF ChargeRecorded
<1>7. \A n \in DOMAIN refunds : refunds[n].by # "program"
  BY <1>2 DEF SInv, SoloMoney, OwnRefunds
<1>8. OwnRefunds' /\ OwnRefundSurvivesCrash'
  BY <1>3, <1>7 DEF OwnRefunds, OwnRefundSurvivesCrash
<1> QED
  BY <1>5, <1>6, <1>8, SoloEnds DEF SInv, SoloMoney

LEMMA SoloRefresh ==
    ASSUME OneWorker, RInv, SInv, NEW w \in Workers, CommitRefresh(w)
    PROVE  SInv'
<1>1. call[w] # Idle /\ call[w].stage # "half"
  BY SoloServing DEF CommitRefresh
<1>2. UNCHANGED stripeVars /\ UNCHANGED processed
  BY DEF CommitRefresh, RefreshDeal
<1> QED
  BY <1>1, <1>2, SoloFunds DEF CommitRefresh, RefreshDeal

\* The event of the program's own refund is marked only when the row says so.
LEMMA SoloMoneyEvent ==
    ASSUME OneWorker, RInv, SInv, NEW w \in Workers, CommitMoneyEvent(w)
    PROVE  SInv'
<1>1. PICK e \in sent : /\ e = call[w].req.arg /\ Ends(w) /\ call[w] # Idle
                        /\ call[w].stage = "checked"
                        /\ e.type = "payment_intent.succeeded" => e.obj \in PIs
                        /\ \/ OnPaymentSucceeded(e, call[w].read)
                           \/ OnChargeRefunded(e, call[w].read)
  BY EventServed DEF CommitMoneyEvent
<1>2. SoloCall(call[w])
  BY <1>1 DEF SInv, SoloCalls
<1>3. UNCHANGED stripeVars /\ processed' \subseteq processed \cup {e}
  BY <1>1 DEF OnPaymentSucceeded, OnChargeRefunded, Acknowledge
<1>4. CASE e.type = "payment_intent.succeeded"
  <2>1. \A ev \in processed' : ev.type = "charge.refunded" => ev \in processed
    BY <1>3, <1>4
  <2>2. CASE Funds(e.obj, call[w].read)
    BY <1>1, <1>3, <1>4, <2>1, <2>2, SoloFunds
  <2>3. CASE UNCHANGED <<deal, ledger>>
    <3>1. SameIds /\ NoNewCharge
      BY <2>3 DEF SameIds, NoNewCharge
    <3> QED
      BY <1>1, <1>3, <2>1, <2>3, <3>1, SoloCommit
  <2> QED
    BY <1>1, <1>4, <2>2, <2>3 DEF OnPaymentSucceeded, OnChargeRefunded
<1>5. CASE e.type = "charge.refunded"
  <2> DEFINE p == refunds[e.obj].charge
  <2>1. \/ /\ call[w].read.charge_id = p => call[w].read.status = "refunded"
           /\ UNCHANGED <<deal, ledger>>
        \/ /\ call[w].read.charge_id = p
           /\ deal' = [deal EXCEPT !.status = "refunded"]
           /\ ledger' = Append(ledger, Entry("deal_refund", -Refunded(p), RefTo("charge", p)))
    BY <1>1, <1>5 DEF OnPaymentSucceeded, OnChargeRefunded, Log
  <2>2. /\ deal \in DealRow /\ UNCHANGED <<intent, refunds>>
    BY <1>3 DEF RInv, RaceTypeOK, TypeOK, stripeVars, refundVars
  <2>3. SameIds /\ (deal.status = "refunded" => deal'.status = "refunded")
    BY <2>1, <2>2 DEF SameIds, DealRow
  <2>4. NoNewCharge
    BY <2>1 DEF NoNewCharge, Entry
  <2>5. (OfferedIsNamed /\ ChargeRecorded /\ OwnRefunds)'
    <3>1. OfferedIsNamed' /\ OwnRefunds'
      BY <2>2, <2>3 DEF SInv, SoloMoney, OfferedIsNamed, OwnRefunds, SameIds
    <3>2. ChargeRecorded'
      BY <2>3, <2>4, ChargeKept DEF SInv, SoloMoney
    <3> QED
      BY <3>1, <3>2
  <2>6. OwnRefundSurvivesCrash'
    <3> SUFFICES ASSUME NEW n \in DOMAIN refunds, refunds[n].by = "program",
                        Ev("charge.refunded", n) \in processed'
                 PROVE  deal'.status = "refunded"
      BY <2>2 DEF OwnRefundSurvivesCrash
    <3>1. CASE Ev("charge.refunded", n) \in processed
      BY <2>3, <3>1 DEF SInv, SoloMoney, OwnRefundSurvivesCrash
    <3>2. CASE e = Ev("charge.refunded", n)
      <4>1. e.obj = n
        BY <3>2 DEF Ev
      <4>2. p = deal.charge_id
        BY <4>1 DEF SInv, SoloMoney, OwnRefunds
      <4>3. call[w].read.charge_id = p /\ call[w].read.status = deal.status
        BY <1>1, <1>2, <4>2 DEF SoloCall
      <4> QED
        BY <2>1, <2>2, <4>3 DEF DealRow
    <3> QED
      BY <1>3, <3>1, <3>2
  <2> QED
    BY <1>1, <2>5, <2>6, SoloEnds DEF SInv, SoloMoney
<1> QED
  BY <1>1, <1>4, <1>5 DEF OnPaymentSucceeded, OnChargeRefunded

-----------------------------------------------------------------------------
\* Its dispute events.

\* Opening a dispute on the row that was read freezes no refunded deal.
LEMMA SoloOpen ==
    ASSUME RInv, NEW read, read.status = deal.status, NEW dp \in DPs
    PROVE  LET f == DealFor(dp, read)
           IN  /\ f.payment_intent_id = deal.payment_intent_id
               /\ f.charge_id = deal.charge_id /\ f.funded_at = deal.funded_at
               /\ deal.status = "refunded" => f.status = "refunded"
<1>1. deal \in DealRow
  BY DEF RInv, RaceTypeOK, TypeOK
<1>2. deal.status = "refunded" => ~Freezes(read)
  BY RefundedIsLast DEF Freezes
<1> QED
  BY <1>1, <1>2 DEF DealFor, OpenDispute, DealRow

LEMMA SoloDisputeEvent ==
    ASSUME OneWorker, RInv, SInv, NEW w \in Workers, CommitDisputeEvent(w)
    PROVE  SInv'
<1> DEFINE e == call[w].req.arg
           dp == e.obj
           read == call[w].read
<1>1. /\ At(w, "event", "checked") /\ ~ClosesInParts(w) /\ Ends(w)
      /\ e.type \in DisputeEvents /\ OnDispute(e, read)
      /\ UNCHANGED stripeVars /\ processed' \subseteq processed \cup {e}
  BY DEF CommitDisputeEvent, OnDispute, Acknowledge
<1>2. deal \in DealRow /\ read.status = deal.status /\ dp \in DPs
      /\ dispute[dp].status \in DisputeStatus
  BY <1>1, SoloServing, EventServed DEF RInv, RaceTypeOK, TypeOK
<1>3. \A ev \in processed' : ev.type = "charge.refunded" => ev \in processed
  BY <1>1 DEF DisputeEvents
<1>4. SameIds /\ NoNewCharge /\ (deal.status = "refunded" => deal'.status = "refunded")
  <2>1. CASE UNCHANGED <<deal, disputes, ledger>>
    BY <2>1 DEF SameIds, NoNewCharge
  <2>2. CASE EnsureOpen(dp, read)
    <3>1. deal' = DealFor(dp, read) /\ ledger' = ledger
      BY <2>2 DEF EnsureOpen
    <3> QED
      BY <1>2, <3>1, SoloOpen DEF SameIds, NoNewCharge
  <2>3. CASE Update(dp, read)
    <3>1. deal' = [DealFor(dp, read) EXCEPT !.dispute_status = dispute[dp].status]
          /\ ledger' = ledger
      BY <2>3 DEF Update
    <3>2. DealFor(dp, read) \in DealRow
      BY <1>1, <1>2, SoloServing, OpenOver
    <3>3. PICK f \in DealRow : f = DealFor(dp, read)
      BY <3>2
    <3>4. /\ f.payment_intent_id = deal.payment_intent_id
          /\ f.charge_id = deal.charge_id /\ f.funded_at = deal.funded_at
          /\ deal.status = "refunded" => f.status = "refunded"
      BY <1>2, <3>3, SoloOpen
    <3>5. deal' = [f EXCEPT !.dispute_status = dispute[dp].status]
      BY <3>1, <3>3
    <3> QED
      BY <3>1, <3>4, <3>5 DEF SameIds, NoNewCharge, DealRow
  <2>4. CASE e.type = "charge.dispute.closed" /\ read.charge_id = dispute[dp].charge
             /\ Close(dp, read)
    <3>1. disputes[dp].recorded /\ deal' = Thawed(dp, read) /\ Decide(dp, read)
      BY <1>1, <2>4 DEF Close, Decide, ClosesInParts, Closes
    <3>2. deal' = CloseDispute(deal, read, disputes[dp], dispute[dp].status)
      BY <3>1 DEF Thawed, DealFor, RowFor
    <3>3. SameIds /\ (deal.status = "refunded" => deal'.status = "refunded")
      BY <1>2, <3>2 DEF CloseDispute, SameIds, DealRow
    <3>4. NoNewCharge
      BY <3>1 DEF Decide, NoNewCharge, Log, Entry
    <3> QED
      BY <3>3, <3>4
  <2> QED
    BY <1>1, <2>1, <2>2, <2>3, <2>4 DEF OnDispute
<1> QED
  BY <1>1, <1>3, <1>4, SoloCommit

LEMMA SoloMissedOpening ==
    ASSUME OneWorker, RInv, SInv, NEW w \in Workers, CommitMissedOpening(w)
    PROVE  SInv'
<1> DEFINE dp == call[w].req.arg.obj
           read == call[w].read
           c == call[w]
<1>1. /\ At(w, "event", "checked") /\ Closes(w) /\ EnsureOpen(dp, read)
      /\ call' = [call EXCEPT ![w].read = deal']
      /\ UNCHANGED stripeVars /\ UNCHANGED processed
  BY DEF CommitMissedOpening, ClosesInParts
<1>2. /\ deal \in DealRow /\ read.status = deal.status /\ dp \in DPs
      /\ c \in Call /\ SoloCall(c) /\ c.req.op = "event" /\ c.stage = "checked"
  <2>1. call[w].req.arg.type \in DisputeEvents
    BY <1>1 DEF Closes, DisputeEvents
  <2> QED
    BY <1>1, <2>1, SoloServing, EventServed DEF RInv, RaceTypeOK, TypeOK
<1>3. deal' = DealFor(dp, read) /\ ledger' = ledger
  BY <1>1 DEF EnsureOpen
<1>4. SameIds /\ NoNewCharge /\ (deal.status = "refunded" => deal'.status = "refunded")
  BY <1>2, <1>3, SoloOpen DEF SameIds, NoNewCharge
<1>5. SoloMoney'
  BY <1>1, <1>4, MoneyLeft DEF SInv
<1>6. SoloCalls'
  <2> DEFINE next == [c EXCEPT !.read = deal']
  <2>1. call' = [call EXCEPT ![w] = next]
    BY <1>1
  <2>2. next.read = deal' /\ next.req = c.req /\ next.stage = c.stage
    BY <1>2 DEF Call
  <2>3. PICK d : d = deal'
    OBVIOUS
  <2> HIDE DEF next
  <2>4. PICK n : n = next
    OBVIOUS
  <2>5. SoloCall(n)'
    BY <1>2, <2>2, <2>4 DEF SoloCall, MovesStatus
  <2> QED
    BY <2>1, <2>4, <2>5, SoloGoesOn
<1> QED
  BY <1>5, <1>6 DEF SInv

LEMMA SoloDecision ==
    ASSUME OneWorker, RInv, SInv, NEW w \in Workers, CommitDecision(w)
    PROVE  SInv'
<1> DEFINE dp == call[w].req.arg.obj
<1>1. /\ At(w, "event", "checked") /\ Closes(w) /\ Decide(dp, call[w].read)
      /\ MovesTo(w, "half", None)
      /\ UNCHANGED stripeVars /\ UNCHANGED <<deal, processed>>
  BY DEF CommitDecision, ClosesInParts
<1>2. SameIds /\ NoNewCharge
  BY <1>1 DEF SameIds, NoNewCharge, Decide, Log, Entry
<1>3. call[w] # Idle /\ call[w].req.arg.type = "charge.dispute.closed"
  BY <1>1, SoloServing DEF Closes
<1>4. SoloMoney'
  BY <1>1, <1>2, MoneyLeft DEF SInv
<1>5. SoloCalls'
  BY <1>1, <1>2, <1>3, SoloMovesOn DEF SInv
<1> QED
  BY <1>4, <1>5 DEF SInv

LEMMA SoloBadge ==
    ASSUME OneWorker, RInv, SInv, NEW w \in Workers, CommitBadge(w)
    PROVE  SInv'
<1> DEFINE e == call[w].req.arg
<1>1. /\ At(w, "event", "half") /\ Ends(w)
      /\ deal' = [deal EXCEPT !.dispute_status = None]
      /\ processed' \subseteq processed \cup {e}
      /\ UNCHANGED stripeVars /\ UNCHANGED ledger
  BY DEF CommitBadge, Acknowledge, rowVars
<1>2. deal \in DealRow
  BY DEF RInv, RaceTypeOK, TypeOK
<1>3. e.type = "charge.dispute.closed"
  BY <1>1, SoloServing DEF SoloCall
<1>4. SameIds /\ NoNewCharge /\ deal'.status = deal.status
  BY <1>1, <1>2 DEF SameIds, NoNewCharge, DealRow
<1>5. \A ev \in processed' : ev.type = "charge.refunded" => ev \in processed
  BY <1>1, <1>3
<1> QED
  BY <1>1, <1>4, <1>5, SoloCommit

-----------------------------------------------------------------------------
\* What happens around it.

\* Stripe and time leave a request as it is.
LEMMA SoloOutside ==
    ASSUME RInv, SInv, UNCHANGED call, SameIds, NoNewCharge, deal'.status = deal.status,
           UNCHANGED processed, NewRefundsOwned,
           NothingOffered
    PROVE  SInv'
<1>1. SoloMoney'
  BY MoneyKept DEF SInv
<1>2. SoloCalls'
  BY DEF SInv, SoloCalls, SoloCall, SameIds
<1> QED
  BY <1>1, <1>2 DEF SInv

LEMMA SoloGrace ==
    ASSUME RInv, SInv, GraceDeadlinePasses, UNCHANGED <<call, calls>>
    PROVE  SInv'
<1>1. /\ deal' = [deal EXCEPT !.proof_grace_deadline = "past"]
      /\ UNCHANGED <<ledger, processed, intent, refunds>>
  BY DEF GraceDeadlinePasses, rowVars, stripeVars, refundVars
<1>2. deal \in DealRow
  BY DEF RInv, RaceTypeOK, TypeOK
<1>3. SameIds /\ NoNewCharge /\ deal'.status = deal.status
  BY <1>1, <1>2 DEF SameIds, NoNewCharge, DealRow
<1>4. NewRefundsOwned
  BY <1>1 DEF NewRefundsOwned
<1> QED
  BY <1>1, <1>3, <1>4, SoloOutside DEF NothingOffered

LEMMA SoloStripe ==
    ASSUME RInv, SInv, StripeActs, UNCHANGED <<call, calls>>
    PROVE  SInv'
<1>1. StripeStep /\ UNCHANGED <<deal, ledger, processed>>
  BY DEF StripeActs, dbVars
<1>2. SameIds /\ NoNewCharge
  BY <1>1 DEF SameIds, NoNewCharge
<1>3. StripeTypeOK
  BY DEF RInv, RaceTypeOK, TypeOK
<1>4. NewRefundsOwned /\ NothingOffered
  <2>1. ASSUME NEW p \in PIs, CustomerPays(p)
        PROVE  NewRefundsOwned /\ NothingOffered
    BY <1>3, <2>1 DEF CustomerPays, refundVars, NewRefundsOwned, NothingOffered, StripeTypeOK
  <2>2. ASSUME NEW p \in PIs, NEW amount, DashboardRefund(p, amount)
        PROVE  NewRefundsOwned /\ NothingOffered
    <3>1. /\ refunds' = Append(refunds, [charge |-> p, amount |-> amount,
                                         by |-> "dashboard"])
          /\ UNCHANGED intent /\ refunds \in Seq(Refund)
      BY <1>3, <2>2 DEF DashboardRefund, CreateRefund, StripeTypeOK
    <3>2. \A n \in DOMAIN refunds' : \/ n \in DOMAIN refunds /\ refunds'[n] = refunds[n]
                                     \/ refunds'[n].by = "dashboard"
      BY <3>1
    <3> QED
      BY <3>1, <3>2 DEF NewRefundsOwned, NothingOffered
  <2>3. ASSUME NEW dp \in DPs, NEW p \in PIs, CardholderDisputes(dp, p)
        PROVE  NewRefundsOwned /\ NothingOffered
    BY <2>3 DEF CardholderDisputes, refundVars, NewRefundsOwned, NothingOffered
  <2>4. ASSUME NEW dp \in DPs, DisputeProgresses(dp)
        PROVE  NewRefundsOwned /\ NothingOffered
    BY <2>4 DEF DisputeProgresses, refundVars, NewRefundsOwned, NothingOffered
  <2>5. ASSUME NEW dp \in DPs, NEW outcome, DisputeEnds(dp, outcome)
        PROVE  NewRefundsOwned /\ NothingOffered
    BY <2>5 DEF DisputeEnds, refundVars, NewRefundsOwned, NothingOffered
  <2> QED
    BY <1>1, <2>1, <2>2, <2>3, <2>4, <2>5 DEF StripeStep
<1> QED
  BY <1>1, <1>2, <1>4, SoloOutside

-----------------------------------------------------------------------------
\* The invariant, and what it says.

LEMMA SoloBegins == RaceInit => SInv
<1> SUFFICES ASSUME RaceInit PROVE SInv
  OBVIOUS
<1> DEFINE row == [NewDeal(FALSE) EXCEPT !.status = Start,
                                         !.business_approved = (Start = "approved"),
                                         !.owner_approved = (Start = "approved")]
<1>1. /\ deal = row /\ ledger = <<>> /\ refunds = <<>>
      /\ intent = [p \in PIs |-> "none"] /\ call = [w \in Workers |-> Idle]
  BY DEF RaceInit, InitWith, StripeInit
<1>2. ~row.funded_at
  BY DEF NewDeal
<1> HIDE DEF row
<1>3. SoloCalls /\ OfferedIsNamed /\ OwnRefunds /\ OwnRefundSurvivesCrash
  BY <1>1 DEF SoloCalls, OfferedIsNamed, OwnRefunds, OwnRefundSurvivesCrash
<1>4. ChargeRecorded
  BY <1>1, <1>2 DEF ChargeRecorded
<1> QED
  BY <1>3, <1>4 DEF SInv, SoloMoney

LEMMA SoloKeeps ==
    ASSUME OneWorker
    PROVE  RInv /\ SInv /\ [RaceNext]_raceVars => SInv'
<1> SUFFICES ASSUME RInv, SInv, [RaceNext]_raceVars PROVE SInv'
  OBVIOUS
<1>1. ASSUME NEW w \in Workers, Serve(w) PROVE SInv'
  <2>1. CASE \E req \in Requests : Begin(w, req)
    BY <2>1, SoloBegin
  <2>2. CASE Dies(w)
    BY <2>2, SoloDies
  <2>3. CASE \E p \in PIs : MakeIntent(w, p)
    BY <2>3, SoloIntent
  <2>4. CASE MakeTransfer(w)
    BY <2>4, SoloTransfer
  <2>5. CASE MakeRefund(w)
    BY <2>5, SoloRefund
  <2>6. CASE CommitParty(w)
    BY <2>6, SoloParty
  <2>7. CASE CommitFunding(w)
    BY <2>7, SoloFunding
  <2>8. CASE CommitReview(w)
    BY <2>8, SoloReview
  <2>9. CASE CommitRelease(w)
    BY <2>9, SoloRelease
  <2>10. CASE CommitRefund(w)
    BY <2>10, SoloRefundCommit
  <2>11. CASE CommitSettlement(w)
    BY <2>11, SoloSettlement
  <2>12. CASE SettlementRefund(w)
    BY <2>12, SoloSettlementRefund
  <2>13. CASE CommitRefresh(w)
    BY <2>13, SoloRefresh
  <2>14. CASE CommitMoneyEvent(w)
    BY <2>14, SoloMoneyEvent
  <2>15. CASE CommitDisputeEvent(w)
    BY <2>15, SoloDisputeEvent
  <2>16. CASE CommitMissedOpening(w)
    BY <2>16, SoloMissedOpening
  <2>17. CASE CommitDecision(w)
    BY <2>17, SoloDecision
  <2>18. CASE CommitBadge(w)
    BY <2>18, SoloBadge
  <2> QED
    BY <1>1, <2>1, <2>2, <2>3, <2>4, <2>5, <2>6, <2>7, <2>8, <2>9, <2>10, <2>11, <2>12,
       <2>13, <2>14, <2>15, <2>16, <2>17, <2>18 DEF Serve
<1>2. CASE Outside /\ UNCHANGED <<call, calls>>
  BY <1>2, SoloStripe, SoloGrace DEF Outside
<1>3. CASE UNCHANGED raceVars
  <2>1. UNCHANGED <<call, deal, ledger, processed, intent, refunds>>
    BY <1>3 DEF raceVars, vars, dbVars, stripeVars, refundVars
  <2>2. SameIds /\ NoNewCharge /\ NewRefundsOwned /\ NothingOffered
    BY <2>1 DEF SameIds, NoNewCharge, NewRefundsOwned, NothingOffered
  <2> QED
    BY <2>1, <2>2, SoloOutside
<1> QED
  BY <1>1, <1>2, <1>3 DEF RaceNext

LEMMA SoloInvariance ==
    ASSUME OneWorker
    PROVE  RaceSpec => [](RInv /\ SInv)
<1>1. RaceInit => RInv /\ SInv
  BY RaceBegins, SoloBegins
<1>2. RInv /\ SInv /\ [RaceNext]_raceVars => RInv' /\ SInv'
  BY RaceKeeps, SoloKeeps
<1> QED
  BY <1>1, <1>2, PTL DEF RaceSpec

\* With one request at a time the business cannot pay twice, wherever the
\* program dies: a PaymentIntent it made and lost is one nobody holds the secret
\* of, and the charge reaches the ledger once, from the event or from /refresh
\* (deals.py fund_deal, services.py mark_deal_funded_from_pi).
THEOREM PaysOnce ==
    ASSUME OneWorker
    PROVE  RaceSpec => []ChargedOnce
<1>1. SInv => ChargedOnce
  <2> SUFFICES ASSUME SInv PROVE ChargedOnce
    OBVIOUS
  <2>1. \A p, q \in PIs :
           {intent[p], intent[q]} \subseteq {"offered", "succeeded"} => p = q
    BY DEF SInv, SoloMoney, OfferedIsNamed
  <2>2. ASSUME deal.funded_at
        PROVE  Cardinality(Rows("deal_charge",
                                RefTo("payment_intent", deal.payment_intent_id))) = 1
    <3>1. PICK n \in DOMAIN ledger :
             /\ ledger[n].kind = "deal_charge"
             /\ ledger[n].ref = RefTo("payment_intent", deal.payment_intent_id)
             /\ \A m \in DOMAIN ledger : ledger[m].kind = "deal_charge" => m = n
      BY <2>2 DEF SInv, SoloMoney, ChargeRecorded
    <3>2. Rows("deal_charge", RefTo("payment_intent", deal.payment_intent_id)) = {n}
      BY <3>1 DEF Rows
    <3> QED
      BY <3>2, FS_Singleton
  <2> QED
    BY <2>1, <2>2 DEF ChargedOnce
<1> QED
  BY <1>1, SoloInvariance, PTL

\* With one request at a time a refund the program made and died before
\* recording is on the row once Stripe's event of it was handled (services.py
\* refund_deal, confirm_refund_from_charge).
THEOREM RefundIsRemembered ==
    ASSUME OneWorker
    PROVE  RaceSpec => []OwnRefundSurvivesCrash
<1>1. SInv => OwnRefundSurvivesCrash
  BY DEF SInv, SoloMoney
<1> QED
  BY <1>1, SoloInvariance, PTL

\* The premise of EarnedOnce and RefundsAreReal, for one request at a time: no
\* crash makes a second PaymentIntent that can be paid (deals.py fund_deal,
\* which hands out the secret only after it committed the id).
THEOREM CrashesLeaveOneIntent ==
    ASSUME OneWorker
    PROVE  RaceSpec => []PaidOneIntent
<1>1. SInv => PaidOneIntent
  BY DEF SInv, SoloMoney, OfferedIsNamed, PaidOneIntent
<1> QED
  BY <1>1, SoloInvariance, PTL
====

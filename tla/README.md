# PromoSlot in TLA+

PromoSlot is a marketplace in which businesses buy promotion from platform
owners. The money of a deal is collected when the business funds it, held by
the platform, and paid out after a human reviewer has verified the evidence of
delivery. This directory models the parts of the backend that decide what
happens to that money (the deal's state machine, the handlers and the Stripe
events that move it, the ledger, the arithmetic of fees, pools and affiliate
programs, the owner's payouts) and the parts that decide who may take part and
what they deal on: accounts and their sessions, the Verified badge, listings
and campaigns with their files, and the support desk. Paths below are relative
to `src/backend/`.

## 1. Inventory

| Part | State | Operations | Works with |
|---|---|---|---|
| Deal state machine, `deal_state.py` | the table of legal transitions | `can_transition`, `assert_transition`, `assert_payout_eligible` | every handler of a deal |
| Parties' handlers, `routers/deals.py`, `routers/proofs.py` | the `deals` row: approvals, PaymentIntent, status; proofs | create, approve, fund, refresh, decline, submit proof | Stripe (PaymentIntents), listings and campaigns |
| Review, `routers/review.py` | `verified_at`, the `verifications` rows, `proof_grace_deadline` | verify (approve, reject, request changes, grace window), release-payout, refund, settle-pool | Stripe (Transfer, Refund), the ledger |
| Webhooks, `routers/webhooks.py`, handlers in `services.py` | `webhook_events.processed` | apply `payment_intent.succeeded`, `charge.refunded`, `charge.dispute.*`, account and program events; answer APPLIED, IGNORED or RETRY | the deal row, disputes, the ledger |
| Disputes, `services.py`, `routers/disputes.py` | the `disputes` rows, the deal's badge and freeze | open, update, close; submit evidence | webhooks, review (a dispute blocks it) |
| Ledger, `ledger.py` | append-only rows | `record`, absorbed losses, reconciliation with Stripe | everything that moves money |
| Money, `money.py` | none | fees, pool settlement, affiliate settlement | funding, release, settlement |
| Payouts, `services.py`, `routers/connect.py` | `connected_accounts`, the deal's `instant_*` columns | create an account, instant payout on release or on request, `payout.*` and `transfer.reversed` events | release, Stripe (Connect), the audit log |
| Affiliate programs, `routers/affiliate.py`, `services.py` | program, top-ups, applications, codes | create, fund, top up, refresh, confirm tracking, apply, approve, reject, remove, settle | Stripe, webhooks, tracking |
| Affiliate tracking, `routers/affiliate_tracking.py` | conversions, the program's committed total | sale and reversal by Shopify, WooCommerce, Wix or the snippet | the program's row, its settlement |
| Listings, campaigns and applications, `routers/platforms.py`, `routers/campaigns.py`, `routers/admin.py`, `storage.py` | `platforms`, `platform_media`, `campaigns`, the stored files, `deals` that reference them | create, upload, delete media, suspend, invite, apply, remove, remove by an admin | deals, the object store |
| Verification, `routers/verification.py`, `services.py`, edits in `routers/profiles.py`, `routers/platforms.py`, `routers/businesses.py` | `account_verification_requests`, evidence files, `verified` of listings and businesses | submit, upload evidence, approve, reject, revoke by editing | listings, the object store |
| Accounts and sign-in, `routers/auth.py`, `routers/google_auth.py`, `routers/profiles.py`, `routers/admin.py`, `account_deactivation.py`, `account_deletion.py` | `users` and the link between two of one person, sessions, verification links, `google_pending_signups`, `banned_emails` | sign up, log in, Google, link, switch, deactivate, delete, suspend, ban, and back | listings and campaigns, mail |
| Sweep, `src/scripts/expire_suspensions.py` | none | clear the suspensions whose end has passed | accounts, listings, campaigns |
| Support desk, `routers/support.py`, `routers/inbound.py`, `routers/disputes.py` | tickets, their timeline, owners of tickets and disputes, the support account and its threads | claim, transfer, reply by mail, receive mail | mail, messages |
| Everything else | | rate limits, messages, reviews, notifications, marketing mail, admin listings, the front end | |

What makes the core hard to get right, and where it bites, is the list of
hazards in `PROJECT.json`. In short:

* **Two writers.** The `deals` row is written by request handlers, which FastAPI
  runs in a thread pool, each with a session of its own at READ COMMITTED and
  without row locks, and by the webhook coroutine. A handler reads the row,
  checks it, calls Stripe, and commits what it decided on the row it read.
* **Stripe in the middle.** A handler that dies between the call and the commit
  leaves money moved and nothing recorded; the event may arrive before the
  commit of the handler that caused it.
* **Events.** They are delivered again until acknowledged, in any order, and one
  that the code takes for foreign is acknowledged for good.
* **Disputes** freeze a deal in the middle of whatever it was doing, are decided
  by somebody else, and may come in numbers or after the payout.
* **Pennies.** Fees are rounded on both sides, pools are paid in whole units, and
  a settlement splits what is left among owners.
* **Two stores of one fact.** A file lives in the object store and its name in a
  row; the badge lives in decided requests and on every listing; an owner's
  money lives at Stripe and its payout on the deal. Each is written in steps.
* **Two identities of one person.** A business and an owner profile share one
  mailbox and sign-in finds only the first; what happens to one must happen to
  the other, in commits of their own.
* **Stores.** An affiliate program's sales and reversals are reported late, more
  than once and in any order, by hooks of which some are coroutines and some
  threads, and while the settlement is at work; the settlement is a loop of
  Stripe calls and commits that can die at any of them.

What must hold: an owner is paid at most once, and only for verified work; what
leaves never exceeds what was collected; the ledger agrees with Stripe; a frozen
deal does not move; only the table's transitions happen; a paid deal is funded
in the end and a freeze ends. For a program: an order earns one commission, a
decided sale stays decided, money leaves only in the settlement and not more of
it than the business has paid. A deal that says it was paid out instantly was,
and a payout that fails is told. What a deal came from stays as long as the
deal does, and a file is stored exactly as long as a row names it. The badge
says what was decided. A person's identities are suspended, banned, paused and
deleted together and leave no session behind, and a timed suspension ends. A
claim is exclusive, what is recorded as answered was sent, and mail arrives.

## 2. Modules

    Escrow (abstract)                    Money      DealState   Stripe
        ^                                  |  \         |         |
        | refinement                       |   \        |         |
    DealProperties --extends--> Deal --> DealRow <------+---------+
        ^          ^                       (Settlement extends Money)
        |          |
    DealRace    DealProofs
        ^          ^
        |          |
        +--- RaceProofs

    Money <--- Program <--- ProgramProperties <--- ProgramProofs ---> Settlement

    Payout <--- PayoutProofs        Desk <--- DeskProofs
    Market <--- MarketProofs        Badge <--- BadgeProofs
    Account <--- AccountProperties <--- AccountProofs

The modules in the last three lines stand alone. They meet the others at single
facts, which each takes as an input: `Payout` begins where `Deal` has a verified
deal, `Market` ends where a deal is funded, and neither reads what the other
writes.

* **`DealState`** is `deal_state.py`: statuses, table, `PayoutEligible`, the final
  and proof-closed statuses.
* **`Money`** is `money.py` in integers, its `//` being `\div`: `DealMoney` is the two
  fees, each rounded down by itself, `TotalChargeFor` what a PaymentIntent is made for,
  `PoolSettlementFor` and `AffiliateSettlementFor` the settlements.
* **`Stripe`** is the external service: PaymentIntents (named like the charges they
  make), Transfers and Refunds in order, the sums drawn on each charge, disputes,
  and the set `sent` of events. `sent` only grows, and an event is deliverable
  until the program has marked it `processed`: loss, repetition and reordering
  need no actions of their own. What Stripe refuses (a Transfer beyond its source
  charge, a zero amount, a Refund beyond the charge or of a disputed one) is a
  guard of the call, and the handler that makes the call then changes nothing. A
  person may refund a part of a charge on the dashboard (`PartialRefunds`) or all that
  is left of it; the program's own refund then returns the rest. A dispute is over the
  whole charge, and is won, lost or open: `warning_closed`, which the code treats like
  `won`, is folded into it.
* **`DealRow`** is the `deals` row and, for each handler, its checks (a predicate on
  the row it *read*) and its writes (a function of the row it *writes to* and the
  row it read). Timestamps are booleans; the grace deadline is none, open or past.
* **`Deal`** makes each handler one atomic action: `ApproveDeal`, `FundDeal` (and its
  refusal after Stripe was asked), `DeclineDeal`, `SubmitDeliveryProof`,
  `RefreshDeal`, `VerifyApproved`, `VerifySentBack`, `ReleasePayout`, `RefundDeal`,
  `SettlePool`, and `Deliver`, which handles one event. It also keeps the disputes'
  rows, the ledger and the processed events. Marking an event is a commit of its
  own in the code, so the mark may be lost while the work stays.
* **`DealRace`** takes the same checks and writes apart: `Begin` reads and checks, the
  `Make...` actions call Stripe, the `Commit...` actions write. `Dies` can happen
  anywhere in between. Commits in the middle of a handler are steps too: the
  grace window's second commit, the settlement's first, the opening of a dispute
  first heard of at its closing, and the audit entry that commits a dispute's end
  before the badge is cleared. The webhook endpoint is a coroutine that never
  awaits after reading the body, so at most one event is in progress. A source is not
  removed here: `Deal` and `Market` have that.
* **`Settlement`** follows the arithmetic over a campaign: one view, or one
  commission, at a time; after each step it looks at the settlement that would be
  made then.
* **`Program`** is an affiliate program: `FundProgram`, `TopUpProgram`,
  `ConfirmTracking` by the business, the confirmation of a payment,
  `Apply` to `RemovePartner` for an owner's membership (one value, the newest
  application or the code made from it), the store's reports, and the settlement.
  A payment is confirmed in three steps, by the webhook and by a `/refresh` at the same
  time: `ConfirmBegins` looks at the payment's row, `StripeConfirms` is Stripe's answer,
  after which the program of a top-up is read, and `ConfirmCommits` writes; `ConfirmFails`
  gives up in between, and `Acknowledge` answers the event of a payment that counts
  already. `recounted` remembers payments that counted when they were committed.
  A report is a handler in `tracking`. `SaleChecked` and `ReversalChecked` are
  everything up to the last query, `SaleCommits` and `ReversalCommits` the write; `raced`
  remembers the orders that two handlers had found unknown at a time. A
  coroutine (Shopify, WooCommerce) has read the program's row before it awaited the
  body, in `HookArrives`, and `LoopIsFree` says that no other coroutine runs between
  its check and its commit; requests of Wix and of the snippet are threads and
  overlap as they like. Both overlap the settlement: `SettleBegins` (the endpoint's
  checks and the payout accounts it finds), `SettleLoads` (the pending sales, the
  nets, the refund), per owner `TransferToOwner` and `CommitOwner`, or `NothingDue`,
  or `OwnerFails`, then `RefundUnused` and `SettleFinishes`; `SettleDies` anywhere.
  What Stripe refuses is `Covered` and `RefundCovered`: every Transfer and the refund
  name the program's first charge. Amounts of the settlement are `Money`'s.
* **`ProgramProperties`** states what `Program` promises and **`ProgramProofs`** proves it,
  sums and recursive settlements included; it extends `Settlement` too, because the
  arithmetic is the same.
* **`Payout`** is one owner's way to the bank: `CreateAccount` and `InsertAccount`,
  `SetInstantPreference`, the release in steps (`Release` checks, `MakeTransfer`,
  `CommitPaid`, the instant attempt, `AuditRelease`), `RequestInstant` for the
  button, and the attempt both share: `CheckInstant` reads eligibility and balance,
  `SendInstant` calls Stripe, `RecordInstant` commits. `HandleEvent` tells of a payout
  that failed or a Transfer that was reversed, `MarkProcessed` acknowledges it. At
  Stripe, balances are paid out on schedule and payouts fail. Two rows of
  `connected_accounts` are possible, and a query then finds either: `Release` and
  `RequestInstant` take any.
* **`Market`** is listings, campaigns (both "sources"), their files and the deals made
  from them. A handler that reads before it commits is split there: `CreateDeal` and
  `Apply` before `InsertDeal`; `Upload`, `SaveUpload`, for a video with a cover
  `SaveCover`, and `AttachUpload`, each of the two files being one that `RefuseUpload` may
  turn down; `Remove`, which counts the deals and deletes the files, before `Archive` or
  `CommitRemove`; `AdminRemove` before `CommitAdminRemove`; `FundDeal` before
  `CommitFundDeal`. `Erase` deletes as much as the store will; `orphans` remembers what it
  would not, and a video that was stored before its cover was refused.
  `Deletable` is the database's foreign keys, which refuse a row that is still
  referenced. `withdrawn` records what an owner withdrew before it was funded.
* **`Badge`** is the requests for verification with their evidence, the decision, and
  what revokes one. `PlatformOwnerVerified` is `platform_owner_verified`, computed from the
  requests; `listings` holds the copy the public sees. Whether a name is still the one
  the reviewer judged is the `current` flag. `Decide` deletes the files, those of them
  that the store will delete (`undeleted` remembers the others), and `CommitApproval` and
  `CommitRejection` write and forget them all; every edit reads in one step and writes in
  `CommitEdit`.
* **`Account`** is one mailbox and its `users` rows. Requests are split at each commit:
  `Signup` and `Insert`, `Login` (with `ReactivateCascade`) and `IssueSession`, `Deactivate`
  and `DeactivateLinked`, `DeleteMyAccount` or `DeleteUser` with `DeleteLinked` and
  `RecordDeletion`, `SuspendUser` with `RevokeSessions`, `BanUser` with `RevokeBanned`,
  `BanLinked` and `RecordBannedEmail`, and back. `QueryDue` and `ClearSuspension` are the
  sweep, which queries users first, then listings and campaigns (both "items"), and
  commits each row by itself. A suspension is none, indefinite, timed or elapsed;
  `Elapse` is time.
* **`AccountProperties`** states what `Account` promises, and **`AccountProofs`** proves
  all of it but that suspensions end.
* **`Desk`** is the reviewers' queue: `Claim` is the guarded update both routers use,
  `Transfer` and `CommitTransfer` hand over, a reply goes from `Reply` over `EmailReply` or
  `EmailFails` to `FinishReply`, which also writes the timeline, and from there, for a
  ticket of a member, to the support account and the thread (`FindSupport` to
  `SendMessage`, each with its commit). `CustomerWrites`, `Receive`, `RecordMail` and
  `ReceiveFails` are inbound mail; `Ignore` is mail to no ticket, and `DropMail` mail to
  one whose body is empty.
* **`Escrow`** is the promise: open, held, frozen, paid, returned, void, and what was
  sent to either side. `DealProperties!KeepsEscrow` is the refinement, with the
  phase computed from the row and the sums from Stripe.
* **`DealProperties`** states the properties of `Deal`, and **`DealProofs`** proves them, the
  refinement of `Escrow` and the ledger included; **`RaceProofs`** builds on it for
  `DealRace`; **`PayoutProofs`**, **`MarketProofs`**, **`BadgeProofs`** and **`DeskProofs`** prove
  theorems about the modules they are named after. The modules whose names begin with
  `MC` hold the instances.

In the newer modules `jobs` maps each handler to what is left of its request (the
step it is `at` and what it has read), `Arrive` starts one, `GoOn` continues or ends
it and `Die` drops it. `calm` is a history variable: it says that so far no two
requests overlapped and none died. A property that needs it is one the code keeps
one request after the other and gives up under overlap; those without it hold
whatever overlaps or dies. The section on divergences says what goes wrong.

Each guard and each write exists once, in `DealRow`; `Deal` and `DealRace` differ
only in when they are evaluated and against which copy of the row.

Definitions whose comment starts with "Mutant of" are variants with a plausible
bug: each property is known to catch one of them.

## 3. Runs

`tlc -config <run>.cfg <module>.tla`, the module being the run's name up to the
underscore.

| Run | Question | Bounds | States |
|---|---|---|---|
| `MCDeal_fixed` | is a fixed-price deal right, with events in any order, one handler at a time, and does it progress? | one PaymentIntent, one dispute, two dashboard refunds, of 40 of the 110 or of all that is left | 375 000 |
| `MCDeal_pool` | the same for a hybrid deal with a pool and a grace window: is the money enough, is the window honoured, and is each loss counted when there are two disputes? | two disputes, one dashboard refund, verified quantities 0, 27 (not a whole number of units) and 1000 (beyond the pool); no event is marked | 401 000 |
| `MCRace_money` | what do two overlapping requests of a fixed-price deal never do to the money? | two workers, two PaymentIntents, one dashboard refund, 9 requests | 1.54 million |
| `MCRace_crash` | what does a crash anywhere never break? | one worker, hybrid deal, two PaymentIntents, one dispute, one dashboard refund, 11 requests | 4.66 million |
| `MCSettlement_pennies` | are pennies conserved? | 288 combinations of pool terms and fees, up to 40 views; 54 programs of one to three owners, commissions up to 14 each | 77 000 |
| `MCProgram_settle` | what does a program pay, to whom, when and out of what? | two owners, percent and flat commissions, a host with coroutines and one with threads, two sales of nothing or of half the pool and more, one order id, a top-up, two reports and two confirmations at a time, within `Apart` | 5.2 million |
| `MCPayout_instant` | is what a deal says of its instant payout so, and who hears of trouble? | two deals of different worth, two accounts, two requests at a time, 3 in all, two payouts, one death | 4.6 million |
| `MCMarket_removal` | what survives a removal, and can a withdrawn source still be funded? | a listing, a campaign, two deals, three files, two requests at a time, 8 in all, one death | 2.34 million |
| `MCBadge_gates` | do badge and evidence follow the decisions? | two listings, three requests for verification, one file, two calls at a time, 7 in all, one death | 2.06 million |
| `MCAccount_life` | do two identities live and end as one person, and do suspensions end? | three rows of one mailbox, one listing, two requests at a time, 3 in all, one death | 273 000 |
| `MCDesk_queue` | are claims exclusive, are answers sent, does mail arrive? | two tickets, one of a member, a dispute, two reviewers, one mail, two requests at a time, 4 in all, two failures | 1.1 million |
| `MCRace_settle` | is a pool settled once when requests overlap? It is not. | two workers, 7 requests | stops at a counterexample |

Bounds, and why they are enough. A deal has one PaymentIntent unless a handler
failed in between or two fund requests overlapped, which is why `MCRace_crash` and
`MCRace_money` have two. One dispute shows every order of its events against every
handler; a second matters to what the disputes share, the badge,
`status_before_dispute` and whether the deal has been paid, which is what `MCDeal_pool`
asks, with two. It leaves every acknowledgement out (`NothingIsMarked`): to mark an
event only stops its redelivery, so whatever an invariant or an action property could
meet is met without. The theorems have any number of disputes and of PaymentIntents,
except where they say so.
`MaxRefunds` bounds the refunds made on Stripe's dashboard, `MaxCalls` the requests
served: the longest path to a settled deal takes 7 requests, a refund and a
dispute's events come on top. Two workers suffice for a lost check; three add
no new pair. Amounts are one fixed set of terms (`MCTerms`) in the deal runs
because `MCSettlement_pennies` explores them; 110 collected against 90 paid out
for the fixed price makes a second Transfer impossible, and 165 against 45 to 135
makes it possible for the pool, as in the code's defaults. A program has room for
`MaxSales` rows, two, which with 60 earned by each overrun a pool of 100 and, with one
of them, leave part of it; two owners are the fewest that share a capped pool, and
are alike but for the order in which the code meets them, which is a choice of
every step, hence the symmetry. One order id suffices for repeated reports, and a
report without an id is always a new sale. `died` allows one death of a settlement.
One settlement is in progress at a time. What overlaps in `MCProgram_settle` is bounded
further, by the constraint `Apart`: a confirmation overlaps the endpoint's checks of a
settlement and no report; two confirmations are in hand only before the first sale;
two reports only in the campaign and before a top-up; and a funding committed twice is
followed up to the first sale. Marks are left out after the first sale, for the reason
above. Beside the webhook there is one `/refresh`. The theorems have none of these bounds
but the last and that settlements take turns.

`MaxCalls` of the newer modules counts the requests made. Three of `Payout` are
one account, one release and one more of either or the button, overlapping or
not; the two payouts are an instant one and a scheduled one, or two instant ones
of two deals. In `Market`, eight are enough to create both sources, book, approve
twice, withdraw and try to fund, and three files are a video with its cover and one
more, or one to replace, one to replace it by and one that stayed. In `Badge`, seven pass both gates, add a listing and take one gate
away. `Account` starts either with nobody or with one person's two identities, so
that three requests reach the end of each cascade from either side; the third row
is what a second sign-up under the mailbox would add. In `Desk` a claim, a
transfer and two replies make four. Handlers, workers, PaymentIntents, disputes, files,
owners and accounts are interchangeable where `SYMMETRY` says so: no definition tells
them apart, and the action properties quantify over all of them. No run with a
liveness property has symmetry. The
system may stop (a deal ends, nobody clicks), hence `CHECK_DEADLOCK FALSE`
everywhere.

Fairness. In `Deal`, `FairSpec` asks for two things. `WF(Deliver(e) /\ e \in processed')`:
an event that can be acknowledged in the end is, because Stripe redelivers for
days with backoff and the handler's answer is what stops it; the conjunct says
that the acknowledgement is not lost for ever. And every dispute is decided by the
bank. In `Desk`, the mail provider too calls again until it is answered
(`WF(Receive(m))`, `WF(RecordMail)`, `WF(DropMail)`), and `MaxFailures` bounds how often the text
cannot be had. In `Account`, a server finishes what it does not drop, time passes,
and the sweep is run by the scheduler again and again. No party, reviewer or
admin ever has to act. `Program`, `Payout`, `Market` and `Badge` state no liveness and
assume no fairness: nothing in the code there retries by itself.

What the properties say:

* `PaidOnceForVerifiedWork`, `PayoutIsEarnedOnce`: no payout without funding, evidence
  and approval, and no second one. For a fixed-price deal this survives any overlap
  because both Transfers name the same charge and Stripe refuses the second.
  Two PaymentIntents that were both paid are excepted: there are then two charges.
* `NeverSpendsMoreThanCollected`, `KeepsEscrow`, `RefundedMeansReturned`: the money. The
  last says that money of the deal came back, and that of the charge on the row unless
  two PaymentIntents were paid. `Escrow` lets a part of it come back on the dashboard
  at any time.
* `LedgerMirrorsStripe`, `LedgerIsBacked`, `OwnRefundSurvivesCrash`: the books.
  `LedgerMirrorsStripe` includes that a refund known from two places is recorded once.
  Both let the row of a refund say the whole charge where that refund returned the last
  of it (`MayBeRecordedAs`), as the code does after a partial refund on the dashboard.
* `AbsorbedLossIsCounted`: a loss counts as absorbed exactly when the owner had been
  paid, for each of several disputes, as long as none of them was won.
* `ChargedOnce`: the business can pay a deal once and its charge is recorded once,
  crashes included.
* `FreezeHolds`, `GraceWindowIsHonoured`, `MovesAreLegal`: what a step may not do.
  `MovesAreLegal` allows the table's moves and the restoration of a thawed deal.
* `PaymentFundsDeal`, `FreezeEndsInTime`: progress.
* `SplitsLoseNoPenny`: the arithmetic of pools and of programs.
* `EachOrderCountsOnce`, `DecidedSalesStayDecided`: the sales. The first says that an
  order counts twice only if two reports of it were both checked before either was
  committed, and that hooks which are coroutines never are, however they overlap; the
  second allows what a settlement or a reversal in progress decides of rows it had read
  as pending.
* `OwnersPaidOnce`, `MoneyLeavesInSettlement`: the settlement; the first for
  settlements that run to their end, and its part about what the business paid for
  programs no payment of which was counted twice.
* `InstantIsBacked`: a recorded instant payout exists, in its amount, for its deal,
  whatever overlaps; and one request after the other every payout asked for is
  recorded and there is one account. `TroubleIsTold`: a failed payout is never
  acknowledged untold. `ReleaseIsAudited`: the attempt never keeps a release from
  its record.
* `DealsKeepTheirSource` holds under any overlap because the foreign keys refuse what
  the count no longer sees; `StoreMatchesRows` and `WithdrawnStaysUnfunded` are for
  requests one after the other, the first but for `orphans`.
* `BadgeMatchesGates`, `EvidenceOnlyWhilePending`: one call after the other, the second
  but for `undeleted`.
* `PairMovesTogether`, `RevokedEverywhere`, `OnePersonPerMailbox`: one request after the
  other. `HoldsAreKeptApart`, `SuspensionEnds`: whatever overlaps or dies.
* `ClaimsAreExclusive`, `MailArrives` and the first part of `RecordedMeansSent` hold under
  any overlap; `LastWordDecides` and its second part one after the other. Mail arrives
  if it has a readable body.

### What the code does not do

One run ends in a counterexample against a sentence of the repository (quoted
under `findings` in `PROJECT.json`): two overlapping settlements of a pool, both of
which are paid (`routers/review.py:422`).

Modelling met these too. They are of the same making, and no run is kept for them:

* `webhooks.py:90`: a dispute whose closing event arrives before
  `payment_intent.succeeded` is ignored, because the deal has no `charge_id` yet; a
  later event of it freezes the deal and nothing thaws it. `FreezeEndsInTime` is
  therefore for freezes that come before the end of the dispute is heard of.
* `services.py:1281`: a `charge.refunded` event handled while `refund_deal` is between
  its call and its commit puts the refund on the ledger twice.
* `services.py:1248-1264`: after a partial refund on the dashboard `refund_deal` returns
  the rest, as Stripe does when no amount is given, and records the whole charge, against
  its comment at 1250-1255 ("exactly what was charged, so it's exactly what's being
  refunded here"). The row is then no amount of Stripe's refund object, though it is the
  amount of the charge that came back in all.
* `services.py:1280`, `:1248`: two fund requests that overlap make two PaymentIntents, and
  the business can pay both. The deal's row then names one and, from the event of the
  other, the charge of the other; a refund goes to the first.
* `services.py:733`: every Transfer of a settlement names the program's first charge,
  so a topped-up pool can owe an owner more than that charge has left; the comment
  at `services.py:779` calls such an error "not a foreseeable one".
* `services.py:610`: two threads that report one order both find no earlier row, and
  it earns two commissions, against `services.py:597`.
* `services.py:555-582`: a `/refresh` and the event of one top-up that overlap both pass
  the check of its status before either commits, and the pool is raised twice, against
  the docstring at 552-553 ("only increases here, once"); more can then be paid out than
  was collected. Of two top-ups confirmed at once the first may be lost
  (`services.py:572`). And a confirmation of the program's own payment that
  was checked before the other was committed puts a program which went live meanwhile back
  to `funded` (`services.py:528`).
* `services.py:1525` restores a thawed deal to `funded`, `proof_submitted`,
  `changes_requested` or `rejected`; the table has no such move out of `disputed`,
  against `deal_state.py:10-12`. `MovesAreLegal` therefore names restoration apart.
* `services.py:1280` finds the deal by `charge_id`, so `charge.refunded` before
  `payment_intent.succeeded` is ignored for good.
* `services.py:1287` answers RETRY to the event of a settlement's own partial
  refund, and to that of a partial one on the dashboard, on every delivery.
* `routers/deals.py:364` checks the approvals and not the status before asking for
  a PaymentIntent: a declined deal gets as far as Stripe and fails afterwards
  (`FundDealRefused`).
* `routers/review.py:409`: nothing reads `campaign_ends_at`, though
  `models.py:481-487` has the settlement at the end of the campaign, never earlier.
* `services.py:985`: when Stripe refuses the refund of an unused pool, the deal is
  paid and no handler can ask for it again.
* `services.py:992` records the refund of the unused pool with the buyer's fee on
  it, so `pool_released_amount + pool_refunded_amount` is not `pool_max_budget`, as
  `models.py:494-495` has it.
* `money.py:182` takes the rounding of an affiliate settlement from whoever is met
  last, so two equal owners can differ by a penny, against `money.py:148-150`.
* Overlapping requests: a release and a refund that are both made
  (`routers/review.py:370`); a payout that lands on a deal frozen meanwhile
  (`services.py:913`); a charge recorded by `/refresh` and the event
  (`services.py:433`); two PaymentIntents offered (`routers/deals.py:381`); a grace
  window opened while its deal is being settled (`routers/review.py:241`).
* `services.py:1511`: the audit entry commits a dispute's end, and a crash before
  the next commit leaves the badge, which the redelivery does not clear.
* `services.py:1527`: of two disputes on a deal, the first to close clears the badge
  of both, against `models.py:541-544`. If the first was won, the deal is thawed and its
  owner may be paid; when the second is then lost, its row still says, as copied at
  `services.py:1373`, that no payout had been made, and the absorbed loss is not counted,
  against `ledger.py:69-71` ("a deal that somehow saw more than one dispute over its life
  is still counted precisely per-dispute"). `AbsorbedLossIsCounted` therefore speaks of
  deals no dispute of which was won; without that condition TLC violates it in
  `MCDeal_pool`.
* `services.py:631`, `:662`: the committed total is raised and lowered from a copy of
  the row that may be old, is lowered in full after it was capped, and is capped at
  the budget from before a top-up, so it drifts from the pending commissions.
* `services.py:745`, `:659`: a sale reversed while the settlement holds it is written
  over as settled and paid, and a sale settled while a reversal holds it as
  reversed, against "Terminal" in `models.py:1280`.
* `services.py:690`: a sale recorded after the settlement has read the sales stays
  pending for good.
* `services.py:741`: a settlement that dies between a Transfer and its commit is
  repeated and pays the owner again, against `models.py:1237`, and may send more
  than was collected: `OwnersPaidOnce` is for settlements that did not die. So do two
  settlements that overlap (`routers/affiliate.py:890`), which the model leaves out: it
  has one at a time.
* `services.py:786`: an owner whose Transfer failed stays pending while the program is
  marked settled, and nothing pays the owner later.
* `services.py:761`: the unused part of a topped-up pool can be more than the first
  charge, and its refund is refused; a top-up paid after the settlement is kept.
* Nothing sets a program's status to `ended`, though `services.py:603`,
  `models.py:1149` and `routers/admin_console.py:53` count on it.
* `webhooks.py:75` answers RETRY for ever to the event of a payment that `/refresh`
  found first, once the program is live.
* `ledger.py:112`: a refund made on the dashboard is recorded under its charge, and
  the reconciliation looks for refund ids.
* `routers/connect.py:82`: two overlapping requests make two accounts at Stripe and two
  rows, of which a query without an order later finds either; onboarding one and
  releasing to the other is then possible.
* `services.py:1057`: two overlapping attempts on one deal can both pay out, and the
  deal names the last; a handler that dies after `stripe.Payout.create` leaves a
  payout no deal names.
* `services.py:1079`: the whole instant balance goes with the deal the attempt was made
  for, other deals' earnings with it, and those deals keep saying they were not paid
  out instantly.
* `services.py:1217`: a reversal handled before the Transfer's commit finds no deal and
  is acknowledged untold.
* `routers/deals.py:370` looks at the source only until the payment is asked for: a
  source withdrawn after that is paid for all the same, since the PaymentIntent stays
  payable.
* `routers/platforms.py:516-527`, `routers/admin.py:866-880`: the files go first; if the
  commit then fails or the process dies, the row names files that are gone.
* `routers/platforms.py:401-405`: a cover that is refused ends `add_media` after the video
  was stored, and no row names the video.
* `storage.py:168-182`: a deletion that fails is passed over, and the file stays when
  the row that named it is gone. So does evidence when the store will not delete it:
  `services.py:257-261` empties the column all the same, against its own docstring,
  which has the media deleted "the moment a decision is made" and speaks of the "never
  retained" principle (`services.py:251-255`).
* `routers/verification.py:417`: evidence uploaded while the request is being decided is
  attached after its deletion, and stays.
* `routers/admin.py:161`: between the commit that marks an account and the one that
  deletes its sessions, the session is still there.
* `routers/inbound.py:138-143`: a mail to a ticket whose body is empty, as of one that is
  only a picture, is acknowledged and recorded nowhere: the reviewers never learn that
  the customer answered.
* `routers/campaigns.py:283`: two applications of one owner at once both find none, and
  both are made.
* `services.py:295`: two decisions at once, each on one gate, can both find the other
  gate open and leave the listings without the badge the requests compute; a listing
  added meanwhile copies what was true before.
* `models.py:333-337` speaks of a badge lost when what was judged changes, while
  `routers/platforms.py:194` and `routers/profiles.py:117` revoke only where a badge is
  already shown: an approved first gate survives a renaming that comes before the
  second is decided.
* `account_deactivation.py:73`: a death between the two commits of a cascade leaves one
  identity paused and the other not; the same goes for a ban and for a deletion.
* `routers/admin.py:588` records the address the row has then: a deleted account that
  is banned blocks the placeholder deletion wrote, not the mailbox.
* `src/scripts/expire_suspensions.py:46-55`: the sweep clears what it queried, though
  the suspension was renewed, or made indefinite, meanwhile.
* `routers/support.py:316`: a reply marks the ticket handled although the customer's next
  mail arrived while it was being sent.
* `marketing.py:126-177`: two triggers at once both find the campaign unsent and mail
  every subscriber twice, against its docstring; the module is not modelled.

## 4. Proofs

Every run's safety property but the one that is false (`SettledOnce`) is also a
theorem, for every value of the constants. The proofs of one component share one
inductive invariant, which the runs' instances confirm; a second part is added
where a property needs more. One lemma per effect or action says what it keeps, one
lemma collects them for the next-state relation, and the theorems follow by `PTL`.

Where a property is one that overlapping requests break, the module carries `calm`,
and the proof follows one pattern: while `calm` holds one request is under way, an
invariant says for each stage of it what it has done so far and what it has read,
and that what it has read is still so. `Ordered`, `Storing`, `InTurn` and `Calm` below are
of this kind. The rest of each invariant holds whatever overlaps or dies.

### Deals: `DealProofs`

For every set of PaymentIntents and disputes, every bound on refunds, every terms of
a deal and every set of verified quantities:

* `Invariance`: `Spec => []IInv`, the inductive invariant, and `TypeCorrect`;
* `PaymentSafety`: `Spec => []PaidOnceForVerifiedWork`;
* `LegalMoves`: `Spec => MovesAreLegal`, and `FreezeIsRespected`: `Spec => FreezeHolds`;
* `SpendingIsBounded`: `Spec => []NeverSpendsMoreThanCollected`;
* `GraceIsHonoured`: `Spec => GraceWindowIsHonoured`;
* `EscrowIsKept`: `Spec => KeepsEscrow`, the refinement of `Escrow`;
* `LedgerIsFaithful`: `Spec => []LedgerMirrorsStripe`;
* `AbsorbedLossesAreCounted`: `Spec => []AbsorbedLossIsCounted`.

The assumptions are `TermsAssumption` (amounts are naturals, percentages 0 to 100,
units not zero, a fixed-price deal has no pool), `ChargeAssumption` (the charge is
`total_charge_for` of the terms) and `NoneAssumption` (the null is no id, status or
number); TLC evaluates them in every run.

`PaidOnceForVerifiedWork` is not inductive: that a second payout is impossible
depends on `paid_at` telling the truth about Stripe, and that the payout's
conditions still hold depends on nothing ever unsetting them. `IInv` adds:

* `EventsNameObjects`: a sent event names a PaymentIntent, dispute or refund that
  exists, so handling it is well typed;
* `StampsInOrder`: funded implies that the charge is the recorded PaymentIntent's;
  verified implies funded, evidence and, for a pool, a quantity; paid implies
  verified and the status paid, which nothing leaves;
* `PaidAsTransferred`: `paid_at` is set exactly when Stripe has made a Transfer, and
  then there is one, the row names it, and it was drawn on the deal's charge;
* `FrozenIsMarked`: a frozen deal has its badge, which is what keeps the reviewers
  out, and a status to return to from which the table lets a deal be frozen; a
  dispute marked as lost after the payout belongs to a paid deal.

The money needs `MInv` on top: a deal is funded exactly when its status says so
(`FundedIsStatus`); Transfers and the program's refunds are drawn on the deal's own
charge, only by a paid or a refunded deal, and the two together fit in the charge
(`MoneyFollowsRow`); and inside an open window a deal without new evidence is where
the reviewer sent it, or frozen from there (`StaleDuringGrace`). That a settlement fits
in the charge is arithmetic of `DealMoney`: the net and the refund of a pool add up to
what was charged for it less the platform's part. The same lemmas give each action's
move of `Escrow`, or a stutter.

The ledger needs `LInv`: a row that is there is true (`RowIsTrue`), what happened has its
row (`AllRecorded`), no two rows say the same of the same object (`Distinct`), and a
decided dispute is closed and recorded (`DecidedIsClosed`). `Distinct` rests on the
duplicate check of each `record`, and for a refund, which is known from two places under
two names, on the program making one refund of a deal at most. A refund made after
others on the dashboard is recorded as the whole charge (section 3), so a true row says no
more than what came back of the charge in all. From the three together the properties
follow without counting rows.

`HeldByDispute` carries `AbsorbedLossesAreCounted`, for any number of disputes: as long
as none was won (`NoneWon`), each that was opened before the payout holds the deal until it
is decided (`Holding`), so the owner cannot be paid meanwhile, and each that was lost leaves
the deal refunded for good. One that is won thaws the deal for all of them (section 3),
which is where the property stops.

### Overlapping requests: `RaceProofs`

For every number of workers, requests, PaymentIntents and disputes; each worker may die
at any step:

* `RaceTypes`: `RaceSpec => []RaceTypeOK`;
* `EarnedOnce`: `RaceSpec => []PayoutIsEarnedOnce`, if `ModestFees`;
* `RefundsAreReal`: `RaceSpec => []RefundedMeansReturned`;
* `LedgerIsTrue`: `RaceSpec => []LedgerIsBacked`;
* `PaysOnce`, `RefundIsRemembered`: `RaceSpec => []ChargedOnce` and
  `RaceSpec => []OwnRefundSurvivesCrash`, for one worker;
* `CrashesLeaveOneIntent`: `RaceSpec => []PaidOneIntent`, for one worker.

`RInv` cannot say that the row a worker read is the row, since it is not. It says what
survives: `RowGood` holds of the row and of every copy a worker holds, and is made of
facts that no step undoes (`Grows`: what Stripe has done, the stamps, the evidence);
`CallGood` adds what a worker has checked and the object its own call made; `OwnIntents`
that no two hold the same new PaymentIntent; `StripeGood` what Stripe
allows; `AllBacked` that each row of the ledger has its object; and `OneTransferACharge`
that a charge which paid a fixed price once has not enough left to pay it again.

The hypotheses are the code's limits, and both are needed. `ModestFees` (twice the
seller's percentage and the buyer's are below 100; `config.py` has 10 and 5) makes the
fixed net more than half of the charge, which is all that stops a second release that
was checked before the first was committed. Both properties name `PaidOneIntent` where they
need it: two overlapping fund requests offer two PaymentIntents (section 3), and if the
business pays both, Stripe pays out of each, or gives back the one that is not on the row.
What they say without it (each Transfer was earned, a refunded deal had a payment given
back) is proved without it. `CrashesLeaveOneIntent` proves the premise where requests do
not overlap. `LedgerIsTrue` needs no hypothesis: whatever row a settlement had read, what it
records as returned is what Stripe was asked to return, and Stripe did. `OneWorker` is
the setting of `MCRace_crash`:
two workers fund twice, and an event handled between a refund and its commit records it
twice. `SInv` says for that worker that the copy it read is the row, but for what its own
first commit wrote, that only the PaymentIntent on the row can be paid, and that the
charge of a funded deal has its one row. That all this is inductive uses that Stripe
refunds nothing that was not paid (`CanRefund`).

### Affiliate programs: `ProgramProofs`

For every set of owners, orders, top-ups and handlers, every terms and amounts:

* `ProgramInvariance`: `Spec => []IInv`, and `ProgramTypes`: `Spec => []TypeOK`;
* `EachOrderOnce`: `Spec => []EachOrderCountsOnce`;
* `DecisionsStay`: `Spec => DecidedSalesStayDecided`;
* `MoneyInSettlement`: `Spec => MoneyLeavesInSettlement`;
* `OwnersOnce`: `Spec => []OwnersPaidOnce`;
* `PenniesAreKept`: `WalkSpec => []SplitsLoseNoPenny`, about `Settlement`, for all terms
  that `SettlementAssumption` types (fees are percentages, a price is for a quantity, a
  program has an owner).

They rest on `ProgramAssumption` (terms and amounts are naturals, the hosts are the
code's, the null is none of the values) and `TopUpsPayFees`. That an order counts once
unless it is in `raced` needs `ChecksAreNew`: the order a handler is about to add is still
new, and nobody else is about to add it (`IsNew`), or it is in `raced`, because a handler that
finds it unknown while another one has checked it puts it there. A hook that is a
coroutine lets nobody else run between its check and its commit (`LoopIsFree`).
`HostIsChosenOnce` says that a program has no host before it is live and keeps the one it
chose, unless its funding was committed twice. That money leaves in time needs
`SettlesInTime`, that while a settlement is in progress nothing moves the program out of
`live`, and so `FundingIsOver`: once the holding period is over, no confirmation of the funding
is in hand that could.

The amounts are sums over sets of sales and recursive functions over the list of
owners. The library states induction with an operator as parameter; here it is derived
once more for sets (`LeastOf`, `Induct`, `SetInduct`, from the well-foundedness of `<` on the
naturals), and with it what `MapThenSumSet` and the two recursive functions of
`AffiliateSettlementFor` come to for every length: the sum of a set is that of the set
less an element and the element (`SumStep`), the functions exist and unfold
(`RecursionExists`, `EarnedUnfolds`, `LeftUnfolds`), nobody is due more than was earned, and all
together no more than the net of what is used (`SettlementFacts`).

`OwnersOnce` needs `OInv` on top of the types (`TInv`: the table has room for every sale about
to be added). As long as no settlement died: before one begins nothing has left
(`NothingYet`); while one pays, those still on its list have no Transfer (`DueIsUnpaid`), are
owed no more than the sales it read earned (`DueIsEarned`), and what has been drawn, what is
still due and the refund were collected (`DueIsPaidFor`); an owner has one Transfer and no
more on the record than was decided (`PaidOnce`). Unless a payment was counted twice, the
budget on the row, and the one a confirmation read of it, is that of the terms plus some of
the paid top-ups (`PaidPool`, kept by `BudgetGrows`); some, because two confirmations that
overlap may lose one. And the fee is rounded at each payment but once for
the whole budget when the refund is reckoned: `FeesOfParts` and `RefundIsPaidFor` bound the
difference. Without `TopUpsPayFees` (a top-up's fee is a penny at least, unless there is no
fee; `MIN_TOPUP_AMOUNT` in `routers/affiliate.py:72` sees to it) the bound is false: at 1 per
cent, a budget of 99 topped up by 1 collects 100 and is refunded 99 when 2 are used.

`PenniesAreKept`: for a pool the three parts add up by cancellation, and none is negative
because the fee grows with the amount. For a program, let the shares be rounded down one
by one and the net be taken of each. The shares of everything earned miss the capped pool
by less than a penny an owner (`ShareIsClose`, `SharesAddUp`, `WithinAPenny`); the net of a whole is
no more than the nets of its parts (`NetsAdd`), so what the clamp leaves is no more than the
net of what the shares miss (`NetGrowsLess`), which is what `SlackIsPennies` says.

### Payouts: `PayoutProofs`

For every set of deals, accounts and requests handled at a time, every amount and every
bound:

* `PayoutInvariance`: `Spec => []IInv`, and `PayoutTypes`: `Spec => []TypeOK`;
* `ReleaseAudited`: `Spec => []ReleaseIsAudited`;
* `InstantBacked`: `Spec => []InstantIsBacked`;
* `TroubleTold`: `Spec => []TroubleIsTold`.

They rest on `PayoutAssumption` (what a deal earns is positive, the bounds are
naturals, the null is no id). `Fits` says what a request holds at each step: a
Transfer that exists, and at `RecordInstant` a payout of that deal in that amount;
it survives what others do because Transfers and payouts are only appended and
their deal and amount never change. `Audits` says that while nothing has died, a
deal with a Transfer is in the audit log or some request is `OnItsWay` there, which
is what an early end of the attempt would break. `Calm` says that as long as nothing
overlapped there is one request at most, so what it read is still so when it writes:
the account it found missing, the deal without an instant payout. `Telling` adds that
balances and payouts are of accounts that have a row (`InRows`), or a failed payout would
have nobody to be told; that a failure handled or acknowledged was told
(`FailuresTold`); and for reversals, while all is calm, that a Transfer is on its deal but
for the one request about to put it there (`TransfersOnDeals`) and each event is told
once, when it arrives (`ToldInTurn`).

### Listings, campaigns and files: `MarketProofs`

For every set of owners, listings, campaigns, files and requests handled at a time:

* `MarketInvariance`: `Spec => []IInv`, and `MarketTypes`: `Spec => []TypeOK`;
* `SourcesKept`: `Spec => DealsKeepTheirSource`;
* `WithdrawnUnfunded`: `Spec => []WithdrawnStaysUnfunded`;
* `StoreFollowsRows`: `Spec => []StoreMatchesRows`.

They rest on `MarketAssumption`. `SourcesExist` says that whatever a deal references is
there. It survives an owner's removal, which counted no deals, because `Complete` says
that such a request has nothing to detach, and `Deletable`, the foreign keys, then
refuses a row that some deal references by now; an admin's removal detaches all it
knew of in the same commit and is refused as well if there are more. `Withdrawals` says
that a withdrawn source which a deal references is archived for good and, while all is
calm, that the deal is neither funded nor about to be: the check before the payment
finds the archived row. `Storing` says that each file is named by one row and that the
store, less the files that were given up or would not be deleted (`Held`), differs from what
the rows name by what the one request under way has done (`StoreAt`, by stage: the file, its
cover, the row), and `Fresh` that what this request has read still is so.

### Verification: `BadgeProofs`

For every set of listings, requests for verification, files and calls handled at a
time:

* `BadgeInvariance`, and `BadgeTypes`: `Spec => []TypeOK`;
* `BadgeFollowsGates`: `Spec => []BadgeMatchesGates`;
* `EvidenceIsWiped`: `Spec => []EvidenceOnlyWhilePending`.

`Ordered` says of the one call under way: each gate has one request waiting at most
(`OneDecision`) and no file is named twice (`NamedOnce`); every listing shows what the
requests compute (`Shown`); the store, less what it would not delete (`Held`), holds the
files of waiting requests, but for the one being decided, whose files go before its commit, and the one being attached, whose
file comes before (`Kept`); and what the call has read, the other gate above all, is still
so (`Read`).

### Accounts: `AccountProofs`

For every number of rows of the mailbox, listings, requests handled at a time and deaths:

* `AccountInvariance`: `Spec => []IInv`, and `AccountTypes`: `Spec => []TypeOK`;
* `HoldsKept`: `Spec => HoldsAreKeptApart`;
* `AccountOrder`, and from it `PairTogether`: `Spec => []PairMovesTogether`,
  `SessionsRevoked`: `Spec => []RevokedEverywhere`, and `MailboxIsOnePerson`:
  `Spec => []OnePersonPerMailbox`.

They rest on `AccountAssumption`. `HoldsOwned` says that a listing with its owner's hold
belongs to a row that exists and is paused. It is not inductive by itself: a sign-up
writes a row anew, and would end a pause without showing the listings if that row were
somebody's. `PeopleOK` says it never is (rows are numbered in the order they are made,
so the first two free numbers are free, and a row nobody made is not paused and linked to
by none), and `Known` that a request resumes with a row that exists. The second sign-up
row has a number at all because there was room for it, which is counted with the
library's theorems on finite sets.

`Ordered` is the invariant of one request after the other: the live rows are one person's
(`OnePerson`); its two identities are alike but for the one commit of two that the request
under way has yet to make (`Together`); whoever has a session may have one, but for the
row whose sessions go in the next commit (`SignedIn`); and each stage knows what the one
before it wrote (`Progress`).

### Support desk: `DeskProofs`

For every set of tickets, disputes, reviewers and mails:

* `DeskInvariance`: `Spec => []IInv`, and `DeskTypes`: `Spec => []TypeOK`;
* `ClaimsExclude`: `Spec => ClaimsAreExclusive`;
* `RecordedIsSent`: `Spec => []RecordedMeansSent`;
* `LastWordHeeded`: `Spec => []LastWordDecides`.

They rest on `DeskAssumption`. A request about to commit another owner is the transfer
of a ticket, and nothing else takes a case from the one who has it: `Complete` says so
of every request. `SentFirst` counts: the mails the provider took of a ticket are at
least the answers on its timeline and the requests that mailed one and have not recorded
it yet, and the messages of its thread with those on their way there are at most the
answers. `InTurn` says, while one request or mail is handled at a time, that the flag
follows the last word (`LastWords`), what was read of it is still so (`ReadIsSo`), there is one
support account and one thread of it and a member (`OneAccount`), and a member's answers
are in it but for the one on its way (`Copied`).

### Only model-checked

The liveness properties `PaymentFundsDeal`, `FreezeEndsInTime`, `SuspensionEnds` and
`MailArrives`: the prover has no rule for fairness that it could apply here. `SettledOnce`,
of the run that ends in a counterexample, is false. `EarnedOnce` and the
theorems for one worker have the hypotheses named above; what `PayoutIsEarnedOnce` says of pools
under overlap is that each Transfer was earned, and no theorem says there is one.

## 5. Not modelled

* Hashing, cookies, CSRF tokens, signatures, the challenge at sign-up, permissions,
  validation and serialisation: a handler is modelled from the point where the caller
  was admitted. The per-admin payout limit refuses a payout and changes nothing.
* Rate limiting: a counter in memory; nothing rests on it.
* Mail texts, notifications and marketing. A mail that fails is modelled where its
  outcome decides something, in `Desk`.
* The audit log, apart from its commit where that splits a handler and from
  `ReleaseIsAudited`.
* The content of evidence, notes and messages; messages, reviews and notifications are
  rows written once and read back.
* The mirrored status of a connected account, which decides nothing, onboarding links,
  debit cards and fees of instant payouts.
* Of affiliate programs: more than one `/refresh` beside the webhook; two fund requests at once, which orphan a paid PaymentIntent as
  two of a deal's do; two settlements at once; the program's ledger rows; the second
  code of an owner who applied twice at once.
* Of the admin console: roles and the last Super-Admin, listings, exports, risk flags
  and bulk commands, which repeat single ones.
* Schema migrations, generated files, and the front end, whose requests are among those
  of the modelled handlers.

## 6. Plan

Done, in this order: `DealState`, `Money`, `Stripe`, `DealRow`, `Deal`, `Escrow`,
`DealProperties`, `DealRace`, `Settlement`, `DealProofs`, `Program`,
`ProgramProperties`, `ProgramProofs`, `Account`, `AccountProperties`, `AccountProofs`,
`Badge`, `Market`, `MarketProofs`, `Desk`, `DeskProofs`, `Payout`, `PayoutProofs`,
`RaceProofs`, `BadgeProofs`; then the money, the ledger and the refinement in
`DealProofs`, the properties of one request after the other in the proofs of the
newer modules, and the sums and settlements in `ProgramProofs`.

Theorems to come: that a Transfer made by an overlapping settlement is one the verified
quantity earned; for `Payout`, the parts of `InstantIsBacked` and `TroubleIsTold`
that hold without `calm`, stated apart; that the steps of `DealRace` taken one after the
other are those of `Deal`.

Models to come, should the code grow there: the marketing campaigns, whose triggers
may overlap, and the roles of admins with the rule of the last Super-Admin.

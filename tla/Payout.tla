------------------------------- MODULE Payout -------------------------------
(***************************************************************************)
(* From a released deal to the owner's bank: the owner's connected account *)
(* at Stripe, the Transfer into its balance, the instant payout out of it  *)
(* if the owner wants one, and the events that tell of a payout that       *)
(* failed or a Transfer that was reversed.                                 *)
(*                                                                         *)
(* There is one owner, and every deal is funded and verified; module       *)
(* DealRace has what comes before.  The row of an account mirrors what     *)
(* Stripe says of it, but only a value just read decides anything, so the  *)
(* mirror is left out, and with it the pages that only show it; so is the  *)
(* fee Stripe keeps of an instant payout, and the event of a payout that   *)
(* arrived, which only goes to the audit log.                              *)
(*                                                                         *)
(* The requests are threads, split at their commits and at each call of    *)
(* Stripe.  The webhook is a coroutine that awaits nothing between the     *)
(* body and its answer: one event at most is being handled.                *)
(***************************************************************************)
EXTENDS Integers, Sequences, FiniteSets

CONSTANTS
    Deals,          \* the owner's deals
    Net(_),         \* what the owner earns of a deal
    Accounts,       \* accounts at Stripe
    Handlers,       \* requests handled at a time
    None,
    MaxCalls,       \* bound on the requests that have several steps
    MaxPayouts,     \* bound on the payouts
    MaxDeaths       \* bound on the handlers that die half way

VARIABLES
    rows,           \* accounts with a connected_accounts row
    opted,          \* accounts whose owner wants to be paid instantly
    deals,          \* deal -> its Transfer and its instant payout, once recorded
    audited,        \* deals whose release is in the audit log
    told,           \* event -> how often the people concerned were told
    processed,      \* events acknowledged
    stripe,         \* account -> what Stripe holds of it
    transfers,      \* the Transfers made
    payouts,        \* the payouts made
    jobs,           \* handler -> what is left of its request
    hook,           \* the event being handled
    calls, deaths,
    calm            \* (history) nothing overlapped or died

ownVars == <<rows, opted, deals, audited, told, processed>>
stripeVars == <<stripe, transfers, payouts>>
vars == <<ownVars, stripeVars, jobs, hook, calls, deaths, calm>>

AccountState == [opened: BOOLEAN, active: BOOLEAN, balance: Nat]
DealRow == [transfer: {None} \cup Nat, instant: {None} \cup Nat, net: Nat]
PayoutRow == [account: Accounts, deal: {None} \cup Deals, amount: Nat,
              failed: BOOLEAN]
Event == [type: {"payout.failed"}, of: 1..MaxPayouts]
             \cup [type: {"transfer.reversed"}, of: 1..Cardinality(Deals)]

ASSUME PayoutAssumption ==
    /\ \A d \in Deals : Net(d) \in Nat \ {0}
    /\ MaxCalls \in Nat /\ MaxPayouts \in Nat /\ MaxDeaths \in Nat
    /\ None \notin Deals \cup Accounts \cup Nat \cup Event

Job == [at: {"idle", "opening", "transferring", "paying", "checking", "sending",
             "recording", "auditing"},
        deal: {None} \cup Deals, account: {None} \cup Accounts, release: BOOLEAN,
        ref: Nat, amount: Nat]

TypeOK ==
    /\ rows \subseteq Accounts /\ opted \subseteq Accounts
    /\ deals \in [Deals -> DealRow]
    /\ audited \subseteq Deals
    /\ told \in [Event -> Nat] /\ processed \subseteq Event
    /\ stripe \in [Accounts -> AccountState]
    /\ transfers \in Seq([deal: Deals, account: Accounts, reversed: BOOLEAN])
    /\ payouts \in Seq(PayoutRow)
    /\ jobs \in [Handlers -> Job]
    /\ hook \in {None} \cup Event
    /\ calls \in 0..MaxCalls /\ deaths \in 0..MaxDeaths /\ calm \in BOOLEAN

NoJob == [at |-> "idle", deal |-> None, account |-> None, release |-> FALSE,
          ref |-> 0, amount |-> 0]

(***************************************************************************)
(* A request arrives, goes on, or ends.                                    *)
(***************************************************************************)
Arrive(h, job) ==
    /\ jobs[h] = NoJob /\ calls < MaxCalls
    /\ calls' = calls + 1
    /\ jobs' = [jobs EXCEPT ![h] = job]
    /\ calm' = (calm /\ hook = None /\ \A other \in Handlers \ {h} : jobs[other] = NoJob)
    /\ UNCHANGED <<hook, deaths>>

GoOn(h, job) ==
    /\ jobs' = [jobs EXCEPT ![h] = job]
    /\ UNCHANGED <<hook, calls, deaths, calm>>

\* Mutant of AfterInstant: a refused payout ends the release.
EndsWithRefusal(h) ==
    IF jobs[h].release /\ jobs[h].at # "sending" THEN [jobs[h] EXCEPT !.at = "auditing"] ELSE NoJob

\* Where a release goes on once nothing is left to be done about the instant
\* payout, however that went; a request for one ends.
AfterInstant(h) == IF jobs[h].release THEN [jobs[h] EXCEPT !.at = "auditing"] ELSE NoJob

(***************************************************************************)
(* The owner's account.  Of two rows, a query without an order may find    *)
(* either.                                                                 *)
(***************************************************************************)
CreateAccount(h) ==
    /\ rows = {}
    /\ Arrive(h, [NoJob EXCEPT !.at = "opening"])
    /\ UNCHANGED <<ownVars, stripeVars>>

InsertAccount(h) ==
    /\ jobs[h].at = "opening"
    /\ \E a \in Accounts :
          /\ ~stripe[a].opened
          /\ stripe' = [stripe EXCEPT ![a].opened = TRUE]
          /\ rows' = rows \cup {a}
    /\ GoOn(h, NoJob)
    /\ UNCHANGED <<opted, deals, audited, told, processed, transfers, payouts>>

SetInstantPreference(a) ==
    /\ a \in rows
    /\ opted' \in {opted \cup {a}, opted \ {a}}
    /\ UNCHANGED <<rows, deals, audited, told, processed, stripeVars, jobs, hook, calls,
                   deaths, calm>>

(***************************************************************************)
(* The release: the Transfer, its record, the instant payout if the owner  *)
(* wants one, the audit log.                                               *)
(***************************************************************************)
Release(h, d, a) ==
    /\ deals[d].transfer = None /\ a \in rows
    /\ Arrive(h, IF stripe[a].active
                 THEN [NoJob EXCEPT !.at = "transferring", !.deal = d, !.account = a,
                                    !.release = TRUE]
                 ELSE NoJob)
    /\ UNCHANGED <<ownVars, stripeVars>>

\* Stripe does not draw twice what the deal's charge covers once.
TransferRefused(job) ==
    \/ ~stripe[job.account].active
    \/ \E n \in DOMAIN transfers : transfers[n].deal = job.deal

MakeTransfer(h) ==
    LET job == jobs[h]
    IN  /\ job.at = "transferring"
        /\ IF TransferRefused(job)
           THEN GoOn(h, NoJob) /\ UNCHANGED <<stripe, transfers>>
           ELSE /\ transfers' = Append(transfers, [deal |-> job.deal, account |-> job.account,
                                                   reversed |-> FALSE])
                /\ stripe' = [stripe EXCEPT ![job.account].balance = @ + Net(job.deal)]
                /\ GoOn(h, [job EXCEPT !.at = "paying", !.ref = Len(transfers')])
        /\ UNCHANGED <<ownVars, payouts>>

CommitPaid(h) ==
    LET job == jobs[h]
    IN  /\ job.at = "paying"
        /\ deals' = [deals EXCEPT ![job.deal].transfer = job.ref]
        /\ GoOn(h, [job EXCEPT !.at = IF job.account \in opted THEN "checking" ELSE "auditing"])
        /\ UNCHANGED <<rows, opted, audited, told, processed, stripeVars>>

RequestInstant(h, d, a) ==
    /\ deals[d].transfer # None /\ deals[d].instant = None /\ a \in rows
    /\ Arrive(h, [NoJob EXCEPT !.at = "checking", !.deal = d, !.account = a])
    /\ UNCHANGED <<ownVars, stripeVars>>

\* Everything in the balance goes, what other deals brought included.  Stripe
\* may hold it back, or the owner may have no card for it.
CheckInstant(h) ==
    LET job == jobs[h]
    IN  /\ job.at = "checking"
        /\ \/ /\ stripe[job.account].balance > 0
              /\ GoOn(h, [job EXCEPT !.at = "sending", !.amount = stripe[job.account].balance])
           \/ GoOn(h, AfterInstant(h))
        /\ UNCHANGED <<ownVars, stripeVars>>

PayOut(account, deal, amount) ==
    /\ Len(payouts) < MaxPayouts /\ stripe[account].balance >= amount
    /\ payouts' = Append(payouts, [account |-> account, deal |-> deal, amount |-> amount,
                                   failed |-> FALSE])
    /\ stripe' = [stripe EXCEPT ![account].balance = @ - amount]

\* Mutant of SendInstant: what is refused is recorded all the same.
SendInstantBlindly(h) ==
    LET job == jobs[h]
    IN  /\ job.at = "sending"
        /\ PayOut(job.account, job.deal, job.amount) \/ UNCHANGED <<stripe, payouts>>
        /\ GoOn(h, [job EXCEPT !.at = "recording", !.ref = Len(payouts')])
        /\ UNCHANGED <<ownVars, transfers>>

\* Stripe may refuse for reasons of its own.
SendInstant(h) ==
    LET job == jobs[h]
    IN  /\ job.at = "sending"
        /\ \/ /\ PayOut(job.account, job.deal, job.amount)
              /\ GoOn(h, [job EXCEPT !.at = "recording", !.ref = Len(payouts')])
           \/ /\ GoOn(h, AfterInstant(h))
              /\ UNCHANGED <<stripe, payouts>>
        /\ UNCHANGED <<ownVars, transfers>>

RecordInstant(h) ==
    LET job == jobs[h]
    IN  /\ job.at = "recording"
        /\ deals' = [deals EXCEPT ![job.deal].instant = job.ref, ![job.deal].net = job.amount]
        /\ GoOn(h, AfterInstant(h))
        /\ UNCHANGED <<rows, opted, audited, told, processed, stripeVars>>

AuditRelease(h) ==
    /\ jobs[h].at = "auditing"
    /\ audited' = audited \cup {jobs[h].deal}
    /\ GoOn(h, NoJob)
    /\ UNCHANGED <<rows, opted, deals, told, processed, stripeVars>>
(***************************************************************************)
(* At Stripe: the account is enabled; the balance is paid out on schedule; *)
(* a payout fails, even after it was said to have arrived; a Transfer is   *)
(* reversed.                                                               *)
(***************************************************************************)
Aside == UNCHANGED <<ownVars, jobs, hook, calls, deaths, calm>>

Onboarding(a) ==
    /\ stripe[a].opened /\ ~stripe[a].active
    /\ stripe' = [stripe EXCEPT ![a].active = TRUE]
    /\ UNCHANGED <<transfers, payouts>> /\ Aside

ScheduledPayout(a) ==
    /\ stripe[a].balance > 0
    /\ PayOut(a, None, stripe[a].balance)
    /\ UNCHANGED transfers /\ Aside

PayoutFails(p) ==
    /\ ~payouts[p].failed
    /\ payouts' = [payouts EXCEPT ![p].failed = TRUE]
    /\ stripe' = [stripe EXCEPT ![payouts[p].account].balance = @ + payouts[p].amount]
    /\ UNCHANGED transfers /\ Aside

TransferReversed(n) ==
    LET t == transfers[n]
    IN  /\ ~t.reversed /\ stripe[t.account].balance >= Net(t.deal)
        /\ transfers' = [transfers EXCEPT ![n].reversed = TRUE]
        /\ stripe' = [stripe EXCEPT ![t.account].balance = @ - Net(t.deal)]
        /\ UNCHANGED payouts /\ Aside

Sent(e) ==
    \/ e.type = "payout.failed" /\ e.of \in DOMAIN payouts /\ payouts[e.of].failed
    \/ e.type = "transfer.reversed" /\ e.of \in DOMAIN transfers /\ transfers[e.of].reversed

(***************************************************************************)
(* The webhook.  What the event is about is told in one commit, and the    *)
(* event marked as processed in the next.                                  *)
(***************************************************************************)
Concerned(e) ==
    \/ e.type = "payout.failed" /\ payouts[e.of].account \in rows
    \/ e.type = "transfer.reversed" /\ \E d \in Deals : deals[d].transfer = e.of

Tell(e) == told' = IF Concerned(e) THEN [told EXCEPT ![e] = @ + 1] ELSE told

\* Mutant of HandleEvent: only the payouts the program asked for are looked at.
HandleOwnPayouts(e) ==
    /\ Sent(e) /\ e \notin processed /\ hook = None
    /\ IF e.type = "payout.failed" /\ payouts[e.of].deal = None THEN UNCHANGED told ELSE Tell(e)
    /\ hook' = e
    /\ calm' = (calm /\ \A h \in Handlers : jobs[h] = NoJob)
    /\ UNCHANGED <<rows, opted, deals, audited, processed, stripeVars, jobs, calls, deaths>>

HandleEvent(e) ==
    /\ Sent(e) /\ e \notin processed /\ hook = None
    /\ Tell(e)
    /\ hook' = e
    /\ calm' = (calm /\ \A h \in Handlers : jobs[h] = NoJob)
    /\ UNCHANGED <<rows, opted, deals, audited, processed, stripeVars, jobs, calls, deaths>>

MarkProcessed ==
    /\ hook # None
    /\ processed' = processed \cup {hook}
    /\ hook' = None
    /\ UNCHANGED <<rows, opted, deals, audited, told, stripeVars, jobs, calls, deaths, calm>>

Die(h) ==
    /\ jobs[h] # NoJob /\ deaths < MaxDeaths
    /\ jobs' = [jobs EXCEPT ![h] = NoJob]
    /\ deaths' = deaths + 1 /\ calm' = FALSE
    /\ UNCHANGED <<ownVars, stripeVars, hook, calls>>

HookDies ==
    /\ hook # None /\ deaths < MaxDeaths
    /\ hook' = None
    /\ deaths' = deaths + 1 /\ calm' = FALSE
    /\ UNCHANGED <<ownVars, stripeVars, jobs, calls>>

(***************************************************************************)
(* The specification.                                                      *)
(***************************************************************************)
Init ==
    /\ rows = {} /\ opted = {} /\ audited = {} /\ processed = {}
    /\ deals = [d \in Deals |-> [transfer |-> None, instant |-> None, net |-> 0]]
    /\ told = [e \in Event |-> 0]
    /\ stripe = [a \in Accounts |->
                    [opened |-> FALSE, active |-> FALSE, balance |-> 0]]
    /\ transfers = <<>> /\ payouts = <<>>
    /\ jobs = [h \in Handlers |-> NoJob] /\ hook = None
    /\ calls = 0 /\ deaths = 0 /\ calm = TRUE

Resume(h) ==
    \/ InsertAccount(h) \/ MakeTransfer(h) \/ CommitPaid(h) \/ CheckInstant(h)
    \/ SendInstant(h) \/ RecordInstant(h) \/ AuditRelease(h)

AtStripe ==
    \/ \E a \in Accounts : Onboarding(a) \/ ScheduledPayout(a)
    \/ \E p \in DOMAIN payouts : PayoutFails(p)
    \/ \E n \in DOMAIN transfers : TransferReversed(n)

Next ==
    \/ \E h \in Handlers :
          \/ CreateAccount(h)
          \/ \E a \in Accounts, d \in Deals : Release(h, d, a) \/ RequestInstant(h, d, a)
          \/ Resume(h) \/ Die(h)
    \/ \E a \in Accounts : SetInstantPreference(a)
    \/ \E e \in Event : HandleEvent(e)
    \/ MarkProcessed \/ HookDies \/ AtStripe

Spec == Init /\ [][Next]_vars

(***************************************************************************)
(* What it promises.                                                       *)
(***************************************************************************)
Idle == hook = None /\ \A h \in Handlers : jobs[h] = NoJob

\* However requests overlap or die, a deal that says it was paid out instantly
\* names a payout Stripe made for it, in that amount, after its Transfer.  One
\* after the other, each payout the program asked for is on its deal, the one
\* deal it was asked for, and there is one account.  (try_instant_payout,
\* create_account)
InstantIsBacked ==
    /\ \A d \in Deals : deals[d].instant # None =>
          /\ deals[d].transfer \in DOMAIN transfers
          /\ deals[d].instant \in DOMAIN payouts
          /\ payouts[deals[d].instant].deal = d
          /\ payouts[deals[d].instant].amount = deals[d].net
    /\ calm /\ Idle =>
          /\ \A p \in DOMAIN payouts :
                payouts[p].deal # None => deals[payouts[p].deal].instant = p
          /\ Cardinality(rows) <= 1

\* No event of a payout to the bank that failed, whoever asked for it, is
\* acknowledged before the owner and the admins were told, and none of the
\* reversal of a Transfer either, unless it overtook the commit of the
\* Transfer; they are told once unless a handler died in between.
\* (handle_payout_event, handle_transfer_reversed)
TroubleIsTold ==
    /\ \A e \in processed : e.type = "payout.failed" \/ calm => told[e] > 0
    /\ calm => \A e \in Event : told[e] <= 1

\* However the instant payout goes that a release tries, the release ends in
\* the audit log unless a handler died: the attempt "can never break the main
\* payout-release flow".  (release_payout, try_instant_payout)
ReleaseIsAudited ==
    Idle /\ deaths = 0 => \A d \in Deals : deals[d].transfer # None => d \in audited
=============================================================================

---------------------------- MODULE PayoutProofs ----------------------------
(***************************************************************************)
(* What module Payout promises of instant payouts, of the audit log and of *)
(* the events that tell of trouble, for every number of deals, accounts,   *)
(* requests, payouts and deaths.                                           *)
(*                                                                         *)
(* The deals' rows only ever gain Transfers and payouts that exist, and    *)
(* the requests at each stage hold what the stage needs (Fits).  As long   *)
(* as nothing overlaps, one request at most is under way, so what it read  *)
(* when it arrived is still so when it writes (Calm).  As long as nothing  *)
(* dies, a released deal that is not in the audit log yet has a request    *)
(* that is on its way there (OnItsWay).                                    *)
(*                                                                         *)
(* An event always finds whom to tell: money only reaches accounts with a  *)
(* row (InRows), and while all is calm every Transfer is on its deal when  *)
(* the event of its reversal arrives (TransfersOnDeals, ToldInTurn).       *)
(***************************************************************************)
EXTENDS Payout, FiniteSetTheorems, TLAPS

\* What a request holds, of the deals, Transfers and payouts ds, ts and ps.
Fits(job, ds, ts, ps) ==
    /\ job \in Job
    /\ job.at \notin {"idle", "opening"} => job.deal \in Deals
    /\ job.at \notin {"idle", "opening", "auditing"} => job.account \in Accounts
    /\ job.at \in {"transferring", "paying", "auditing"} => job.release
    /\ job.at = "paying" => job.ref \in DOMAIN ts
    /\ job.at \in {"checking", "sending", "recording", "auditing"} =>
          ds[job.deal].transfer \in DOMAIN ts
    /\ job.at = "recording" =>
          /\ job.ref \in DOMAIN ps
          /\ ps[job.ref].deal = job.deal /\ ps[job.ref].amount = job.amount

TransfersExist ==
    \A d \in Deals : deals[d].transfer # None => deals[d].transfer \in DOMAIN transfers

Backed ==
    \A d \in Deals : deals[d].instant # None =>
        /\ deals[d].transfer \in DOMAIN transfers
        /\ deals[d].instant \in DOMAIN payouts
        /\ payouts[deals[d].instant].deal = d
        /\ payouts[deals[d].instant].amount = deals[d].net

OnItsWay(d) ==
    \E h \in Handlers : /\ jobs[h].release /\ jobs[h].deal = d
                        /\ jobs[h].at \in {"checking", "sending", "recording", "auditing"}

Audits ==
    deaths = 0 => \A d \in Deals : deals[d].transfer # None => d \in audited \/ OnItsWay(d)

\* At most one request, one account, and no instant payout of the request's deal.
OneJob == \A g, h \in Handlers : jobs[g].at # "idle" /\ jobs[h].at # "idle" => g = h
OneRow ==
    /\ \A a, b \in rows : a = b
    /\ \A h \in Handlers : jobs[h].at = "opening" => rows = {}
FreshInstant ==
    \A h \in Handlers : jobs[h].at \notin {"idle", "opening", "auditing"} =>
        deals[jobs[h].deal].instant = None
PayoutsAreOnDeals ==
    \A p \in DOMAIN payouts : payouts[p].deal # None =>
        \/ deals[payouts[p].deal].instant = p
        \/ \E h \in Handlers : jobs[h].at = "recording" /\ jobs[h].ref = p
Calm == calm => OneJob /\ OneRow /\ FreshInstant /\ PayoutsAreOnDeals

IInv ==
    /\ TypeOK /\ TransfersExist /\ Backed /\ Audits /\ Calm
    /\ \A h \in Handlers : Fits(jobs[h], deals, transfers, payouts)

-----------------------------------------------------------------------------
LEMMA NoJobFits == \A ds, ts, ps : Fits(NoJob, ds, ts, ps) /\ NoJob.at = "idle"
  BY DEF Fits, NoJob, Job

\* The first state.
LEMMA InitGood == Init => IInv
<1> SUFFICES ASSUME Init PROVE IInv
  OBVIOUS
<1>1. \A h \in Handlers : jobs[h] = NoJob /\ jobs[h] \in Job
  BY NoJobFits DEF Init, Fits
<1>2. jobs \in [Handlers -> Job]
  BY <1>1 DEF Init
<1>3. \A d \in Deals : deals[d].transfer = None /\ deals[d].instant = None
  BY DEF Init
<1>4. TypeOK
  <2>1. deals \in [Deals -> DealRow] /\ stripe \in [Accounts -> AccountState]
    BY DEF Init, DealRow, AccountState
  <2>2. transfers \in Seq([deal: Deals, account: Accounts, reversed: BOOLEAN])
    BY DEF Init
  <2>3. payouts \in Seq(PayoutRow)
    BY DEF Init
  <2>4. told \in [Event -> Nat] /\ calls \in 0..MaxCalls /\ deaths \in 0..MaxDeaths
    BY PayoutAssumption DEF Init
  <2> QED
    BY <1>2, <2>1, <2>2, <2>3, <2>4 DEF Init, TypeOK
<1>5. DOMAIN payouts = {}
  BY DEF Init
<1>6. Calm
  BY <1>1, <1>5, NoJobFits DEF Init, Calm, OneJob, OneRow, FreshInstant, PayoutsAreOnDeals
<1>7. TransfersExist /\ Backed /\ Audits
  BY <1>3 DEF TransfersExist, Backed, Audits
<1> QED
  BY <1>1, <1>4, <1>6, <1>7, NoJobFits DEF IInv

\* The rows, Transfers and payouts only grow.
Grows(ds, ts, ps) ==
    /\ DOMAIN transfers \subseteq DOMAIN ts
    /\ \A d \in Deals : ds[d].transfer \in {deals[d].transfer} \cup DOMAIN ts
    /\ \A p \in DOMAIN payouts :
          p \in DOMAIN ps /\ ps[p].deal = payouts[p].deal /\ ps[p].amount = payouts[p].amount

LEMMA FitsStays ==
    ASSUME NEW job, NEW ds, NEW ts, NEW ps,
           Fits(job, deals, transfers, payouts), Grows(ds, ts, ps)
    PROVE  Fits(job, ds, ts, ps)
  BY DEF Fits, Grows

\* Of a request that is replaced by another one, both fit.
LEMMA JobsFit ==
    ASSUME IInv, NEW h \in Handlers, NEW job, jobs' = [jobs EXCEPT ![h] = job],
           Fits(job, deals', transfers', payouts'), Grows(deals', transfers', payouts')
    PROVE  /\ jobs' \in [Handlers -> Job]
           /\ \A i \in Handlers : Fits(jobs'[i], deals', transfers', payouts')
<1>1. job \in Job /\ jobs \in [Handlers -> Job]
  BY DEF Fits, IInv, TypeOK
<1>2. \A i \in Handlers : Fits(jobs[i], deals', transfers', payouts')
  BY FitsStays DEF IInv
<1> QED
  BY <1>1, <1>2

LEMMA SameGrows ==
    ASSUME UNCHANGED <<deals, transfers, payouts>>
    PROVE  Grows(deals', transfers', payouts')
  BY DEF Grows

-----------------------------------------------------------------------------
\* No request but this one is under way.
Alone(h) == \A i \in Handlers : i # h => jobs[i].at = "idle"

LEMMA ArriveAlone ==
    ASSUME IInv, NEW h \in Handlers, NEW job, Arrive(h, job)
    PROVE  /\ jobs[h].at = "idle" /\ jobs' = [jobs EXCEPT ![h] = job]
           /\ calls' \in 0..MaxCalls /\ deaths' = deaths /\ hook' = hook
           /\ calm' \in BOOLEAN /\ (calm' => calm /\ Alone(h))
<1>1. jobs[h].at = "idle" /\ (calm' => calm /\ Alone(h))
  BY NoJobFits DEF Arrive, Alone
<1>2. calm' \in BOOLEAN
  BY DEF Arrive, IInv, TypeOK
<1>3. calls' \in 0..MaxCalls
  BY PayoutAssumption DEF Arrive, IInv, TypeOK
<1> QED
  BY <1>1, <1>2, <1>3 DEF Arrive

LEMMA GoOnAlone ==
    ASSUME IInv, NEW h \in Handlers, NEW job, GoOn(h, job), jobs[h].at # "idle"
    PROVE  /\ jobs' = [jobs EXCEPT ![h] = job]
           /\ calls' \in 0..MaxCalls /\ deaths' = deaths /\ hook' = hook
           /\ calm' \in BOOLEAN /\ (calm' => calm /\ Alone(h))
  BY DEF GoOn, Alone, IInv, TypeOK, Calm, OneJob

\* A step of a request that changes no instant payout of a row keeps the
\* invariant, but for what it does to the audit log and while all is calm.
LEMMA StepKeeps ==
    ASSUME IInv, NEW h \in Handlers, NEW job, jobs' = [jobs EXCEPT ![h] = job],
           Fits(job, deals', transfers', payouts'), Grows(deals', transfers', payouts'),
           \A d \in Deals : /\ deals'[d].instant = deals[d].instant
                            /\ deals'[d].net = deals[d].net,
           jobs' \in [Handlers -> Job] => TypeOK', Audits', Calm'
    PROVE  IInv'
<1>1. jobs' \in [Handlers -> Job] /\ \A i \in Handlers : Fits(jobs'[i], deals', transfers', payouts')
  BY JobsFit
<1>2. TransfersExist'
  BY DEF TransfersExist, Grows, IInv
<1>3. Backed'
  BY DEF Backed, Grows, IInv
<1> QED
  BY <1>1, <1>2, <1>3 DEF IInv

\* A released deal stays on its way, or reaches the audit log.
LEMMA AuditsStay ==
    ASSUME IInv, NEW h \in Handlers, NEW job, jobs' = [jobs EXCEPT ![h] = job],
           \A d \in Deals : deals'[d].transfer = deals[d].transfer,
           deaths' = deaths, audited \subseteq audited',
           jobs[h].at \in {"checking", "sending", "recording", "auditing"} /\ jobs[h].release =>
               \/ jobs[h].deal \in audited'
               \/ /\ job.at \in {"checking", "sending", "recording", "auditing"}
                  /\ job.release /\ job.deal = jobs[h].deal
    PROVE  Audits'
<1> SUFFICES ASSUME deaths = 0, NEW d \in Deals, deals[d].transfer # None, d \notin audited'
             PROVE  OnItsWay(d)'
  BY DEF Audits
<1>1. PICK i \in Handlers : /\ jobs[i].release /\ jobs[i].deal = d
                            /\ jobs[i].at \in {"checking", "sending", "recording", "auditing"}
  BY DEF IInv, Audits, OnItsWay
<1>2. jobs'[h] = job /\ (i # h => jobs'[i] = jobs[i])
  BY DEF IInv, TypeOK
<1> QED
  BY <1>1, <1>2 DEF OnItsWay

\* While all is calm, a request that changes no payout finds and leaves no
\* other one under way.
LEMMA CalmStays ==
    ASSUME IInv, NEW h \in Handlers, NEW job, jobs' = [jobs EXCEPT ![h] = job],
           calm' => calm /\ Alone(h), UNCHANGED <<rows, payouts>>,
           \A d \in Deals : deals'[d].instant = deals[d].instant,
           jobs[h].at # "recording", job.at = "opening" => rows = {},
           calm /\ job.at \notin {"idle", "opening", "auditing"} =>
               job.deal \in Deals /\ deals[job.deal].instant = None
    PROVE  Calm'
<1> SUFFICES ASSUME calm' PROVE OneJob' /\ OneRow' /\ FreshInstant' /\ PayoutsAreOnDeals'
  BY DEF Calm
<1>1. calm /\ Alone(h) /\ OneRow /\ PayoutsAreOnDeals
  BY DEF IInv, Calm
<1>2. \A i \in Handlers : jobs'[i] = IF i = h THEN job ELSE jobs[i]
  BY DEF IInv, TypeOK
<1>3. \A p \in DOMAIN payouts : payouts[p].deal # None => payouts[p].deal \in Deals
  <2>1. \A p \in DOMAIN payouts : payouts[p] \in PayoutRow
    BY DEF IInv, TypeOK
  <2> QED
    BY <2>1 DEF PayoutRow
<1>4. OneJob' /\ OneRow' /\ FreshInstant'
  BY <1>1, <1>2 DEF OneJob, OneRow, FreshInstant, Alone
<1>5. PayoutsAreOnDeals'
  BY <1>1, <1>2, <1>3 DEF PayoutsAreOnDeals, Alone
<1> QED
  BY <1>4, <1>5

-----------------------------------------------------------------------------
\* A request that arrives.
LEMMA ArriveGood ==
    ASSUME IInv, NEW h \in Handlers, NEW job, Arrive(h, job), UNCHANGED <<ownVars, stripeVars>>,
           Fits(job, deals, transfers, payouts), job.at = "opening" => rows = {},
           job.at \notin {"idle", "opening", "auditing"} => deals[job.deal].instant = None
    PROVE  IInv'
<1>1. UNCHANGED <<deals, transfers, payouts>>
  BY DEF ownVars, stripeVars
<1>2. Audits'
  BY ArriveAlone, AuditsStay DEF ownVars
<1>3. Calm'
  BY ArriveAlone, CalmStays DEF ownVars, stripeVars, Fits
<1>4. jobs' \in [Handlers -> Job] => TypeOK'
  BY ArriveAlone DEF IInv, TypeOK, ownVars, stripeVars
<1> QED
  BY <1>1, <1>2, <1>3, <1>4, ArriveAlone, SameGrows, StepKeeps

LEMMA CreateAccountGood ==
    ASSUME IInv, NEW h \in Handlers, CreateAccount(h)
    PROVE  IInv'
<1>1. Fits([NoJob EXCEPT !.at = "opening"], deals, transfers, payouts)
  BY DEF Fits, NoJob, Job
<1> QED
  BY <1>1, ArriveGood DEF CreateAccount, NoJob

LEMMA NothingInstant ==
    ASSUME IInv, NEW d \in Deals, deals[d].transfer = None
    PROVE  deals[d].instant = None
<1>1. DOMAIN transfers \subseteq Nat
  BY DEF IInv, TypeOK
<1> QED
  BY <1>1, PayoutAssumption DEF IInv, Backed

LEMMA ReleaseGood ==
    ASSUME IInv, NEW h \in Handlers, NEW d \in Deals, NEW a \in Accounts, Release(h, d, a)
    PROVE  IInv'
<1> DEFINE job == [NoJob EXCEPT !.at = "transferring", !.deal = d, !.account = a,
                                !.release = TRUE]
<1>1. Fits(job, deals, transfers, payouts) /\ job.at = "transferring" /\ job.deal = d
  BY DEF Fits, NoJob, Job
<1>2. deals[d].instant = None
  BY NothingInstant DEF Release
<1>3. Arrive(h, job) \/ Arrive(h, NoJob)
  BY DEF Release
<1>4. UNCHANGED <<ownVars, stripeVars>>
  BY DEF Release
<1> HIDE DEF job
<1>5. CASE Arrive(h, job)
  BY <1>1, <1>2, <1>4, <1>5, ArriveGood
<1>6. CASE Arrive(h, NoJob)
  BY <1>4, <1>6, NoJobFits, ArriveGood
<1> QED
  BY <1>3, <1>5, <1>6

LEMMA RequestInstantGood ==
    ASSUME IInv, NEW h \in Handlers, NEW d \in Deals, NEW a \in Accounts, RequestInstant(h, d, a)
    PROVE  IInv'
<1> DEFINE job == [NoJob EXCEPT !.at = "checking", !.deal = d, !.account = a]
<1>1. job \in Job /\ job.at = "checking" /\ job.deal = d /\ job.account = a
  BY DEF NoJob, Job
<1>2. deals[d].transfer \in DOMAIN transfers /\ deals[d].instant = None
  BY DEF RequestInstant, IInv, TransfersExist
<1>3. Arrive(h, job) /\ UNCHANGED <<ownVars, stripeVars>>
  BY DEF RequestInstant
<1> HIDE DEF job
<1>4. Fits(job, deals, transfers, payouts)
  BY <1>1, <1>2 DEF Fits
<1> QED
  BY <1>1, <1>2, <1>3, <1>4, ArriveGood

-----------------------------------------------------------------------------
\* A request that goes on.
LEMMA InsertAccountGood ==
    ASSUME IInv, NEW h \in Handlers, InsertAccount(h)
    PROVE  IInv'
<1>1. PICK a \in Accounts :
          /\ stripe' = [stripe EXCEPT ![a].opened = TRUE] /\ rows' = rows \cup {a}
  BY DEF InsertAccount
<1>2. GoOn(h, NoJob) /\ jobs[h].at = "opening"
  BY DEF InsertAccount
<1>3. UNCHANGED <<opted, deals, audited, told, processed, transfers, payouts>>
  BY DEF InsertAccount
<1>4. stripe' \in [Accounts -> AccountState]
  BY <1>1 DEF IInv, TypeOK, AccountState
<1>5. jobs' \in [Handlers -> Job] => TypeOK'
  BY <1>1, <1>2, <1>3, <1>4, GoOnAlone DEF IInv, TypeOK
<1>6. Audits'
  BY <1>2, <1>3, GoOnAlone, AuditsStay
<1>7. Calm'
  <2> SUFFICES ASSUME calm' PROVE OneJob' /\ OneRow' /\ FreshInstant' /\ PayoutsAreOnDeals'
    BY DEF Calm
  <2>1. calm /\ Alone(h) /\ PayoutsAreOnDeals /\ rows = {}
    BY <1>2, GoOnAlone DEF IInv, Calm, OneRow
  <2>2. \A i \in Handlers : jobs'[i] = IF i = h THEN NoJob ELSE jobs[i]
    BY <1>2, GoOnAlone DEF IInv, TypeOK
  <2>3. \A i \in Handlers : jobs'[i].at = "idle"
    BY <2>1, <2>2, NoJobFits DEF Alone
  <2>4. PayoutsAreOnDeals'
    BY <1>2, <1>3, <2>1, <2>3 DEF PayoutsAreOnDeals, Alone
  <2> QED
    BY <1>1, <2>1, <2>3, <2>4 DEF OneJob, OneRow, FreshInstant
<1> QED
  BY <1>2, <1>3, <1>5, <1>6, <1>7, GoOnAlone, NoJobFits, SameGrows, StepKeeps

\* A balance that money is added to.
LEMMA BalanceTypes ==
    ASSUME IInv, NEW a \in Accounts, NEW n \in Nat,
           stripe' = [stripe EXCEPT ![a].balance = @ + n]
    PROVE  stripe' \in [Accounts -> AccountState]
<1>1. stripe \in [Accounts -> AccountState] /\ stripe[a] \in AccountState
  BY DEF IInv, TypeOK
<1>2. stripe[a].balance + n \in Nat
  BY <1>1 DEF AccountState
<1>3. [stripe[a] EXCEPT !.balance = stripe[a].balance + n] \in AccountState
  BY <1>1, <1>2 DEF AccountState
<1> QED
  BY <1>1, <1>3

LEMMA MakeTransferGood ==
    ASSUME IInv, NEW h \in Handlers, MakeTransfer(h)
    PROVE  IInv'
<1> DEFINE job == jobs[h]
           row == [deal |-> job.deal, account |-> job.account, reversed |-> FALSE]
           next == [job EXCEPT !.at = "paying", !.ref = Len(transfers')]
<1>1. /\ job.at = "transferring" /\ job \in Job /\ job.release
      /\ job.deal \in Deals /\ job.account \in Accounts
  BY DEF MakeTransfer, IInv, Fits
<1>2. UNCHANGED <<ownVars, payouts>>
  BY DEF MakeTransfer
<1>3. CASE TransferRefused(job)
  <2>1. GoOn(h, NoJob) /\ UNCHANGED <<stripe, transfers>>
    BY <1>3 DEF MakeTransfer
  <2>2. jobs' \in [Handlers -> Job] => TypeOK'
    BY <1>1, <1>2, <2>1, GoOnAlone DEF IInv, TypeOK, ownVars
  <2>3. Audits'
    BY <1>1, <1>2, <2>1, GoOnAlone, AuditsStay DEF ownVars
  <2>4. Calm'
    BY <1>1, <1>2, <2>1, GoOnAlone, NoJobFits, CalmStays DEF ownVars
  <2> QED
    BY <1>1, <1>2, <2>1, <2>2, <2>3, <2>4, GoOnAlone, NoJobFits, SameGrows, StepKeeps DEF ownVars
<1>4. CASE ~TransferRefused(job)
  <2>1. /\ transfers' = Append(transfers, row)
        /\ stripe' = [stripe EXCEPT ![job.account].balance = @ + Net(job.deal)]
        /\ GoOn(h, next)
    BY <1>4 DEF MakeTransfer
  <2>2. /\ transfers' \in Seq([deal: Deals, account: Accounts, reversed: BOOLEAN])
        /\ DOMAIN transfers \subseteq DOMAIN transfers' /\ Len(transfers') \in DOMAIN transfers'
        /\ Len(transfers') \in Nat
    BY <1>1, <2>1 DEF IInv, TypeOK
  <2>3. Net(job.deal) \in Nat
    BY <1>1, PayoutAssumption
  <2>4. stripe' \in [Accounts -> AccountState]
    BY <1>1, <2>1, <2>3, BalanceTypes
  <2>5. Fits(next, deals', transfers', payouts')
    BY <1>1, <2>2 DEF Fits, Job
  <2>6. Grows(deals', transfers', payouts')
    BY <1>2, <2>2 DEF Grows, ownVars
  <2>7. next.at = "paying" /\ next.deal = job.deal
    BY <1>1 DEF Job
  <2> HIDE DEF next
  <2>8. jobs' \in [Handlers -> Job] => TypeOK'
    BY <1>1, <1>2, <2>1, <2>2, <2>4, GoOnAlone DEF IInv, TypeOK, ownVars
  <2>9. Audits'
    BY <1>1, <1>2, <2>1, GoOnAlone, AuditsStay DEF ownVars
  <2>10. Calm'
    BY <1>1, <1>2, <2>1, <2>7, GoOnAlone, CalmStays DEF ownVars, IInv, Calm, FreshInstant
  <2> QED
    BY <1>1, <1>2, <2>1, <2>5, <2>6, <2>8, <2>9, <2>10, GoOnAlone, StepKeeps DEF ownVars
<1> QED
  BY <1>3, <1>4

LEMMA CommitPaidGood ==
    ASSUME IInv, NEW h \in Handlers, CommitPaid(h)
    PROVE  IInv'
<1> DEFINE job == jobs[h]
           stage == IF job.account \in opted THEN "checking" ELSE "auditing"
           next == [job EXCEPT !.at = stage]
<1>1. /\ job.at = "paying" /\ job \in Job /\ job.release /\ job.deal \in Deals
      /\ job.account \in Accounts /\ job.ref \in DOMAIN transfers /\ job.ref \in Nat
  BY DEF CommitPaid, IInv, Fits, Job
<1>2. UNCHANGED <<rows, opted, audited, told, processed, stripeVars>>
  BY DEF CommitPaid
<1>3. deals' = [deals EXCEPT ![job.deal].transfer = job.ref] /\ GoOn(h, next)
  BY DEF CommitPaid
<1>4. /\ deals' \in [Deals -> DealRow]
      /\ \A d \in Deals : /\ deals'[d].instant = deals[d].instant
                          /\ deals'[d].net = deals[d].net
                          /\ d # job.deal => deals'[d].transfer = deals[d].transfer
      /\ deals'[job.deal].transfer = job.ref
  BY <1>1, <1>3 DEF IInv, TypeOK, DealRow
<1>5. stage \in {"checking", "auditing"}
  OBVIOUS
<1> HIDE DEF stage
<1>6. /\ Fits(next, deals', transfers', payouts') /\ next.at = stage
      /\ next.deal = job.deal /\ next.release
  BY <1>1, <1>2, <1>4, <1>5 DEF Fits, Job, stripeVars
<1>7. Grows(deals', transfers', payouts')
  BY <1>1, <1>2, <1>4 DEF Grows, stripeVars
<1> HIDE DEF next
<1>8. jobs' \in [Handlers -> Job] => TypeOK'
  BY <1>1, <1>2, <1>3, <1>4, GoOnAlone DEF IInv, TypeOK, stripeVars
<1>9. Audits'
  <2> SUFFICES ASSUME deaths = 0, NEW d \in Deals, deals'[d].transfer # None, d \notin audited
               PROVE  OnItsWay(d)'
    BY <1>1, <1>2, <1>3, GoOnAlone DEF Audits
  <2>1. \A i \in Handlers : jobs'[i] = IF i = h THEN next ELSE jobs[i]
    BY <1>1, <1>3, GoOnAlone DEF IInv, TypeOK
  <2>2. CASE d = job.deal
    BY <1>5, <1>6, <2>1, <2>2 DEF OnItsWay
  <2>3. CASE d # job.deal
    BY <1>1, <1>4, <2>1, <2>3 DEF IInv, Audits, OnItsWay
  <2> QED
    BY <2>2, <2>3
<1>10. calm /\ next.at \notin {"idle", "opening", "auditing"} => deals[next.deal].instant = None
  BY <1>1, <1>6 DEF IInv, Calm, FreshInstant
<1>11. Calm'
  BY <1>1, <1>2, <1>3, <1>4, <1>5, <1>6, <1>10, GoOnAlone, CalmStays DEF stripeVars
<1>12. jobs' = [jobs EXCEPT ![h] = next]
  BY <1>1, <1>3, GoOnAlone
<1> QED
  BY <1>4, <1>6, <1>7, <1>8, <1>9, <1>11, <1>12, StepKeeps

\* Where a request goes once nothing is left to be done about its payout.
LEMMA AfterFits ==
    ASSUME IInv, NEW h \in Handlers, jobs[h].at \in {"checking", "sending", "recording"},
           NEW ds, NEW ts, NEW ps, Grows(ds, ts, ps)
    PROVE  /\ Fits(AfterInstant(h), ds, ts, ps) /\ AfterInstant(h).at \in {"idle", "auditing"}
           /\ jobs[h].release => /\ AfterInstant(h).at = "auditing" /\ AfterInstant(h).release
                                 /\ AfterInstant(h).deal = jobs[h].deal
<1>1. Fits(jobs[h], ds, ts, ps)
  BY FitsStays DEF IInv
<1>2. CASE jobs[h].release
  BY <1>1, <1>2 DEF AfterInstant, Fits, Job
<1>3. CASE ~jobs[h].release
  BY <1>3, NoJobFits DEF AfterInstant
<1> QED
  BY <1>2, <1>3

LEMMA NothingLeft ==
    ASSUME IInv, NEW h \in Handlers, jobs[h].at \in {"checking", "sending"},
           GoOn(h, AfterInstant(h)), UNCHANGED <<ownVars, stripeVars>>
    PROVE  IInv'
<1>1. Grows(deals', transfers', payouts')
  BY SameGrows DEF ownVars, stripeVars
<1>2. /\ Fits(AfterInstant(h), deals', transfers', payouts')
      /\ AfterInstant(h).at \in {"idle", "auditing"}
      /\ jobs[h].release => /\ AfterInstant(h).at = "auditing" /\ AfterInstant(h).release
                            /\ AfterInstant(h).deal = jobs[h].deal
  BY <1>1, AfterFits
<1>3. jobs' \in [Handlers -> Job] => TypeOK'
  BY GoOnAlone DEF IInv, TypeOK, ownVars, stripeVars
<1>4. Audits'
  BY <1>2, GoOnAlone, AuditsStay DEF ownVars
<1>5. Calm'
  BY <1>2, GoOnAlone, CalmStays DEF ownVars, stripeVars
<1> QED
  BY <1>1, <1>2, <1>3, <1>4, <1>5, GoOnAlone, StepKeeps DEF ownVars

LEMMA CheckInstantGood ==
    ASSUME IInv, NEW h \in Handlers, CheckInstant(h)
    PROVE  IInv'
<1> DEFINE job == jobs[h]
           next == [job EXCEPT !.at = "sending", !.amount = stripe[job.account].balance]
<1>1. job.at = "checking" /\ job \in Job /\ job.deal \in Deals /\ job.account \in Accounts
  BY DEF CheckInstant, IInv, Fits
<1>2. UNCHANGED <<ownVars, stripeVars>>
  BY DEF CheckInstant
<1>3. stripe[job.account].balance \in Nat
  BY <1>1 DEF IInv, TypeOK, AccountState
<1>4. Fits(next, deals, transfers, payouts) /\ next.at = "sending"
      /\ next.deal = job.deal /\ next.release = job.release
  BY <1>1, <1>3 DEF IInv, Fits, Job
<1>5. GoOn(h, next) \/ GoOn(h, AfterInstant(h))
  BY DEF CheckInstant
<1>6. CASE GoOn(h, AfterInstant(h))
  BY <1>1, <1>2, <1>6, NothingLeft
<1> HIDE DEF next
<1>7. CASE GoOn(h, next)
  <2>1. jobs' \in [Handlers -> Job] => TypeOK'
    BY <1>1, <1>2, <1>7, GoOnAlone DEF IInv, TypeOK, ownVars, stripeVars
  <2>2. Audits'
    BY <1>1, <1>2, <1>4, <1>7, GoOnAlone, AuditsStay DEF ownVars
  <2>3. calm => deals[next.deal].instant = None
    BY <1>1, <1>4 DEF IInv, Calm, FreshInstant
  <2>4. Calm'
    BY <1>1, <1>2, <1>4, <1>7, <2>3, GoOnAlone, CalmStays DEF ownVars, stripeVars
  <2> QED
    BY <1>1, <1>2, <1>4, <1>7, <2>1, <2>2, <2>4, GoOnAlone, SameGrows, StepKeeps
       DEF ownVars, stripeVars
<1> QED
  BY <1>5, <1>6, <1>7

\* A payout that Stripe made: the rest of them stay as they are.
LEMMA PaidOut ==
    ASSUME IInv, NEW a \in Accounts, NEW d \in {None} \cup Deals, NEW n \in Nat, PayOut(a, d, n)
    PROVE  /\ payouts' \in Seq(PayoutRow) /\ stripe' \in [Accounts -> AccountState]
           /\ Len(payouts') \in DOMAIN payouts' /\ Len(payouts') \in Nat
           /\ DOMAIN payouts' = DOMAIN payouts \cup {Len(payouts')}
           /\ payouts'[Len(payouts')].deal = d /\ payouts'[Len(payouts')].amount = n
           /\ \A p \in DOMAIN payouts : payouts'[p] = payouts[p]
<1> DEFINE row == [account |-> a, deal |-> d, amount |-> n, failed |-> FALSE]
<1>1. row \in PayoutRow /\ row.deal = d /\ row.amount = n
  BY DEF PayoutRow
<1>2. payouts' = Append(payouts, row) /\ payouts \in Seq(PayoutRow)
  BY DEF PayOut, IInv, TypeOK
<1> HIDE DEF row
<1>3. stripe' \in [Accounts -> AccountState]
  <2>1. /\ stripe \in [Accounts -> AccountState] /\ stripe[a] \in AccountState
        /\ stripe[a].balance >= n
    BY DEF PayOut, IInv, TypeOK
  <2>2. stripe[a].balance - n \in Nat
    BY <2>1 DEF AccountState
  <2>3. [stripe[a] EXCEPT !.balance = stripe[a].balance - n] \in AccountState
    BY <2>1, <2>2 DEF AccountState
  <2> QED
    BY <2>1, <2>3 DEF PayOut
<1>4. /\ payouts' \in Seq(PayoutRow) /\ Len(payouts') = Len(payouts) + 1
      /\ payouts'[Len(payouts')] = row
      /\ \A p \in DOMAIN payouts : payouts'[p] = payouts[p]
      /\ DOMAIN payouts = 1..Len(payouts) /\ DOMAIN payouts' = 1..Len(payouts')
      /\ Len(payouts) \in Nat
  BY <1>1, <1>2
<1>5. DOMAIN payouts' = DOMAIN payouts \cup {Len(payouts')} /\ Len(payouts') \in Nat
  BY <1>4
<1> QED
  BY <1>1, <1>3, <1>4, <1>5

LEMMA SendInstantGood ==
    ASSUME IInv, NEW h \in Handlers, SendInstant(h)
    PROVE  IInv'
<1> DEFINE job == jobs[h]
           next == [job EXCEPT !.at = "recording", !.ref = Len(payouts')]
<1>1. /\ job.at = "sending" /\ job \in Job /\ job.deal \in Deals /\ job.account \in Accounts
      /\ deals[job.deal].transfer \in DOMAIN transfers /\ job.amount \in Nat
  BY DEF SendInstant, IInv, Fits, Job
<1>2. UNCHANGED <<ownVars, transfers>>
  BY DEF SendInstant
<1>3. \/ PayOut(job.account, job.deal, job.amount) /\ GoOn(h, next)
      \/ GoOn(h, AfterInstant(h)) /\ UNCHANGED <<stripe, payouts>>
  BY DEF SendInstant
<1>4. CASE GoOn(h, AfterInstant(h)) /\ UNCHANGED <<stripe, payouts>>
  BY <1>1, <1>2, <1>4, NothingLeft DEF stripeVars
<1>5. CASE PayOut(job.account, job.deal, job.amount) /\ GoOn(h, next)
  <2>1. /\ payouts' \in Seq(PayoutRow) /\ stripe' \in [Accounts -> AccountState]
        /\ Len(payouts') \in DOMAIN payouts' /\ Len(payouts') \in Nat
        /\ DOMAIN payouts' = DOMAIN payouts \cup {Len(payouts')}
        /\ payouts'[Len(payouts')].deal = job.deal /\ payouts'[Len(payouts')].amount = job.amount
        /\ \A p \in DOMAIN payouts : payouts'[p] = payouts[p]
    BY <1>1, <1>5, PaidOut
  <2>2. /\ next \in Job /\ next.at = "recording" /\ next.ref = Len(payouts')
        /\ next.deal = job.deal /\ next.amount = job.amount /\ next.account = job.account
        /\ next.release = job.release
    BY <1>1, <2>1 DEF Job
  <2>3. GoOn(h, next)
    BY <1>5
  <2> HIDE DEF next
  <2>4. jobs' = [jobs EXCEPT ![h] = next]
    BY <2>3 DEF GoOn
  <2>5. Fits(next, deals', transfers', payouts')
    BY <1>1, <1>2, <2>1, <2>2 DEF Fits, ownVars
  <2>6. Grows(deals', transfers', payouts')
    BY <1>2, <2>1 DEF Grows, ownVars
  <2>7. jobs' \in [Handlers -> Job] => TypeOK'
    BY <1>1, <1>2, <2>1, <2>3, GoOnAlone DEF IInv, TypeOK, ownVars
  <2>8. Audits'
    BY <1>1, <1>2, <2>2, <2>3, GoOnAlone, AuditsStay DEF ownVars
  <2>9. Calm'
    <3> SUFFICES ASSUME calm' PROVE OneJob' /\ OneRow' /\ FreshInstant' /\ PayoutsAreOnDeals'
      BY DEF Calm
    <3>1. calm /\ Alone(h) /\ OneRow /\ PayoutsAreOnDeals /\ deals[job.deal].instant = None
      BY <1>1, <2>3, GoOnAlone DEF IInv, Calm, FreshInstant
    <3>2. \A i \in Handlers : jobs'[i] = IF i = h THEN next ELSE jobs[i]
      BY <2>4 DEF IInv, TypeOK
    <3>3. OneJob' /\ OneRow' /\ FreshInstant'
      BY <1>2, <2>2, <3>1, <3>2 DEF OneJob, OneRow, FreshInstant, Alone, ownVars
    <3>4. PayoutsAreOnDeals'
      BY <1>1, <1>2, <2>1, <2>2, <3>1, <3>2 DEF PayoutsAreOnDeals, Alone, ownVars
    <3> QED
      BY <3>3, <3>4
  <2> QED
    BY <1>2, <2>4, <2>5, <2>6, <2>7, <2>8, <2>9, StepKeeps DEF ownVars
<1> QED
  BY <1>3, <1>4, <1>5

LEMMA RecordInstantGood ==
    ASSUME IInv, NEW h \in Handlers, RecordInstant(h)
    PROVE  IInv'
<1> DEFINE job == jobs[h]
           next == AfterInstant(h)
<1>1. /\ job.at = "recording" /\ job \in Job /\ job.deal \in Deals
      /\ deals[job.deal].transfer \in DOMAIN transfers
      /\ job.amount \in Nat /\ job.ref \in DOMAIN payouts /\ job.ref \in Nat
      /\ payouts[job.ref].deal = job.deal /\ payouts[job.ref].amount = job.amount
  BY DEF RecordInstant, IInv, Fits, Job
<1>2. UNCHANGED <<rows, opted, audited, told, processed, stripeVars>> /\ GoOn(h, next)
  BY DEF RecordInstant
<1>3. /\ deals' \in [Deals -> DealRow]
      /\ \A d \in Deals : /\ deals'[d].transfer = deals[d].transfer
                          /\ d # job.deal => deals'[d] = deals[d]
      /\ deals'[job.deal].instant = job.ref /\ deals'[job.deal].net = job.amount
  BY <1>1 DEF RecordInstant, IInv, TypeOK, DealRow
<1>4. Grows(deals', transfers', payouts')
  BY <1>2, <1>3 DEF Grows, stripeVars
<1>5. /\ Fits(next, deals', transfers', payouts') /\ next.at \in {"idle", "auditing"}
      /\ job.release => next.at = "auditing" /\ next.release /\ next.deal = job.deal
  BY <1>1, <1>4, AfterFits
<1> HIDE DEF next
<1>6. jobs' = [jobs EXCEPT ![h] = next]
  BY <1>2 DEF GoOn
<1>7. jobs' \in [Handlers -> Job] /\ \A i \in Handlers : Fits(jobs'[i], deals', transfers', payouts')
  BY <1>4, <1>5, <1>6, JobsFit
<1>8. TypeOK'
  BY <1>1, <1>2, <1>3, <1>7, GoOnAlone DEF IInv, TypeOK, stripeVars
<1>9. TransfersExist'
  BY <1>2, <1>3 DEF IInv, TransfersExist, stripeVars
<1>10. Backed'
  BY <1>1, <1>2, <1>3 DEF IInv, Backed, stripeVars
<1>11. Audits'
  BY <1>1, <1>2, <1>3, <1>5, GoOnAlone, AuditsStay
<1>12. Calm'
  <2> SUFFICES ASSUME calm' PROVE OneJob' /\ OneRow' /\ FreshInstant' /\ PayoutsAreOnDeals'
    BY DEF Calm
  <2>1. calm /\ Alone(h) /\ OneRow /\ PayoutsAreOnDeals /\ deals[job.deal].instant = None
    BY <1>1, <1>2, GoOnAlone DEF IInv, Calm, FreshInstant
  <2>2. \A i \in Handlers : jobs'[i] = IF i = h THEN next ELSE jobs[i]
    BY <1>6 DEF IInv, TypeOK
  <2>3. OneJob' /\ OneRow' /\ FreshInstant'
    BY <1>2, <1>5, <2>1, <2>2 DEF OneJob, OneRow, FreshInstant, Alone
  <2>4. \A p \in DOMAIN payouts : payouts[p].deal \in {None} \cup Deals /\ p \in Nat
    <3>1. \A p \in DOMAIN payouts : payouts[p] \in PayoutRow /\ p \in Nat
      BY DEF IInv, TypeOK
    <3> QED
      BY <3>1 DEF PayoutRow
  <2>5. \A p \in DOMAIN payouts : payouts[p].deal # None =>
           deals'[payouts[p].deal].instant = p
    <3> SUFFICES ASSUME NEW p \in DOMAIN payouts, payouts[p].deal # None
                 PROVE  deals'[payouts[p].deal].instant = p
      OBVIOUS
    <3>1. deals[payouts[p].deal].instant = p \/ p = job.ref
      BY <2>1 DEF PayoutsAreOnDeals, Alone
    <3>2. CASE p = job.ref
      BY <1>1, <1>3, <3>2
    <3>3. CASE deals[payouts[p].deal].instant = p
      BY <1>3, <2>1, <2>4, <3>3, PayoutAssumption
    <3> QED
      BY <3>1, <3>2, <3>3
  <2>6. PayoutsAreOnDeals'
    BY <1>2, <2>5 DEF PayoutsAreOnDeals, stripeVars
  <2> QED
    BY <2>3, <2>6
<1> QED
  BY <1>7, <1>8, <1>9, <1>10, <1>11, <1>12 DEF IInv

LEMMA AuditReleaseGood ==
    ASSUME IInv, NEW h \in Handlers, AuditRelease(h)
    PROVE  IInv'
<1>1. jobs[h].at = "auditing" /\ jobs[h].deal \in Deals
  BY DEF AuditRelease, IInv, Fits
<1>2. /\ audited' = audited \cup {jobs[h].deal} /\ GoOn(h, NoJob)
      /\ UNCHANGED <<rows, opted, deals, told, processed, stripeVars>>
  BY DEF AuditRelease
<1>3. jobs' \in [Handlers -> Job] => TypeOK'
  BY <1>1, <1>2, GoOnAlone DEF IInv, TypeOK, stripeVars
<1>4. Audits'
  BY <1>1, <1>2, GoOnAlone, AuditsStay
<1>5. Calm'
  BY <1>1, <1>2, GoOnAlone, NoJobFits, CalmStays DEF stripeVars
<1> QED
  BY <1>1, <1>2, <1>3, <1>4, <1>5, GoOnAlone, NoJobFits, SameGrows, StepKeeps DEF stripeVars

LEMMA DieGood ==
    ASSUME IInv, NEW h \in Handlers, Die(h)
    PROVE  IInv'
<1> deaths \in 0..MaxDeaths /\ MaxDeaths \in Nat
  BY PayoutAssumption DEF IInv, TypeOK
<1>0. deaths' = deaths + 1 /\ deaths < MaxDeaths
  BY DEF Die
<1>1. /\ jobs' = [jobs EXCEPT ![h] = NoJob] /\ calm' = FALSE
      /\ UNCHANGED <<ownVars, stripeVars, hook, calls>>
  BY DEF Die
<1>3. deaths' # 0 /\ deaths' \in 0..MaxDeaths
  BY <1>0
<1>2. jobs' \in [Handlers -> Job] => TypeOK'
  BY <1>1, <1>3 DEF IInv, TypeOK, ownVars, stripeVars
<1>4. Audits' /\ Calm'
  BY <1>1, <1>3 DEF Audits, Calm
<1> QED
  BY <1>1, <1>2, <1>4, NoJobFits, SameGrows, StepKeeps DEF ownVars, stripeVars

-----------------------------------------------------------------------------
\* A step of the owner, of Stripe or of the webhook.
LEMMA QuietGood ==
    ASSUME IInv, TypeOK', UNCHANGED <<jobs, rows, deals, audited>>,
           calm' => calm, deaths' = 0 => deaths = 0, Grows(deals', transfers', payouts'),
           \A p \in DOMAIN payouts' : p \in DOMAIN payouts \/ payouts'[p].deal = None
    PROVE  IInv'
<1>1. \A h \in Handlers : Fits(jobs'[h], deals', transfers', payouts')
  BY FitsStays DEF IInv
<1>2. TransfersExist' /\ Backed'
  BY DEF TransfersExist, Backed, Grows, IInv
<1>3. Audits'
  BY DEF Audits, OnItsWay, IInv
<1>4. ASSUME calm' PROVE OneJob' /\ OneRow' /\ FreshInstant'
  BY <1>4 DEF IInv, Calm, OneJob, OneRow, FreshInstant
<1>5. ASSUME calm' PROVE PayoutsAreOnDeals'
  <2> SUFFICES ASSUME NEW p \in DOMAIN payouts', payouts'[p].deal # None
               PROVE  \/ deals[payouts'[p].deal].instant = p
                      \/ \E h \in Handlers : jobs[h].at = "recording" /\ jobs[h].ref = p
    BY DEF PayoutsAreOnDeals
  <2>1. p \in DOMAIN payouts /\ payouts'[p].deal = payouts[p].deal
    BY DEF Grows
  <2> QED
    BY <1>5, <2>1 DEF IInv, Calm, PayoutsAreOnDeals
<1> QED
  BY <1>1, <1>2, <1>3, <1>4, <1>5 DEF IInv, Calm

LEMMA SetInstantPreferenceGood ==
    ASSUME IInv, NEW a \in Accounts, SetInstantPreference(a)
    PROVE  IInv'
<1>1. opted' \subseteq Accounts
  BY DEF SetInstantPreference, IInv, TypeOK
<1>2. UNCHANGED <<rows, deals, audited, told, processed, stripeVars, jobs, hook, calls, deaths,
                  calm>>
  BY DEF SetInstantPreference
<1>3. TypeOK'
  BY <1>1, <1>2 DEF IInv, TypeOK, stripeVars
<1> QED
  BY <1>2, <1>3, SameGrows, QuietGood DEF stripeVars

LEMMA OnboardingGood ==
    ASSUME IInv, NEW a \in Accounts, Onboarding(a)
    PROVE  IInv'
<1>1. stripe' \in [Accounts -> AccountState]
  BY DEF Onboarding, IInv, TypeOK, AccountState
<1>2. UNCHANGED <<ownVars, transfers, payouts, jobs, hook, calls, deaths, calm>>
  BY DEF Onboarding, Aside
<1>3. TypeOK'
  BY <1>1, <1>2 DEF IInv, TypeOK, ownVars
<1> QED
  BY <1>2, <1>3, SameGrows, QuietGood DEF ownVars

LEMMA ScheduledPayoutGood ==
    ASSUME IInv, NEW a \in Accounts, ScheduledPayout(a)
    PROVE  IInv'
<1>1. stripe[a].balance \in Nat
  BY DEF IInv, TypeOK, AccountState
<1>2. PayOut(a, None, stripe[a].balance)
  BY DEF ScheduledPayout
<1>3. UNCHANGED <<ownVars, transfers, jobs, hook, calls, deaths, calm>>
  BY DEF ScheduledPayout, Aside
<1>4. /\ payouts' \in Seq(PayoutRow) /\ stripe' \in [Accounts -> AccountState]
      /\ DOMAIN payouts' = DOMAIN payouts \cup {Len(payouts')}
      /\ payouts'[Len(payouts')].deal = None
      /\ \A p \in DOMAIN payouts : payouts'[p] = payouts[p]
  BY <1>1, <1>2, PaidOut
<1>5. TypeOK'
  BY <1>3, <1>4 DEF IInv, TypeOK, ownVars
<1>6. Grows(deals', transfers', payouts')
  BY <1>3, <1>4 DEF Grows, ownVars
<1> QED
  BY <1>3, <1>4, <1>5, <1>6, QuietGood DEF ownVars

LEMMA PayoutFailsGood ==
    ASSUME IInv, NEW p \in DOMAIN payouts, PayoutFails(p)
    PROVE  IInv'
<1>1. payouts \in Seq(PayoutRow) /\ payouts[p] \in PayoutRow
  BY DEF IInv, TypeOK
<1>2. /\ payouts[p].account \in Accounts /\ payouts[p].amount \in Nat
      /\ [payouts[p] EXCEPT !.failed = TRUE] \in PayoutRow
      /\ [payouts[p] EXCEPT !.failed = TRUE].deal = payouts[p].deal
      /\ [payouts[p] EXCEPT !.failed = TRUE].amount = payouts[p].amount
  BY <1>1 DEF PayoutRow
<1> DEFINE row == [payouts[p] EXCEPT !.failed = TRUE]
<1>3. /\ payouts' = [payouts EXCEPT ![p] = row]
      /\ stripe' = [stripe EXCEPT ![payouts[p].account].balance = @ + payouts[p].amount]
      /\ UNCHANGED <<ownVars, transfers, jobs, hook, calls, deaths, calm>>
  BY DEF PayoutFails, Aside
<1>4. stripe' \in [Accounts -> AccountState]
  BY <1>2, <1>3, BalanceTypes
<1> HIDE DEF row
<1>5. payouts' \in Seq(PayoutRow) /\ DOMAIN payouts' = DOMAIN payouts
  BY <1>1, <1>2, <1>3 DEF row
<1>6. \A q \in DOMAIN payouts : payouts'[q].deal = payouts[q].deal /\ payouts'[q].amount = payouts[q].amount
  BY <1>1, <1>2, <1>3 DEF row
<1>7. TypeOK'
  BY <1>3, <1>4, <1>5 DEF IInv, TypeOK, ownVars
<1>8. Grows(deals', transfers', payouts')
  BY <1>3, <1>5, <1>6 DEF Grows, ownVars
<1> QED
  BY <1>3, <1>5, <1>7, <1>8, QuietGood DEF ownVars

LEMMA TransferReversedGood ==
    ASSUME IInv, NEW n \in DOMAIN transfers, TransferReversed(n)
    PROVE  IInv'
<1> DEFINE Row == [deal: Deals, account: Accounts, reversed: BOOLEAN]
           t == transfers[n]
           row == [t EXCEPT !.reversed = TRUE]
<1>0. transfers \in Seq(Row)
  BY DEF IInv, TypeOK
<1> HIDE DEF Row
<1>1. transfers \in Seq(Row) /\ t \in Row
  BY <1>0
<1> USE DEF Row
<1>2. row \in Row /\ t.account \in Accounts /\ Net(t.deal) \in Nat
  BY <1>1, PayoutAssumption
<1>3. /\ transfers' = [transfers EXCEPT ![n] = row] /\ stripe[t.account].balance >= Net(t.deal)
      /\ stripe' = [stripe EXCEPT ![t.account].balance = @ - Net(t.deal)]
      /\ UNCHANGED <<ownVars, payouts, jobs, hook, calls, deaths, calm>>
  BY DEF TransferReversed, Aside
<1> HIDE DEF row, t
<1>4. stripe' \in [Accounts -> AccountState]
  <2>1. /\ stripe \in [Accounts -> AccountState] /\ stripe[t.account] \in AccountState
    BY <1>2 DEF IInv, TypeOK
  <2>2. stripe[t.account].balance - Net(t.deal) \in Nat
    BY <1>2, <1>3, <2>1 DEF AccountState
  <2>3. [stripe[t.account] EXCEPT !.balance = stripe[t.account].balance - Net(t.deal)] \in AccountState
    BY <2>1, <2>2 DEF AccountState
  <2> QED
    BY <1>3, <2>1, <2>3
<1>5. transfers' \in Seq(Row) /\ DOMAIN transfers' = DOMAIN transfers
  BY <1>1, <1>2, <1>3
<1>6. TypeOK'
  BY <1>3, <1>4, <1>5 DEF IInv, TypeOK, ownVars
<1>7. Grows(deals', transfers', payouts')
  BY <1>3, <1>5 DEF Grows, ownVars
<1> QED
  BY <1>3, <1>6, <1>7, QuietGood DEF ownVars

LEMMA HandleEventGood ==
    ASSUME IInv, NEW e \in Event, HandleEvent(e)
    PROVE  IInv'
<1>1. told' \in [Event -> Nat]
  BY DEF HandleEvent, Tell, IInv, TypeOK
<1>2. /\ hook' = e /\ (calm' => calm)
      /\ UNCHANGED <<rows, opted, deals, audited, processed, stripeVars, jobs, calls, deaths>>
  BY DEF HandleEvent
<1>3. calm' \in BOOLEAN
  BY DEF HandleEvent, IInv, TypeOK
<1>4. TypeOK'
  BY <1>1, <1>2, <1>3 DEF IInv, TypeOK, stripeVars
<1> QED
  BY <1>2, <1>4, SameGrows, QuietGood DEF stripeVars

LEMMA MarkProcessedGood ==
    ASSUME IInv, MarkProcessed
    PROVE  IInv'
<1>1. processed' \subseteq Event /\ hook' = None
  BY DEF MarkProcessed, IInv, TypeOK
<1>2. UNCHANGED <<rows, opted, deals, audited, told, stripeVars, jobs, calls, deaths, calm>>
  BY DEF MarkProcessed
<1>3. TypeOK'
  BY <1>1, <1>2 DEF IInv, TypeOK, stripeVars
<1> QED
  BY <1>2, <1>3, SameGrows, QuietGood DEF stripeVars

LEMMA HookDiesGood ==
    ASSUME IInv, HookDies
    PROVE  IInv'
<1> deaths \in 0..MaxDeaths /\ MaxDeaths \in Nat
  BY PayoutAssumption DEF IInv, TypeOK
<1>1. deaths' = deaths + 1 /\ deaths < MaxDeaths
  BY DEF HookDies
<1>2. deaths' \in 0..MaxDeaths /\ deaths' # 0
  BY <1>1
<1>3. /\ hook' = None /\ calm' = FALSE
      /\ UNCHANGED <<ownVars, stripeVars, jobs, calls>>
  BY DEF HookDies
<1>4. TypeOK'
  BY <1>2, <1>3 DEF IInv, TypeOK, ownVars, stripeVars
<1> QED
  BY <1>2, <1>3, <1>4, SameGrows, QuietGood DEF ownVars, stripeVars

-----------------------------------------------------------------------------
LEMMA StepGood == IInv /\ [Next]_vars => IInv'
<1> SUFFICES ASSUME IInv, [Next]_vars PROVE IInv'
  OBVIOUS
<1>1. CASE UNCHANGED vars
  <2>1. UNCHANGED <<ownVars, stripeVars, jobs, hook, calls, deaths, calm>>
    BY <1>1 DEF vars
  <2>2. TypeOK'
    BY <2>1 DEF IInv, TypeOK, ownVars, stripeVars
  <2> QED
    BY <2>1, <2>2, SameGrows, QuietGood DEF ownVars, stripeVars
<1>2. ASSUME NEW h \in Handlers, NEW a \in Accounts, NEW d \in Deals,
             Release(h, d, a) \/ RequestInstant(h, d, a)
      PROVE IInv'
  BY <1>2, ReleaseGood, RequestInstantGood
<1>3. ASSUME NEW h \in Handlers, CreateAccount(h) \/ Resume(h) \/ Die(h) PROVE IInv'
  BY <1>3, CreateAccountGood, InsertAccountGood, MakeTransferGood, CommitPaidGood,
     CheckInstantGood, SendInstantGood, RecordInstantGood, AuditReleaseGood, DieGood DEF Resume
<1>4. CASE AtStripe
  BY <1>4, OnboardingGood, ScheduledPayoutGood, PayoutFailsGood, TransferReversedGood DEF AtStripe
<1>5. ASSUME NEW a \in Accounts, SetInstantPreference(a) PROVE IInv'
  BY <1>5, SetInstantPreferenceGood
<1>6. ASSUME NEW e \in Event, HandleEvent(e) PROVE IInv'
  BY <1>6, HandleEventGood
<1> QED
  BY <1>1, <1>2, <1>3, <1>4, <1>5, <1>6, MarkProcessedGood, HookDiesGood DEF Next

\* The invariant holds in every state.
THEOREM PayoutInvariance == Spec => []IInv
  BY InitGood, StepGood, PTL DEF Spec

\* Every variable of the payouts keeps its type.
THEOREM PayoutTypes == Spec => []TypeOK
<1>1. IInv => TypeOK
  BY DEF IInv
<1> QED
  BY <1>1, PayoutInvariance, PTL

\* However the instant payout of a release goes, the release reaches the audit
\* log unless a handler died.
THEOREM ReleaseAudited == Spec => []ReleaseIsAudited
<1>1. IInv => ReleaseIsAudited
  <2> SUFFICES ASSUME IInv, Idle, deaths = 0, NEW d \in Deals, deals[d].transfer # None
               PROVE  d \in audited
    BY DEF ReleaseIsAudited
  <2>1. ~OnItsWay(d)
    BY NoJobFits DEF Idle, OnItsWay
  <2> QED
    BY <2>1 DEF IInv, Audits
<1> QED
  BY <1>1, PayoutInvariance, PTL

\* However requests overlap, fail and die, what a deal says of its instant
\* payout is so at Stripe, and one after the other they pay nothing out that
\* no deal tells of.
THEOREM InstantBacked == Spec => []InstantIsBacked
<1>1. IInv => InstantIsBacked
  <2> SUFFICES ASSUME IInv
               PROVE  /\ Backed
                      /\ calm /\ Idle =>
                            /\ \A p \in DOMAIN payouts :
                                  payouts[p].deal # None => deals[payouts[p].deal].instant = p
                            /\ Cardinality(rows) <= 1
    BY DEF InstantIsBacked, Backed
  <2>1. Backed
    BY DEF IInv
  <2> SUFFICES ASSUME calm, Idle
               PROVE  /\ \A p \in DOMAIN payouts :
                            payouts[p].deal # None => deals[payouts[p].deal].instant = p
                      /\ Cardinality(rows) <= 1
    BY <2>1
  <2>2. OneRow /\ PayoutsAreOnDeals
    BY DEF IInv, Calm
  <2>3. \A p \in DOMAIN payouts : payouts[p].deal # None => deals[payouts[p].deal].instant = p
    BY <2>2, NoJobFits DEF PayoutsAreOnDeals, Idle, NoJob
  <2>4. rows = {} \/ \E a \in rows : rows = {a}
    BY <2>2 DEF OneRow
  <2>5. Cardinality({}) = 0 /\ \A a : Cardinality({a}) = 1
    BY FS_EmptySet, FS_Singleton
  <2>6. Cardinality(rows) \in {0, 1}
    BY <2>4, <2>5
  <2> QED
    BY <2>3, <2>6
<1> QED
  BY <1>1, PayoutInvariance, PTL

-----------------------------------------------------------------------------
\* Nothing reaches an account that has no row.
InRows ==
    /\ \A a \in Accounts : stripe[a].balance > 0 => a \in rows
    /\ \A p \in DOMAIN payouts : payouts[p].account \in rows
    /\ \A h \in Handlers : jobs[h].at \notin {"idle", "opening"} => jobs[h].account \in rows

Heard(e) == e.type = "payout.failed" => told[e] > 0
FailuresTold ==
    /\ \A e \in processed : Heard(e)
    /\ hook # None => Heard(hook)

\* While all is calm, a Transfer is on its deal unless the request that made
\* it is about to put it there, on a deal that has none.
TransfersOnDeals ==
    /\ \A n \in DOMAIN transfers :
          \/ \E d \in Deals : deals[d].transfer = n
          \/ \E h \in Handlers : jobs[h].at = "paying" /\ jobs[h].ref = n
    /\ \A h \in Handlers : jobs[h].at \in {"transferring", "paying"} =>
          deals[jobs[h].deal].transfer = None

\* While all is calm, an event is told of when it arrives and not before, and
\* arrives while no request is under way.
ToldInTurn ==
    /\ hook # None => \A h \in Handlers : jobs[h].at = "idle"
    /\ \A e \in Event : IF e = hook \/ e \in processed THEN told[e] = 1 ELSE told[e] = 0

Telling == InRows /\ FailuresTold /\ (calm => TransfersOnDeals /\ ToldInTurn)

-----------------------------------------------------------------------------
LEMMA InitTells == Init => Telling
<1> SUFFICES ASSUME Init PROVE Telling
  OBVIOUS
<1>1. /\ \A h \in Handlers : jobs[h] = NoJob
      /\ \A a \in Accounts : stripe[a].balance = 0
      /\ \A e \in Event : told[e] = 0
      /\ DOMAIN payouts = {} /\ DOMAIN transfers = {}
      /\ processed = {} /\ hook = None
  BY DEF Init
<1>2. InRows /\ FailuresTold
  BY <1>1, NoJobFits DEF InRows, FailuresTold
<1>3. TransfersOnDeals
  BY <1>1, NoJobFits DEF TransfersOnDeals
<1>4. ToldInTurn
  BY <1>1, PayoutAssumption DEF ToldInTurn
<1> QED
  BY <1>2, <1>3, <1>4 DEF Telling

\* A step of a request tells nobody anything, and finds no event being handled
\* while all is calm.
LEMMA RequestTells ==
    ASSUME IInv, Telling, NEW h \in Handlers, NEW job, jobs' = [jobs EXCEPT ![h] = job],
           UNCHANGED <<told, processed, hook>>, calm' => calm /\ hook = None,
           rows \subseteq rows', job.at \notin {"idle", "opening"} => job.account \in rows,
           \A a \in Accounts : stripe'[a].balance > 0 => a \in rows,
           \A p \in DOMAIN payouts' : payouts'[p].account \in rows,
           calm' => TransfersOnDeals'
    PROVE  Telling'
<1>1. InRows'
  <2>1. \A i \in Handlers : jobs'[i] = IF i = h THEN job ELSE jobs[i]
    BY DEF IInv, TypeOK
  <2> QED
    BY <2>1 DEF Telling, InRows
<1>2. FailuresTold'
  BY DEF Telling, FailuresTold, Heard
<1>3. calm' => ToldInTurn'
  BY DEF Telling, ToldInTurn
<1> QED
  BY <1>1, <1>2, <1>3 DEF Telling

\* Where the request neither makes nor records a Transfer.
LEMMA SameTransfers ==
    ASSUME IInv, Telling, NEW h \in Handlers, NEW job, jobs' = [jobs EXCEPT ![h] = job],
           calm, transfers' = transfers,
           \A d \in Deals : deals'[d].transfer = deals[d].transfer, jobs[h].at # "paying",
           job.at \in {"transferring", "paying"} =>
               job.deal \in Deals /\ deals[job.deal].transfer = None
    PROVE  TransfersOnDeals'
<1>1. \A i \in Handlers : jobs'[i] = IF i = h THEN job ELSE jobs[i]
  BY DEF IInv, TypeOK
<1>2. \A i \in Handlers : jobs[i].at \in {"transferring", "paying"} => jobs[i].deal \in Deals
  BY DEF IInv, Fits
<1> QED
  BY <1>1, <1>2 DEF Telling, TransfersOnDeals

\* A request that goes on is not handled while an event is, and all is calm.
LEMMA GoOnTells ==
    ASSUME IInv, Telling, NEW h \in Handlers, NEW job, GoOn(h, job), jobs[h].at # "idle"
    PROVE  /\ jobs' = [jobs EXCEPT ![h] = job] /\ hook' = hook
           /\ calm' => calm /\ hook = None /\ Alone(h)
<1>1. calm => hook = None
  BY DEF Telling, ToldInTurn
<1> QED
  BY <1>1, GoOnAlone

\* A request that keeps Stripe and the Transfers as they are.
LEMMA QuietRequest ==
    ASSUME IInv, Telling, NEW h \in Handlers, NEW job, jobs' = [jobs EXCEPT ![h] = job],
           UNCHANGED <<told, processed, hook, transfers, payouts>>,
           calm' => calm /\ hook = None, rows \subseteq rows',
           \A a \in Accounts : stripe'[a].balance = stripe[a].balance,
           \A d \in Deals : deals'[d].transfer = deals[d].transfer, jobs[h].at # "paying",
           job.at \notin {"idle", "opening"} => job.account \in rows,
           job.at \in {"transferring", "paying"} =>
               job.deal \in Deals /\ deals[job.deal].transfer = None
    PROVE  Telling'
<1>1. calm' => TransfersOnDeals'
  BY SameTransfers
<1> QED
  BY <1>1, RequestTells DEF Telling, InRows

LEMMA ArriveTells ==
    ASSUME IInv, Telling, NEW h \in Handlers, NEW job, Arrive(h, job),
           UNCHANGED <<ownVars, stripeVars>>,
           job.at \notin {"idle", "opening"} => job.account \in rows,
           job.at \in {"transferring", "paying"} =>
               job.deal \in Deals /\ deals[job.deal].transfer = None
    PROVE  Telling'
<1>1. calm' => calm /\ hook = None
  BY DEF Arrive
<1> QED
  BY <1>1, ArriveAlone, QuietRequest DEF ownVars, stripeVars

LEMMA CreateAccountTells ==
    ASSUME IInv, Telling, NEW h \in Handlers, CreateAccount(h)
    PROVE  Telling'
<1>1. [NoJob EXCEPT !.at = "opening"].at = "opening"
  BY DEF NoJob
<1> QED
  BY <1>1, ArriveTells DEF CreateAccount

LEMMA ArrivalsTell ==
    ASSUME IInv, Telling, NEW h \in Handlers, NEW d \in Deals, NEW a \in Accounts,
           Release(h, d, a) \/ RequestInstant(h, d, a)
    PROVE  Telling'
<1>1. CASE Release(h, d, a)
  <2> DEFINE job == [NoJob EXCEPT !.at = "transferring", !.deal = d, !.account = a,
                                  !.release = TRUE]
  <2>1. job.at = "transferring" /\ job.deal = d /\ job.account = a
    BY DEF NoJob
  <2>2. Arrive(h, job) \/ Arrive(h, NoJob)
    BY <1>1 DEF Release
  <2>3. a \in rows /\ deals[d].transfer = None /\ UNCHANGED <<ownVars, stripeVars>>
    BY <1>1 DEF Release
  <2> HIDE DEF job
  <2> QED
    BY <2>1, <2>2, <2>3, NoJobFits, ArriveTells
<1>2. CASE RequestInstant(h, d, a)
  <2> DEFINE job == [NoJob EXCEPT !.at = "checking", !.deal = d, !.account = a]
  <2>1. job.at = "checking" /\ job.account = a
    BY DEF NoJob
  <2>2. a \in rows /\ Arrive(h, job) /\ UNCHANGED <<ownVars, stripeVars>>
    BY <1>2 DEF RequestInstant
  <2> HIDE DEF job
  <2> QED
    BY <2>1, <2>2, ArriveTells
<1> QED
  BY <1>1, <1>2

-----------------------------------------------------------------------------
LEMMA InsertAccountTells ==
    ASSUME IInv, Telling, NEW h \in Handlers, InsertAccount(h)
    PROVE  Telling'
<1>1. PICK a \in Accounts :
          /\ stripe' = [stripe EXCEPT ![a].opened = TRUE] /\ rows' = rows \cup {a}
  BY DEF InsertAccount
<1>2. GoOn(h, NoJob) /\ jobs[h].at = "opening"
  BY DEF InsertAccount
<1>3. UNCHANGED <<opted, deals, audited, told, processed, transfers, payouts>>
  BY DEF InsertAccount
<1>4. \A b \in Accounts : stripe'[b].balance = stripe[b].balance
  BY <1>1 DEF IInv, TypeOK, AccountState
<1> QED
  BY <1>1, <1>2, <1>3, <1>4, GoOnTells, NoJobFits, QuietRequest

LEMMA MakeTransferTells ==
    ASSUME IInv, Telling, NEW h \in Handlers, MakeTransfer(h)
    PROVE  Telling'
<1> DEFINE job == jobs[h]
           row == [deal |-> job.deal, account |-> job.account, reversed |-> FALSE]
           next == [job EXCEPT !.at = "paying", !.ref = Len(transfers')]
<1>1. /\ job.at = "transferring" /\ job \in Job /\ job.deal \in Deals
      /\ job.account \in Accounts /\ job.account \in rows
  BY DEF MakeTransfer, IInv, Fits, Telling, InRows
<1>2. UNCHANGED <<ownVars, payouts>>
  BY DEF MakeTransfer
<1>3. CASE TransferRefused(job)
  <2>1. GoOn(h, NoJob) /\ UNCHANGED <<stripe, transfers>>
    BY <1>3 DEF MakeTransfer
  <2> QED
    BY <1>1, <1>2, <2>1, GoOnTells, NoJobFits, QuietRequest DEF ownVars
<1>4. CASE ~TransferRefused(job)
  <2>1. /\ transfers' = Append(transfers, row)
        /\ stripe' = [stripe EXCEPT ![job.account].balance = @ + Net(job.deal)]
        /\ GoOn(h, next)
    BY <1>4 DEF MakeTransfer
  <2>2. DOMAIN transfers' = DOMAIN transfers \cup {Len(transfers')} /\ Len(transfers') \in Nat
    BY <2>1 DEF IInv, TypeOK
  <2>3. \A a \in Accounts : stripe'[a].balance > 0 => a \in rows
    BY <1>1, <2>1 DEF Telling, InRows, IInv, TypeOK, AccountState
  <2>4. /\ next.at = "paying" /\ next.deal = job.deal /\ next.account = job.account
        /\ next.ref = Len(transfers')
    BY <1>1 DEF Job
  <2> HIDE DEF next
  <2>5. ASSUME calm' PROVE TransfersOnDeals'
    <3>1. calm /\ deals[job.deal].transfer = None /\ TransfersOnDeals
      BY <1>1, <2>1, <2>5, GoOnAlone DEF Telling, TransfersOnDeals
    <3>2. \A i \in Handlers : jobs'[i] = IF i = h THEN next ELSE jobs[i]
      BY <1>1, <2>1, GoOnAlone DEF IInv, TypeOK
    <3>3. \A n \in DOMAIN transfers' :
             \/ \E d \in Deals : deals[d].transfer = n
             \/ \E i \in Handlers : jobs'[i].at = "paying" /\ jobs'[i].ref = n
      <4>1. jobs'[h].at = "paying" /\ jobs'[h].ref = Len(transfers')
        BY <2>4, <3>2
      <4>2. \A i \in Handlers : jobs[i].at = "paying" => jobs'[i] = jobs[i]
        BY <1>1, <3>2
      <4> QED
        BY <2>2, <3>1, <4>1, <4>2 DEF TransfersOnDeals
    <3>4. \A i \in Handlers : jobs'[i].at \in {"transferring", "paying"} =>
             deals[jobs'[i].deal].transfer = None
      BY <2>4, <3>1, <3>2 DEF TransfersOnDeals
    <3> QED
      BY <1>2, <3>3, <3>4 DEF TransfersOnDeals, ownVars
  <2> QED
    BY <1>1, <1>2, <2>1, <2>3, <2>4, <2>5, GoOnTells, RequestTells
       DEF ownVars, Telling, InRows
<1> QED
  BY <1>3, <1>4

LEMMA CommitPaidTells ==
    ASSUME IInv, Telling, NEW h \in Handlers, CommitPaid(h)
    PROVE  Telling'
<1> DEFINE job == jobs[h]
           stage == IF job.account \in opted THEN "checking" ELSE "auditing"
           next == [job EXCEPT !.at = stage]
<1>1. /\ job.at = "paying" /\ job \in Job /\ job.deal \in Deals
      /\ job.account \in rows /\ job.ref \in Nat
  BY DEF CommitPaid, IInv, Fits, Job, Telling, InRows
<1>2. UNCHANGED <<rows, opted, audited, told, processed, stripeVars>>
  BY DEF CommitPaid
<1>3. deals' = [deals EXCEPT ![job.deal].transfer = job.ref] /\ GoOn(h, next)
  BY DEF CommitPaid
<1>4. /\ \A d \in Deals : d # job.deal => deals'[d].transfer = deals[d].transfer
      /\ deals'[job.deal].transfer = job.ref
  BY <1>1, <1>3 DEF IInv, TypeOK, DealRow
<1>5. stage \in {"checking", "auditing"}
  OBVIOUS
<1> HIDE DEF stage
<1>6. next.at = stage /\ next.account = job.account
  BY <1>1 DEF Job
<1> HIDE DEF next
<1>7. ASSUME calm' PROVE TransfersOnDeals'
  <2>1. calm /\ deals[job.deal].transfer = None /\ TransfersOnDeals /\ Alone(h)
    BY <1>1, <1>3, <1>7, GoOnAlone DEF Telling, TransfersOnDeals
  <2>2. \A i \in Handlers : jobs'[i] = IF i = h THEN next ELSE jobs[i]
    BY <1>1, <1>3, GoOnAlone DEF IInv, TypeOK
  <2>3. \A i \in Handlers : jobs'[i].at \notin {"transferring", "paying"}
    BY <1>5, <1>6, <2>1, <2>2 DEF Alone
  <2>4. \A n \in DOMAIN transfers : n # None
    BY PayoutAssumption DEF IInv, TypeOK
  <2>5. \A n \in DOMAIN transfers : \E d \in Deals : deals'[d].transfer = n
    <3> SUFFICES ASSUME NEW n \in DOMAIN transfers
                 PROVE  \E d \in Deals : deals'[d].transfer = n
      OBVIOUS
    <3>1. CASE n = job.ref
      BY <1>1, <1>4, <3>1
    <3>2. CASE n # job.ref
      BY <1>4, <2>1, <2>4, <3>2 DEF TransfersOnDeals, Alone
    <3> QED
      BY <3>1, <3>2
  <2> QED
    BY <1>2, <2>3, <2>5 DEF TransfersOnDeals, stripeVars
<1> QED
  BY <1>1, <1>2, <1>3, <1>5, <1>6, <1>7, GoOnTells, RequestTells
     DEF stripeVars, Telling, InRows

LEMMA AfterInRows ==
    ASSUME IInv, Telling, NEW h \in Handlers, jobs[h].at \in {"checking", "sending", "recording"}
    PROVE  /\ AfterInstant(h).at \in {"idle", "auditing"}
           /\ AfterInstant(h).at = "auditing" => AfterInstant(h).account \in rows
<1>1. jobs[h] \in Job /\ jobs[h].account \in rows
  BY DEF IInv, Fits, Telling, InRows
<1>2. CASE jobs[h].release
  BY <1>1, <1>2 DEF AfterInstant, Job
<1>3. CASE ~jobs[h].release
  BY <1>3, NoJobFits DEF AfterInstant
<1> QED
  BY <1>2, <1>3

LEMMA CheckInstantTells ==
    ASSUME IInv, Telling, NEW h \in Handlers, CheckInstant(h)
    PROVE  Telling'
<1> DEFINE job == jobs[h]
           next == [job EXCEPT !.at = "sending", !.amount = stripe[job.account].balance]
<1>1. job.at = "checking" /\ job \in Job /\ job.account \in rows
  BY DEF CheckInstant, IInv, Fits, Telling, InRows
<1>2. UNCHANGED <<ownVars, stripeVars>>
  BY DEF CheckInstant
<1>3. next.at = "sending" /\ next.account = job.account
  BY <1>1 DEF Job
<1>4. GoOn(h, next) \/ GoOn(h, AfterInstant(h))
  BY DEF CheckInstant
<1> HIDE DEF next
<1>5. CASE GoOn(h, next)
  BY <1>1, <1>2, <1>3, <1>5, GoOnTells, QuietRequest DEF ownVars, stripeVars
<1>6. CASE GoOn(h, AfterInstant(h))
  BY <1>1, <1>2, <1>6, AfterInRows, GoOnTells, QuietRequest DEF ownVars, stripeVars
<1> QED
  BY <1>4, <1>5, <1>6

\* What is paid out comes from an account that had it.
LEMMA PaidFrom ==
    ASSUME IInv, Telling, NEW a \in Accounts, NEW d \in {None} \cup Deals, NEW n \in Nat,
           PayOut(a, d, n), a \in rows
    PROVE  /\ \A b \in Accounts : stripe'[b].balance > 0 => b \in rows
           /\ \A p \in DOMAIN payouts' : payouts'[p].account \in rows
<1>1. \A b \in Accounts : stripe'[b].balance > 0 => b \in rows
  BY DEF PayOut, IInv, TypeOK, AccountState, Telling, InRows
<1>2. payouts'[Len(payouts')].account = a
  <2> DEFINE row == [account |-> a, deal |-> d, amount |-> n, failed |-> FALSE]
  <2>1. payouts' = Append(payouts, row) /\ payouts \in Seq(PayoutRow) /\ row.account = a
    BY DEF PayOut, IInv, TypeOK
  <2> HIDE DEF row
  <2> QED
    BY <2>1
<1> QED
  BY <1>1, <1>2, PaidOut DEF Telling, InRows

LEMMA SendInstantTells ==
    ASSUME IInv, Telling, NEW h \in Handlers, SendInstant(h)
    PROVE  Telling'
<1> DEFINE job == jobs[h]
           next == [job EXCEPT !.at = "recording", !.ref = Len(payouts')]
<1>1. /\ job.at = "sending" /\ job \in Job /\ job.account \in rows /\ job.account \in Accounts
      /\ job.deal \in Deals /\ job.amount \in Nat
  BY DEF SendInstant, IInv, Fits, Telling, InRows, Job
<1>2. UNCHANGED <<ownVars, transfers>>
  BY DEF SendInstant
<1>3. next.at = "recording" /\ next.account = job.account
  BY <1>1 DEF Job
<1>4. \/ PayOut(job.account, job.deal, job.amount) /\ GoOn(h, next)
      \/ GoOn(h, AfterInstant(h)) /\ UNCHANGED <<stripe, payouts>>
  BY DEF SendInstant
<1> HIDE DEF next
<1>5. CASE PayOut(job.account, job.deal, job.amount) /\ GoOn(h, next)
  <2>1. /\ \A b \in Accounts : stripe'[b].balance > 0 => b \in rows
        /\ \A p \in DOMAIN payouts' : payouts'[p].account \in rows
    BY <1>1, <1>5, PaidFrom
  <2>2. calm' => TransfersOnDeals'
    BY <1>1, <1>2, <1>3, <1>5, GoOnTells, SameTransfers DEF ownVars
  <2> QED
    BY <1>1, <1>2, <1>3, <1>5, <2>1, <2>2, GoOnTells, RequestTells DEF ownVars
<1>6. CASE GoOn(h, AfterInstant(h)) /\ UNCHANGED <<stripe, payouts>>
  BY <1>1, <1>2, <1>6, AfterInRows, GoOnTells, QuietRequest DEF ownVars
<1> QED
  BY <1>4, <1>5, <1>6

LEMMA RecordInstantTells ==
    ASSUME IInv, Telling, NEW h \in Handlers, RecordInstant(h)
    PROVE  Telling'
<1>1. jobs[h].at = "recording" /\ GoOn(h, AfterInstant(h))
  BY DEF RecordInstant
<1>2. UNCHANGED <<rows, opted, audited, told, processed, stripeVars>>
  BY DEF RecordInstant
<1>3. \A d \in Deals : deals'[d].transfer = deals[d].transfer
  BY DEF RecordInstant, IInv, TypeOK, DealRow
<1> QED
  BY <1>1, <1>2, <1>3, AfterInRows, GoOnTells, QuietRequest DEF stripeVars

LEMMA AuditReleaseTells ==
    ASSUME IInv, Telling, NEW h \in Handlers, AuditRelease(h)
    PROVE  Telling'
<1>1. jobs[h].at = "auditing" /\ GoOn(h, NoJob)
      /\ UNCHANGED <<rows, opted, deals, told, processed, stripeVars>>
  BY DEF AuditRelease
<1> QED
  BY <1>1, GoOnTells, NoJobFits, QuietRequest DEF stripeVars

LEMMA DieTells ==
    ASSUME IInv, Telling, NEW h \in Handlers, Die(h)
    PROVE  Telling'
<1>1. /\ jobs' = [jobs EXCEPT ![h] = NoJob] /\ calm' = FALSE
      /\ UNCHANGED <<ownVars, stripeVars, hook, calls>>
  BY DEF Die
<1> QED
  BY <1>1, NoJobFits, RequestTells DEF ownVars, stripeVars, Telling, InRows

-----------------------------------------------------------------------------
\* A step of the owner or of Stripe.
LEMMA AsideTells ==
    ASSUME IInv, Telling, UNCHANGED <<rows, deals, told, processed, jobs, hook, calm>>,
           DOMAIN transfers' = DOMAIN transfers,
           \A a \in Accounts : stripe'[a].balance > 0 => a \in rows,
           \A p \in DOMAIN payouts' : payouts'[p].account \in rows
    PROVE  Telling'
  BY DEF Telling, InRows, FailuresTold, Heard, TransfersOnDeals, ToldInTurn

LEMMA SetInstantPreferenceTells ==
    ASSUME IInv, Telling, NEW a \in Accounts, SetInstantPreference(a)
    PROVE  Telling'
<1>1. UNCHANGED <<rows, deals, audited, told, processed, stripeVars, jobs, hook, calls, deaths,
                  calm>>
  BY DEF SetInstantPreference
<1> QED
  BY <1>1, AsideTells DEF stripeVars, Telling, InRows

LEMMA OnboardingTells ==
    ASSUME IInv, Telling, NEW a \in Accounts, Onboarding(a)
    PROVE  Telling'
<1>1. UNCHANGED <<ownVars, transfers, payouts, jobs, hook, calls, deaths, calm>>
  BY DEF Onboarding, Aside
<1>2. \A b \in Accounts : stripe'[b].balance = stripe[b].balance
  BY DEF Onboarding, IInv, TypeOK, AccountState
<1> QED
  BY <1>1, <1>2, AsideTells DEF ownVars, Telling, InRows

LEMMA ScheduledPayoutTells ==
    ASSUME IInv, Telling, NEW a \in Accounts, ScheduledPayout(a)
    PROVE  Telling'
<1>1. /\ PayOut(a, None, stripe[a].balance) /\ stripe[a].balance > 0
      /\ UNCHANGED <<ownVars, transfers, jobs, hook, calls, deaths, calm>>
  BY DEF ScheduledPayout, Aside
<1>2. stripe[a].balance \in Nat /\ a \in rows
  BY <1>1 DEF IInv, TypeOK, AccountState, Telling, InRows
<1> QED
  BY <1>1, <1>2, PaidFrom, AsideTells DEF ownVars

LEMMA PayoutFailsTells ==
    ASSUME IInv, Telling, NEW p \in DOMAIN payouts, PayoutFails(p)
    PROVE  Telling'
<1> DEFINE row == [payouts[p] EXCEPT !.failed = TRUE]
<1>1. payouts \in Seq(PayoutRow) /\ payouts[p] \in PayoutRow
  BY DEF IInv, TypeOK
<1>2. payouts[p].account \in rows /\ row.account = payouts[p].account
  BY <1>1 DEF Telling, InRows, PayoutRow
<1>3. /\ payouts' = [payouts EXCEPT ![p] = row]
      /\ stripe' = [stripe EXCEPT ![payouts[p].account].balance = @ + payouts[p].amount]
      /\ UNCHANGED <<ownVars, transfers, jobs, hook, calls, deaths, calm>>
  BY DEF PayoutFails, Aside
<1> HIDE DEF row
<1>4. \A a \in Accounts : stripe'[a].balance > 0 => a \in rows
  BY <1>2, <1>3 DEF Telling, InRows, IInv, TypeOK, AccountState
<1>5. \A q \in DOMAIN payouts' : payouts'[q].account \in rows
  BY <1>1, <1>2, <1>3 DEF Telling, InRows
<1> QED
  BY <1>3, <1>4, <1>5, AsideTells DEF ownVars

LEMMA TransferReversedTells ==
    ASSUME IInv, Telling, NEW n \in DOMAIN transfers, TransferReversed(n)
    PROVE  Telling'
<1> DEFINE t == transfers[n]
           row == [t EXCEPT !.reversed = TRUE]
<1>1. /\ transfers' = [transfers EXCEPT ![n] = row]
      /\ stripe' = [stripe EXCEPT ![t.account].balance = @ - Net(t.deal)]
      /\ UNCHANGED <<ownVars, payouts, jobs, hook, calls, deaths, calm>>
  BY DEF TransferReversed, Aside
<1>2. transfers[n].deal \in Deals
  <2> DEFINE Row == [deal: Deals, account: Accounts, reversed: BOOLEAN]
  <2>1. transfers \in Seq(Row)
    BY DEF IInv, TypeOK
  <2> HIDE DEF Row
  <2>2. transfers[n] \in Row
    BY <2>1
  <2> QED
    BY <2>2 DEF Row
<1>3. Net(t.deal) \in Nat
  BY <1>2, PayoutAssumption
<1> HIDE DEF t, row
<1>4. \A a \in Accounts : stripe'[a].balance > 0 => a \in rows
  BY <1>1, <1>3 DEF Telling, InRows, IInv, TypeOK, AccountState
<1>5. DOMAIN transfers' = DOMAIN transfers
  BY <1>1
<1> QED
  BY <1>1, <1>4, <1>5, AsideTells DEF ownVars, Telling, InRows

-----------------------------------------------------------------------------
\* The webhook.
LEMMA HandleEventTells ==
    ASSUME IInv, Telling, NEW e \in Event, HandleEvent(e)
    PROVE  Telling'
<1>1. /\ Sent(e) /\ e \notin processed /\ hook = None /\ Tell(e) /\ hook' = e
      /\ calm' => calm /\ \A h \in Handlers : jobs[h] = NoJob
      /\ UNCHANGED <<rows, opted, deals, audited, processed, stripeVars, jobs, calls, deaths>>
  BY DEF HandleEvent
<1>2. told \in [Event -> Nat]
  BY DEF IInv, TypeOK
<1>3. Concerned(e) => told' = [told EXCEPT ![e] = @ + 1]
  BY <1>1 DEF Tell
<1>4. \A f \in Event : (told[f] > 0 => told'[f] > 0) /\ (f # e => told'[f] = told[f])
  BY <1>1, <1>2 DEF Tell
<1>5. e.type = "payout.failed" => Concerned(e)
  BY <1>1 DEF Sent, Concerned, Telling, InRows
<1>6. InRows'
  BY <1>1 DEF stripeVars, Telling, InRows
<1>7. FailuresTold'
  <2>1. processed \subseteq Event
    BY DEF IInv, TypeOK
  <2>2. \A f \in processed : Heard(f)'
    BY <1>2, <1>4, <2>1 DEF Telling, FailuresTold, Heard
  <2>3. Heard(e)'
    BY <1>2, <1>3, <1>5 DEF Heard
  <2> QED
    BY <1>1, <2>2, <2>3 DEF FailuresTold, Heard
<1>8. ASSUME calm' PROVE TransfersOnDeals' /\ ToldInTurn'
  <2>1. calm /\ TransfersOnDeals /\ ToldInTurn /\ \A h \in Handlers : jobs[h].at = "idle"
    BY <1>1, <1>8, NoJobFits DEF Telling
  <2>2. Concerned(e)
    BY <1>1, <2>1 DEF Sent, Concerned, TransfersOnDeals, Telling, InRows
  <2>3. told[e] = 0 /\ told'[e] = 1
    BY <1>1, <1>2, <1>3, <2>1, <2>2, PayoutAssumption DEF ToldInTurn
  <2>4. ToldInTurn'
    BY <1>1, <1>4, <2>1, <2>3, PayoutAssumption DEF ToldInTurn
  <2> QED
    BY <1>1, <2>1, <2>4 DEF TransfersOnDeals, stripeVars
<1> QED
  BY <1>6, <1>7, <1>8 DEF Telling

LEMMA MarkProcessedTells ==
    ASSUME IInv, Telling, MarkProcessed
    PROVE  Telling'
<1>1. /\ hook # None /\ processed' = processed \cup {hook} /\ hook' = None
      /\ UNCHANGED <<rows, opted, deals, audited, told, stripeVars, jobs, calls, deaths, calm>>
  BY DEF MarkProcessed
<1>2. InRows'
  BY <1>1 DEF stripeVars, Telling, InRows
<1>3. FailuresTold'
  BY <1>1 DEF Telling, FailuresTold, Heard
<1>4. ASSUME calm' PROVE TransfersOnDeals' /\ ToldInTurn'
  BY <1>1, <1>4, PayoutAssumption DEF Telling, TransfersOnDeals, ToldInTurn, stripeVars
<1> QED
  BY <1>2, <1>3, <1>4 DEF Telling

LEMMA HookDiesTells ==
    ASSUME IInv, Telling, HookDies
    PROVE  Telling'
<1>1. hook' = None /\ calm' = FALSE /\ UNCHANGED <<ownVars, stripeVars, jobs, calls>>
  BY DEF HookDies
<1> QED
  BY <1>1 DEF ownVars, stripeVars, Telling, InRows, FailuresTold, Heard

-----------------------------------------------------------------------------
LEMMA StepTells == IInv /\ Telling /\ [Next]_vars => Telling'
<1> SUFFICES ASSUME IInv, Telling, [Next]_vars PROVE Telling'
  OBVIOUS
<1>1. CASE UNCHANGED vars
  <2>1. UNCHANGED <<ownVars, stripeVars, jobs, hook, calls, deaths, calm>>
    BY <1>1 DEF vars
  <2> QED
    BY <2>1, AsideTells DEF ownVars, stripeVars, Telling, InRows
<1>2. ASSUME NEW h \in Handlers, NEW a \in Accounts, NEW d \in Deals,
             Release(h, d, a) \/ RequestInstant(h, d, a)
      PROVE Telling'
  BY <1>2, ArrivalsTell
<1>3. ASSUME NEW h \in Handlers, CreateAccount(h) \/ Resume(h) \/ Die(h) PROVE Telling'
  BY <1>3, CreateAccountTells, InsertAccountTells, MakeTransferTells, CommitPaidTells,
     CheckInstantTells, SendInstantTells, RecordInstantTells, AuditReleaseTells, DieTells
     DEF Resume
<1>4. CASE AtStripe
  BY <1>4, OnboardingTells, ScheduledPayoutTells, PayoutFailsTells, TransferReversedTells
     DEF AtStripe
<1>5. ASSUME NEW a \in Accounts, SetInstantPreference(a) PROVE Telling'
  BY <1>5, SetInstantPreferenceTells
<1>6. ASSUME NEW e \in Event, HandleEvent(e) PROVE Telling'
  BY <1>6, HandleEventTells
<1> QED
  BY <1>1, <1>2, <1>3, <1>4, <1>5, <1>6, MarkProcessedTells, HookDiesTells DEF Next

\* No failed payout is acknowledged untold, however requests and events overlap
\* and die; one after the other no reversal is either, and nobody is told twice.
THEOREM TroubleTold == Spec => []TroubleIsTold
<1>1. IInv /\ Telling => TroubleIsTold
  <2> SUFFICES ASSUME IInv, Telling PROVE TroubleIsTold
    OBVIOUS
  <2>1. processed \subseteq Event
    BY DEF IInv, TypeOK
  <2>2. \A e \in processed : e.type = "payout.failed" => told[e] > 0
    BY DEF Telling, FailuresTold, Heard
  <2>3. calm => \A e \in Event : told[e] <= 1 /\ (e \in processed => told[e] > 0)
    BY DEF Telling, ToldInTurn
  <2> QED
    BY <2>1, <2>2, <2>3 DEF TroubleIsTold
<1> QED
  BY <1>1, InitTells, StepTells, PayoutInvariance, PTL DEF Spec
=============================================================================

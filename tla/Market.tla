------------------------------- MODULE Market -------------------------------
(***************************************************************************)
(* Listings and campaigns, the deals that come from them, and their        *)
(* removal.                                                                *)
(*                                                                         *)
(* A deal begins as a booking of a listing or as an application to a       *)
(* campaign, and references the rows it came from.  An owner who removes a *)
(* row archives it if any deal references it; a Super-Admin detaches the   *)
(* deals and deletes it.  Listings and campaigns go through the same code  *)
(* but for the portfolio of a listing, and are both "sources" here.        *)
(*                                                                         *)
(* Files live in an object store that no transaction covers: they are      *)
(* deleted before the row that names them is, and a deletion that fails is *)
(* passed over.  A handler is split where it has read what it later        *)
(* commits, and around its uploads.                                        *)
(***************************************************************************)
EXTENDS Integers, FiniteSets

CONSTANTS
    MaxDeals,       \* bound on the deals rows
    Owners,         \* platform owners; there is one business
    Listings, Campaigns,    \* ids of platforms and campaigns rows
    Files,          \* stored files
    Handlers,       \* requests handled at a time
    None,
    MaxCalls,       \* bound on the calls made
    MaxDeaths       \* bound on the handlers that die half way

VARIABLES
    rows,           \* the platforms and campaigns rows
    deals,          \* the deals rows
    stored,         \* files in the object store
    orphans,        \* (history) files whose deletion failed, or whose upload was given up
    jobs,           \* handler -> what is left of it
    calls, deaths,  \* calls made and handlers died so far
    calm,           \* (history) no two handlers overlapped and none died
    withdrawn       \* (history) unfunded deal, the source its owner withdrew, and
                    \* whether Stripe had been asked for the payment by then

marketVars == <<rows, deals, stored, orphans, withdrawn>>
vars == <<marketVars, jobs, calls, deaths, calm>>

Deals == 1..MaxDeals
Sources == Listings \cup Campaigns

ASSUME MarketAssumption ==
    /\ MaxDeals \in Nat /\ MaxCalls \in Nat /\ MaxDeaths \in Nat
    /\ Listings \cap Campaigns = {}
    /\ None \notin Owners \cup Sources \cup Files \cup Deals

PreFunding == {"awaiting_approval", "approved", "awaiting_funding"}

\* An entry of a listing's portfolio is the files it names.
Portfolio == SUBSET SUBSET Files

Row == [state: {"new", "live", "archived", "gone"}, owner: {None} \cup Owners,
        suspended: BOOLEAN, image: {None} \cup Files, media: Portfolio]
DealRow == [status: {"absent", "funded", "cancelled"} \cup PreFunding,
            owner: {None} \cup Owners, sources: SUBSET Sources]
Job == [at: {"idle", "inserting", "uploading", "covering", "attaching", "archiving",
             "deleting", "detaching", "deletingMedia", "funding"},
        source: {None} \cup Sources, deal: DealRow, image: BOOLEAN, id: {None} \cup Deals,
        file: {None} \cup Files, cover: {None} \cup Files, media: Portfolio,
        referencing: SUBSET Deals]

TypeOK ==
    /\ rows \in [Sources -> Row]
    /\ deals \in [Deals -> DealRow]
    /\ stored \subseteq Files /\ orphans \subseteq Files
    /\ withdrawn \subseteq Deals \X Sources \X BOOLEAN
    /\ jobs \in [Handlers -> Job]
    /\ calls \in 0..MaxCalls /\ deaths \in 0..MaxDeaths /\ calm \in BOOLEAN

NoRow == [state |-> "new", owner |-> None, suspended |-> FALSE, image |-> None, media |-> {}]
NoDeal == [status |-> "absent", owner |-> None, sources |-> {}]
NoJob == [at |-> "idle", source |-> None, deal |-> NoDeal, image |-> FALSE, id |-> None,
          file |-> None, cover |-> None, media |-> {}, referencing |-> {}]

Exists(s) == rows[s].state \in {"live", "archived"}
Referencing(s) == {d \in Deals : s \in deals[d].sources}
FilesOf(row) == (UNION row.media) \cup ({row.image} \ {None})
Saved(job) == {job.file, job.cover} \ {None}

(***************************************************************************)
(* A call arrives, goes on, or ends.                                       *)
(***************************************************************************)
Arrive(h, job) ==
    /\ jobs[h] = NoJob /\ calls < MaxCalls
    /\ calls' = calls + 1
    /\ jobs' = [jobs EXCEPT ![h] = job]
    /\ calm' = (calm /\ \A other \in Handlers \ {h} : jobs[other] = NoJob)
    /\ UNCHANGED deaths

GoOn(h, job) ==
    /\ jobs' = [jobs EXCEPT ![h] = job]
    /\ UNCHANGED <<calls, deaths, calm>>

(***************************************************************************)
(* Offering.                                                               *)
(***************************************************************************)
Create(h, s, owner) ==
    /\ rows[s].state = "new"
    /\ s \in Campaigns <=> owner = None
    /\ rows' = [rows EXCEPT ![s] = [NoRow EXCEPT !.state = "live", !.owner = owner]]
    /\ Arrive(h, NoJob)
    /\ UNCHANGED <<deals, stored, orphans, withdrawn>>

\* A Super-Admin hides a row or shows it again.
Suspend(h, s) ==
    /\ Exists(s)
    /\ rows' = [rows EXCEPT ![s].suspended = ~@]
    /\ Arrive(h, NoJob)
    /\ UNCHANGED <<deals, stored, orphans, withdrawn>>

\* A picture of the row, or an entry of a listing's portfolio: a video, a cover
\* or both.
Upload(h, s, image) ==
    /\ Exists(s) /\ (image \/ s \in Listings)
    /\ Arrive(h, [NoJob EXCEPT !.at = "uploading", !.source = s, !.image = image])
    /\ UNCHANGED marketVars

Unnamed(f) ==
    /\ f \notin stored \cup orphans
    /\ \A s \in Sources : f \notin FilesOf(rows[s])
    /\ \A h \in Handlers : f \notin Saved(jobs[h]) \cup (UNION jobs[h].media)

\* Of what the store holds by then, as many of the files go as it will delete.
Erase(held, files) ==
    \E refused \in SUBSET (held \cap files) :
        /\ stored' = (held \ files) \cup refused
        /\ orphans' = (orphans \ files) \cup refused

\* Mutant of Replaced: the picture that is replaced stays in the store.
ReplacedKept(s, image) == {}

Replaced(s, image) == IF image THEN {rows[s].image} ELSE {}

\* The file goes to the store, then the picture it replaces is deleted.  A video
\* may have a cover, which is stored after it.
SaveUpload(h) ==
    LET job == jobs[h]
    IN  /\ job.at = "uploading"
        /\ \E f \in Files : \E stage \in {"attaching", "covering"} :
              /\ Unnamed(f) /\ (job.image => stage = "attaching")
              /\ Erase(stored \cup {f}, Replaced(job.source, job.image))
              /\ GoOn(h, [job EXCEPT !.at = stage, !.file = f])
        /\ UNCHANGED <<rows, deals, withdrawn>>

SaveCover(h) ==
    /\ jobs[h].at = "covering"
    /\ \E f \in Files :
          /\ Unnamed(f)
          /\ stored' = stored \cup {f}
          /\ GoOn(h, [jobs[h] EXCEPT !.at = "attaching", !.cover = f])
    /\ UNCHANGED <<rows, deals, orphans, withdrawn>>

\* Empty or too large: the request ends, and a video stored before its cover
\* was refused stays.
RefuseUpload(h) ==
    /\ jobs[h].at \in {"uploading", "covering"}
    /\ orphans' = orphans \cup Saved(jobs[h])
    /\ GoOn(h, NoJob)
    /\ UNCHANGED <<rows, deals, stored, withdrawn>>

\* Of a row deleted meanwhile nothing can be written.
AttachUpload(h) ==
    LET job == jobs[h]
    IN  /\ job.at = "attaching"
        /\ rows' = IF ~Exists(job.source) THEN rows
                   ELSE IF job.image THEN [rows EXCEPT ![job.source].image = job.file]
                   ELSE [rows EXCEPT ![job.source].media = @ \cup {Saved(job)}]
        /\ GoOn(h, NoJob)
        /\ UNCHANGED <<deals, stored, orphans, withdrawn>>

DeleteMedia(h, s) ==
    /\ Exists(s)
    /\ \E entry \in rows[s].media :
          /\ Erase(stored, entry)
          /\ Arrive(h, [NoJob EXCEPT !.at = "deletingMedia", !.source = s, !.media = {entry}])
    /\ UNCHANGED <<rows, deals, withdrawn>>

CommitDeleteMedia(h) ==
    /\ jobs[h].at = "deletingMedia"
    /\ rows' = [rows EXCEPT ![jobs[h].source].media = @ \ jobs[h].media]
    /\ GoOn(h, NoJob)
    /\ UNCHANGED <<deals, stored, orphans, withdrawn>>

(***************************************************************************)
(* Deals come about.  A foreign key refuses one whose source was deleted.  *)
(***************************************************************************)
CreateDeal(h, owner, s) ==
    /\ s \in Listings /\ rows[s].state = "live" /\ ~rows[s].suspended
    /\ Arrive(h, [NoJob EXCEPT !.at = "inserting",
                  !.deal = [status |-> "awaiting_approval", owner |-> owner, sources |-> {s}]])
    /\ UNCHANGED marketVars

Applications(owner, c) ==
    {d \in Deals : deals[d].owner = owner /\ c \in deals[d].sources
                   /\ deals[d].status # "cancelled"}

MayApply(owner, c) == Applications(owner, c) = {}

\* The listing the owner would promote on is any of the owner's.
Apply(h, owner, c, with) ==
    /\ c \in Campaigns /\ rows[c].state = "live" /\ ~rows[c].suspended
    /\ MayApply(owner, c)
    /\ \A l \in with : Exists(l) /\ rows[l].owner = owner
    /\ Arrive(h, [NoJob EXCEPT !.at = "inserting",
                  !.deal = [status |-> "awaiting_approval", owner |-> owner,
                            sources |-> {c} \cup with]])
    /\ UNCHANGED marketVars

InsertDeal(h) ==
    /\ jobs[h].at = "inserting"
    /\ \E d \in Deals :
          /\ deals[d] = NoDeal /\ \A e \in Deals : e < d => deals[e] # NoDeal
          /\ deals' = IF \A s \in jobs[h].deal.sources : Exists(s)
                      THEN [deals EXCEPT ![d] = jobs[h].deal] ELSE deals
    /\ GoOn(h, NoJob)
    /\ UNCHANGED <<rows, stored, orphans, withdrawn>>

(***************************************************************************)
(* The deal up to its funding, one atomic step per handler but for the     *)
(* call to Stripe (module DealRace takes them apart).                      *)
(***************************************************************************)
Move(d, from, to) ==
    /\ deals[d].status \in from
    /\ deals' = [deals EXCEPT ![d].status = to]
    /\ UNCHANGED <<rows, stored, orphans, withdrawn>>

ApproveDeal(h, d) == Move(d, {"awaiting_approval"}, "approved") /\ Arrive(h, NoJob)
DeclineDeal(h, d) == Move(d, PreFunding, "cancelled") /\ Arrive(h, NoJob)

\* Mutant of SourceRemoved: a campaign's removal goes unnoticed.
ListingRemoved(d) == \E s \in deals[d].sources \cap Listings : rows[s].state = "archived"

SourceRemoved(d) == \E s \in deals[d].sources : rows[s].state = "archived"

FundDeal(h, d) ==
    /\ deals[d].status = "approved" /\ ~SourceRemoved(d)
    /\ Arrive(h, [NoJob EXCEPT !.at = "funding", !.id = d])
    /\ UNCHANGED marketVars

CommitFundDeal(h) ==
    /\ jobs[h].at = "funding"
    /\ deals' = [deals EXCEPT ![jobs[h].id].status = "awaiting_funding"]
    /\ GoOn(h, NoJob)
    /\ UNCHANGED <<rows, stored, orphans, withdrawn>>

\* The business's card is charged, whenever it confirms the payment.
Paid(d) ==
    /\ Move(d, {"awaiting_funding"}, "funded")
    /\ UNCHANGED <<jobs, calls, deaths, calm>>

(***************************************************************************)
(* Removal.                                                                *)
(***************************************************************************)
RemoveRow(h, s) ==
    IF Referencing(s) # {}
    THEN /\ Arrive(h, [NoJob EXCEPT !.at = "archiving", !.source = s])
         /\ UNCHANGED <<stored, orphans>>
    ELSE /\ Erase(stored, FilesOf(rows[s]))
         /\ Arrive(h, [NoJob EXCEPT !.at = "deleting", !.source = s, !.media = rows[s].media])

\* The owner's own removal.
Remove(h, s) ==
    /\ rows[s].state = "live"
    /\ RemoveRow(h, s)
    /\ UNCHANGED <<rows, deals, withdrawn>>

Archive(h) ==
    LET s == jobs[h].source
    IN  /\ jobs[h].at = "archiving"
        /\ rows' = IF Exists(s) THEN [rows EXCEPT ![s].state = "archived"] ELSE rows
        /\ withdrawn' = withdrawn \cup
               {<<d, s, deals[d].status = "awaiting_funding">> :
                    d \in {e \in Referencing(s) : deals[e].status \in PreFunding}}
        /\ GoOn(h, NoJob)
        /\ UNCHANGED <<deals, stored, orphans>>

\* The foreign keys of deals and of portfolio rows allow the deletion; else the
\* transaction is rolled back, and the files are gone already.
Deletable(h) ==
    LET job == jobs[h]
    IN  /\ Exists(job.source)
        /\ Referencing(job.source) \subseteq job.referencing
        /\ rows[job.source].media \subseteq job.media

Deleted(h) == [rows EXCEPT ![jobs[h].source] = [NoRow EXCEPT !.state = "gone"]]

\* Mutant of CommitRemove: the reference of a deal made meanwhile is set to null.
CommitRemoveSetNull(h) ==
    /\ jobs[h].at = "deleting"
    /\ rows' = Deleted(h)
    /\ deals' = [d \in Deals |-> [deals[d] EXCEPT !.sources = @ \ {jobs[h].source}]]
    /\ GoOn(h, NoJob)
    /\ UNCHANGED <<stored, orphans, withdrawn>>

CommitRemove(h) ==
    /\ jobs[h].at = "deleting"
    /\ rows' = IF Deletable(h) THEN Deleted(h) ELSE rows
    /\ GoOn(h, NoJob)
    /\ UNCHANGED <<deals, stored, orphans, withdrawn>>

AdminRemove(h, s) ==
    /\ Exists(s)
    /\ Erase(stored, FilesOf(rows[s]))
    /\ Arrive(h, [NoJob EXCEPT !.at = "detaching", !.source = s, !.media = rows[s].media,
                               !.referencing = Referencing(s)])
    /\ UNCHANGED <<rows, deals, withdrawn>>

CommitAdminRemove(h) ==
    /\ jobs[h].at = "detaching"
    /\ IF Deletable(h)
       THEN /\ rows' = Deleted(h)
            /\ deals' = [d \in Deals |-> [deals[d] EXCEPT !.sources = @ \ {jobs[h].source}]]
       ELSE UNCHANGED <<rows, deals>>
    /\ GoOn(h, NoJob)
    /\ UNCHANGED <<stored, orphans, withdrawn>>

Die(h) ==
    /\ jobs[h] # NoJob /\ deaths < MaxDeaths
    /\ jobs' = [jobs EXCEPT ![h] = NoJob]
    /\ deaths' = deaths + 1 /\ calm' = FALSE
    /\ UNCHANGED <<marketVars, calls>>

(***************************************************************************)
(* The specification.                                                      *)
(***************************************************************************)
Init ==
    /\ rows = [s \in Sources |-> NoRow]
    /\ deals = [d \in Deals |-> NoDeal]
    /\ stored = {} /\ orphans = {}
    /\ withdrawn = {}
    /\ jobs = [h \in Handlers |-> NoJob]
    /\ calls = 0 /\ deaths = 0 /\ calm = TRUE

Resume(h) ==
    \/ SaveUpload(h) \/ SaveCover(h) \/ RefuseUpload(h) \/ AttachUpload(h)
    \/ CommitDeleteMedia(h) \/ InsertDeal(h) \/ CommitFundDeal(h) \/ Archive(h) \/ CommitRemove(h) \/ CommitAdminRemove(h)

Next ==
    \/ \E h \in Handlers :
          \/ \E s \in Sources :
                \/ \E owner \in Owners \cup {None} : Create(h, s, owner)
                \/ Suspend(h, s) \/ Remove(h, s) \/ AdminRemove(h, s)
                \/ DeleteMedia(h, s)
                \/ \E image \in BOOLEAN : Upload(h, s, image)
          \/ \E owner \in Owners :
                \/ \E s \in Listings : CreateDeal(h, owner, s)
                \/ \E c \in Campaigns : \E with \in {{}} \cup {{l} : l \in Listings} :
                      Apply(h, owner, c, with)
          \/ \E d \in Deals : ApproveDeal(h, d) \/ DeclineDeal(h, d) \/ FundDeal(h, d)
          \/ Resume(h) \/ Die(h)
    \/ \E d \in Deals : Paid(d)

Spec == Init /\ [][Next]_vars

(***************************************************************************)
(* What it promises.                                                       *)
(***************************************************************************)
Idle == \A h \in Handlers : jobs[h] = NoJob

\* One request after the other, and but for what it would not delete and the
\* videos whose cover was refused, the store holds exactly the files some
\* listing or campaign names: an archived row keeps its pictures and portfolio,
\* and a deleted or replaced one leaves nothing behind.  (remove_platform_row,
\* remove_campaign_row, add_media, upload_platform_image, delete_media)
StoreMatchesRows ==
    calm /\ Idle => stored \ orphans = UNION {FilesOf(rows[s]) : s \in Sources}

\* However requests overlap or die, what a deal came from is there as long as
\* the deal references it, and the reference goes only with a Super-Admin's
\* removal: an owner's removal that had counted no deals when one was being made
\* neither deletes the row under it nor detaches it.  (remove_platform_row,
\* remove_campaign_row, and the foreign keys of deals)
DealsKeepTheirSource ==
    [][\A d \in Deals : \A s \in deals[d].sources :
          IF s \in deals'[d].sources THEN Exists(s)'
          ELSE \E h \in Handlers : jobs[h].at = "detaching" /\ jobs[h].source = s
                                   /\ jobs'[h] = NoJob]_vars

\* One request after the other, a deal whose source was withdrawn before Stripe
\* was asked for its payment is never funded, as long as it references that
\* source.  (_source_removed, fund_deal)
WithdrawnStaysUnfunded ==
    calm => \A d \in Deals : \A s \in deals[d].sources :
        <<d, s, FALSE>> \in withdrawn =>
            deals[d].status \notin {"awaiting_funding", "funded"}
=============================================================================

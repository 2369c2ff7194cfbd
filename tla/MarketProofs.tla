---------------------------- MODULE MarketProofs ----------------------------
(***************************************************************************)
(* What module Market promises of the deals' sources, of withdrawn ones    *)
(* and of the files, for every number of owners, listings, campaigns,      *)
(* files, deals, requests and deaths.                                      *)
(*                                                                         *)
(* Every source a deal references exists: a deal is only inserted while    *)
(* its sources do, and a row is only deleted when the deals that reference *)
(* it are those the request is about to detach, of which an owner's        *)
(* removal has none.  So the reference goes with an admin's removal only.  *)
(*                                                                         *)
(* A withdrawn source that a deal references stays archived (Withdrawals), *)
(* so as long as nothing overlaps the check before the funding finds it.   *)
(* As long as nothing overlaps, a file is named by one row, and the store  *)
(* differs from what the rows name by what the one request under way has   *)
(* done to it so far, and by what it would not delete (Storing).           *)
(***************************************************************************)
EXTENDS Market, TLAPS

Complete(job) ==
    /\ job \in Job
    /\ job.at \in {"uploading", "covering", "attaching", "archiving", "deleting", "detaching",
                   "deletingMedia"} => job.source \in Sources
    /\ job.at = "uploading" => job.file = None /\ job.cover = None
    /\ job.at \in {"covering", "attaching"} => job.file \in Files
    /\ job.at = "covering" \/ job.image => job.cover = None
    /\ job.at = "covering" => ~job.image
    /\ job.at = "funding" => job.id \in Deals
    /\ job.at = "deleting" => job.referencing = {}
    /\ job.at = "inserting" => job.deal.status = "awaiting_approval"

SourcesExist == \A d \in Deals : \A s \in deals[d].sources : Exists(s)

IInv == TypeOK /\ SourcesExist /\ \A h \in Handlers : Complete(jobs[h])

\* A reference stays, and what it names exists, or an admin's removal commits.
SourceMove ==
    \A d \in Deals : \A s \in deals[d].sources :
        IF s \in deals'[d].sources THEN Exists(s)'
        ELSE \E h \in Handlers : jobs[h].at = "detaching" /\ jobs[h].source = s
                                 /\ jobs'[h] = NoJob

Good == IInv' /\ SourceMove

LEMMA Entries ==
    ASSUME NEW m \in Portfolio
    PROVE  /\ {} \in Portfolio
           /\ \A n : m \ n \in Portfolio
           /\ \A e \in SUBSET Files : m \cup {e} \in Portfolio
           /\ \A e \in m : {e} \in Portfolio /\ e \subseteq Files
  BY DEF Portfolio

LEMMA NoneAttached == {} \in Portfolio
  BY DEF Portfolio

LEMMA NoJobComplete == Complete(NoJob) /\ NoDeal \in DealRow /\ NoRow \in Row
  BY NoneAttached DEF Complete, NoJob, Job, NoDeal, DealRow, NoRow, Row

\* The first state has no deal and no request.
LEMMA InitGood == Init => IInv
<1> SUFFICES ASSUME Init PROVE IInv
  OBVIOUS
<1>1. \A h \in Handlers : Complete(jobs[h]) /\ jobs[h] \in Job
  BY NoJobComplete DEF Init, Complete
<1>2. rows \in [Sources -> Row] /\ deals \in [Deals -> DealRow]
  BY NoJobComplete DEF Init
<1>3. jobs \in [Handlers -> Job]
  BY NoJobComplete DEF Init, Complete
<1>4. TypeOK
  BY <1>2, <1>3, MarketAssumption DEF Init, TypeOK
<1>5. SourcesExist
  BY DEF Init, NoDeal, SourcesExist
<1> QED
  BY <1>1, <1>4, <1>5 DEF IInv

\* Arriving, going on and dying keep the requests complete.
KeepsJobs ==
    /\ jobs' \in [Handlers -> Job] /\ \A h \in Handlers : Complete(jobs'[h])
    /\ calls' \in 0..MaxCalls /\ deaths' \in 0..MaxDeaths /\ calm' \in BOOLEAN

LEMMA Replaces ==
    ASSUME NEW h \in Handlers, NEW job, Complete(job), IInv, jobs' = [jobs EXCEPT ![h] = job]
    PROVE  jobs' \in [Handlers -> Job] /\ \A i \in Handlers : Complete(jobs'[i])
<1>1. job \in Job /\ jobs \in [Handlers -> Job]
  BY DEF Complete, IInv, TypeOK
<1>2. \A i \in Handlers : jobs'[i] = job \/ jobs'[i] = jobs[i]
  BY <1>1
<1> QED
  BY <1>1, <1>2 DEF IInv

LEMMA ArriveKeeps ==
    ASSUME NEW h \in Handlers, NEW job, Complete(job), IInv, Arrive(h, job)
    PROVE  KeepsJobs
<1>1. jobs' = [jobs EXCEPT ![h] = job]
  BY DEF Arrive
<1>2. calls' \in 0..MaxCalls /\ deaths' \in 0..MaxDeaths
  BY MarketAssumption DEF Arrive, IInv, TypeOK
<1>3. calm' \in BOOLEAN
  BY DEF Arrive, IInv, TypeOK
<1> QED
  BY <1>1, <1>2, <1>3, Replaces DEF KeepsJobs

LEMMA GoOnKeeps ==
    ASSUME NEW h \in Handlers, NEW job, Complete(job), IInv, GoOn(h, job)
    PROVE  KeepsJobs
  BY Replaces DEF GoOn, KeepsJobs, IInv, TypeOK

FilesKept == stored' \subseteq Files /\ orphans' \subseteq Files

\* What a step that moves no deal's source and deletes no row is left to show.
LEMMA SameSources ==
    ASSUME IInv, KeepsJobs, FilesKept, withdrawn' \subseteq Deals \X Sources \X BOOLEAN,
           rows' \in [Sources -> Row], deals' \in [Deals -> DealRow],
           \A s \in Sources : Exists(s) => Exists(s)',
           \A d \in Deals : deals'[d].sources = deals[d].sources
    PROVE  Good
<1>1. \A d \in Deals : deals[d].sources \subseteq Sources
  BY DEF IInv, TypeOK, DealRow
<1>2. \A d \in Deals : \A s \in deals'[d].sources : Exists(s)'
  BY <1>1 DEF IInv, SourcesExist
<1>3. TypeOK'
  BY DEF KeepsJobs, FilesKept, TypeOK
<1>4. SourcesExist'
  BY <1>2 DEF SourcesExist, Exists
<1>5. SourceMove
  BY <1>2 DEF SourceMove
<1> QED
  BY <1>3, <1>4, <1>5 DEF KeepsJobs, Good, IInv

\* A file store that only takes from Files or gives up.
LEMMA FilesTyped ==
    ASSUME IInv PROVE /\ \A s \in Sources : /\ rows[s] \in Row
                                             /\ rows[s].media \in Portfolio
                      /\ rows \in [Sources -> Row] /\ deals \in [Deals -> DealRow]
                      /\ stored \subseteq Files /\ orphans \subseteq Files
                      /\ (UNCHANGED <<stored, orphans>>) => FilesKept
                      /\ withdrawn \subseteq Deals \X Sources \X BOOLEAN
  BY DEF IInv, TypeOK, Row, FilesKept

LEMMA Erases ==
    ASSUME IInv, NEW held, held \subseteq Files, NEW files, Erase(held, files) PROVE FilesKept
  BY FilesTyped DEF Erase, FilesKept

-----------------------------------------------------------------------------
\* Offering.
LEMMA CreateGood ==
    ASSUME NEW h \in Handlers, NEW s \in Sources, NEW owner \in Owners \cup {None}, IInv,
           Create(h, s, owner)
    PROVE  Good
<1>1. KeepsJobs
  BY NoJobComplete, ArriveKeeps DEF Create
<1>2. [NoRow EXCEPT !.state = "live", !.owner = owner] \in Row
  BY NoneAttached DEF NoRow, Row
<1>3. rows' \in [Sources -> Row] /\ \A t \in Sources : Exists(t) => Exists(t)'
  BY <1>2, FilesTyped DEF Create, Exists, NoRow
<1> QED
  BY <1>1, <1>3, FilesTyped, SameSources DEF Create

LEMMA SuspendGood ==
    ASSUME NEW h \in Handlers, NEW s \in Sources, IInv, Suspend(h, s)
    PROVE  Good
<1>1. KeepsJobs
  BY NoJobComplete, ArriveKeeps DEF Suspend
<1>2. rows' \in [Sources -> Row] /\ \A t \in Sources : Exists(t) => Exists(t)'
  BY FilesTyped DEF Suspend, Exists, Row
<1> QED
  BY <1>1, <1>2, FilesTyped, SameSources DEF Suspend

\* A request that only reads, and then a row, a file or nothing changes.
LEMMA ReadsGood ==
    ASSUME IInv, KeepsJobs, FilesKept, UNCHANGED <<rows, deals, withdrawn>>
    PROVE  Good
  BY FilesTyped, SameSources DEF Exists

LEMMA UploadGood ==
    ASSUME NEW h \in Handlers, NEW s \in Sources, NEW image \in BOOLEAN, IInv,
           Upload(h, s, image)
    PROVE  Good
<1>1. Complete([NoJob EXCEPT !.at = "uploading", !.source = s, !.image = image])
  BY NoJobComplete DEF Complete, NoJob, Job
<1> QED
  BY <1>1, ArriveKeeps, ReadsGood, FilesTyped DEF Upload, marketVars

LEMMA SaveUploadGood ==
    ASSUME NEW h \in Handlers, IInv, SaveUpload(h)
    PROVE  Good
<1>1. PICK f \in Files, stage \in {"attaching", "covering"} :
          /\ jobs[h].image => stage = "attaching"
          /\ Erase(stored \cup {f}, Replaced(jobs[h].source, jobs[h].image))
          /\ GoOn(h, [jobs[h] EXCEPT !.at = stage, !.file = f])
  BY DEF SaveUpload
<1>2. Complete([jobs[h] EXCEPT !.at = stage, !.file = f])
  BY <1>1 DEF SaveUpload, Complete, Job, IInv
<1>3. FilesKept
  BY <1>1, Erases, FilesTyped
<1> QED
  BY <1>1, <1>2, <1>3, GoOnKeeps, ReadsGood DEF SaveUpload

LEMMA SaveCoverGood ==
    ASSUME NEW h \in Handlers, IInv, SaveCover(h)
    PROVE  Good
<1>1. PICK f \in Files : /\ stored' = stored \cup {f}
                         /\ GoOn(h, [jobs[h] EXCEPT !.at = "attaching", !.cover = f])
  BY DEF SaveCover
<1>2. Complete([jobs[h] EXCEPT !.at = "attaching", !.cover = f])
  BY DEF SaveCover, Complete, Job, IInv
<1>3. FilesKept
  BY <1>1, FilesTyped DEF SaveCover, FilesKept
<1> QED
  BY <1>1, <1>2, <1>3, GoOnKeeps, ReadsGood DEF SaveCover

LEMMA RefuseUploadGood ==
    ASSUME NEW h \in Handlers, IInv, RefuseUpload(h)
    PROVE  Good
<1>1. Saved(jobs[h]) \subseteq Files
  BY DEF Saved, Job, IInv, TypeOK
<1>2. FilesKept
  BY <1>1, FilesTyped DEF RefuseUpload, FilesKept
<1> QED
  BY <1>2, NoJobComplete, GoOnKeeps, ReadsGood DEF RefuseUpload

LEMMA AttachUploadGood ==
    ASSUME NEW h \in Handlers, IInv, AttachUpload(h)
    PROVE  Good
<1>1. KeepsJobs
  BY NoJobComplete, GoOnKeeps DEF AttachUpload
<1>2. jobs[h].source \in Sources /\ jobs[h].file \in Files /\ Saved(jobs[h]) \subseteq Files
  BY DEF AttachUpload, Complete, IInv, TypeOK, Job, Saved
<1>3. rows' \in [Sources -> Row] /\ \A t \in Sources : Exists(t) => Exists(t)'
  <2> DEFINE job == jobs[h]
             attached == IF job.image THEN [rows[job.source] EXCEPT !.image = job.file]
                         ELSE [rows[job.source] EXCEPT !.media = @ \cup {Saved(job)}]
  <2>1. attached \in Row /\ attached.state = rows[job.source].state
    BY <1>2, FilesTyped, Entries DEF Row
  <2>2. rows' = rows \/ rows' = [rows EXCEPT ![job.source] = attached]
    BY DEF AttachUpload
  <2> HIDE DEF attached
  <2> QED
    BY <1>2, <2>1, <2>2, FilesTyped DEF Exists
<1> QED
  BY <1>1, <1>3, FilesTyped, SameSources DEF AttachUpload

LEMMA DeleteMediaGood ==
    ASSUME NEW h \in Handlers, NEW s \in Sources, IInv, DeleteMedia(h, s)
    PROVE  Good
<1>1. PICK entry \in rows[s].media :
          /\ Erase(stored, entry)
          /\ Arrive(h, [NoJob EXCEPT !.at = "deletingMedia", !.source = s, !.media = {entry}])
  BY DEF DeleteMedia
<1>2. Complete([NoJob EXCEPT !.at = "deletingMedia", !.source = s, !.media = {entry}])
  BY <1>1, NoJobComplete, FilesTyped, Entries DEF Complete, NoJob, Job
<1> QED
  BY <1>1, <1>2, ArriveKeeps, ReadsGood, Erases, FilesTyped DEF DeleteMedia

LEMMA CommitDeleteMediaGood ==
    ASSUME NEW h \in Handlers, IInv, CommitDeleteMedia(h)
    PROVE  Good
<1>1. KeepsJobs
  BY NoJobComplete, GoOnKeeps DEF CommitDeleteMedia
<1>2. jobs[h].source \in Sources
  BY DEF CommitDeleteMedia, Complete, IInv
<1>3. rows' \in [Sources -> Row] /\ \A t \in Sources : Exists(t) => Exists(t)'
  <2> DEFINE left == [rows[jobs[h].source] EXCEPT !.media = @ \ jobs[h].media]
  <2>1. left \in Row /\ left.state = rows[jobs[h].source].state
    BY <1>2, FilesTyped, Entries DEF Row
  <2>2. rows' = [rows EXCEPT ![jobs[h].source] = left]
    BY DEF CommitDeleteMedia
  <2> HIDE DEF left
  <2> QED
    BY <1>2, <2>1, <2>2, FilesTyped DEF Exists
<1> QED
  BY <1>1, <1>3, FilesTyped, SameSources DEF CommitDeleteMedia

-----------------------------------------------------------------------------
\* Deals.
LEMMA CreateDealGood ==
    ASSUME NEW h \in Handlers, NEW owner \in Owners, NEW s \in Listings, IInv,
           CreateDeal(h, owner, s)
    PROVE  Good
<1>1. [status |-> "awaiting_approval", owner |-> owner, sources |-> {s}] \in DealRow
  BY DEF DealRow, Sources, PreFunding
<1>2. Complete([NoJob EXCEPT !.at = "inserting",
                !.deal = [status |-> "awaiting_approval", owner |-> owner, sources |-> {s}]])
  BY <1>1, NoJobComplete DEF Complete, NoJob, Job
<1> QED
  BY <1>2, ArriveKeeps, ReadsGood, FilesTyped DEF CreateDeal, marketVars

LEMMA ApplyGood ==
    ASSUME NEW h \in Handlers, NEW owner \in Owners, NEW c \in Campaigns,
           NEW with \in {{}} \cup {{l} : l \in Listings}, IInv, Apply(h, owner, c, with)
    PROVE  Good
<1> DEFINE deal == [status |-> "awaiting_approval", owner |-> owner, sources |-> {c} \cup with]
<1>1. deal \in DealRow /\ deal.status = "awaiting_approval"
  BY DEF DealRow, Sources, PreFunding
<1>2. Complete([NoJob EXCEPT !.at = "inserting", !.deal = deal])
  <2> HIDE DEF deal
  <2> QED
    BY <1>1, NoJobComplete DEF Complete, NoJob, Job
<1>3. Arrive(h, [NoJob EXCEPT !.at = "inserting", !.deal = deal])
  BY DEF Apply
<1> HIDE DEF deal
<1> QED
  BY <1>2, <1>3, ArriveKeeps, ReadsGood, FilesTyped DEF Apply, marketVars

LEMMA InsertDealGood ==
    ASSUME NEW h \in Handlers, IInv, InsertDeal(h)
    PROVE  Good
<1>1. KeepsJobs
  BY NoJobComplete, GoOnKeeps DEF InsertDeal
<1>2. PICK d \in Deals : /\ deals[d] = NoDeal
                         /\ deals' = IF \A s \in jobs[h].deal.sources : Exists(s)
                                     THEN [deals EXCEPT ![d] = jobs[h].deal] ELSE deals
  BY DEF InsertDeal
<1>3. jobs[h].deal \in DealRow
  BY DEF IInv, TypeOK, Job
<1>4. deals' \in [Deals -> DealRow]
  BY <1>2, <1>3, FilesTyped
<1>5. UNCHANGED rows /\ \A s \in Sources : Exists(s)' = Exists(s)
  BY DEF InsertDeal, Exists
<1>6. \A e \in Deals : deals'[e].sources = deals[e].sources
                       \/ (e = d /\ \A s \in deals'[e].sources : Exists(s))
  BY <1>2, FilesTyped
<1>7. \A e \in Deals : deals[e].sources \subseteq Sources /\ deals'[e].sources \subseteq Sources
  BY <1>4, FilesTyped DEF DealRow
<1>8. \A e \in Deals : \A s \in deals'[e].sources : Exists(s)'
  BY <1>5, <1>6, <1>7 DEF IInv, SourcesExist
<1>9. \A e \in Deals : deals[e].sources \subseteq deals'[e].sources
  <2>1. deals[d].sources = {}
    BY <1>2 DEF NoDeal
  <2> QED
    BY <1>6, <2>1
<1>10. SourcesExist' /\ SourceMove
  BY <1>8, <1>9 DEF SourcesExist, SourceMove, Exists
<1>11. TypeOK'
  BY <1>1, <1>4, FilesTyped DEF InsertDeal, KeepsJobs, TypeOK
<1> QED
  BY <1>1, <1>10, <1>11 DEF Good, IInv, KeepsJobs

\* A deal's own moves leave its sources alone.
LEMMA MoveKeeps ==
    ASSUME NEW d \in Deals, NEW from, NEW to \in {"approved", "awaiting_funding", "funded",
           "cancelled"}, IInv, Move(d, from, to), KeepsJobs
    PROVE  Good
<1>1. /\ deals' \in [Deals -> DealRow]
      /\ \A e \in Deals : deals'[e].sources = deals[e].sources
  BY FilesTyped DEF Move, DealRow, PreFunding
<1> QED
  BY <1>1, FilesTyped, SameSources DEF Move, Exists

LEMMA PartyGood ==
    ASSUME NEW h \in Handlers, NEW d \in Deals, IInv, ApproveDeal(h, d) \/ DeclineDeal(h, d)
    PROVE  Good
<1>1. KeepsJobs
  BY NoJobComplete, ArriveKeeps DEF ApproveDeal, DeclineDeal
<1> QED
  BY <1>1, MoveKeeps DEF ApproveDeal, DeclineDeal

LEMMA PaidGood ==
    ASSUME NEW d \in Deals, IInv, Paid(d)
    PROVE  Good
<1>1. KeepsJobs
  BY DEF Paid, KeepsJobs, IInv, TypeOK
<1> QED
  BY <1>1, MoveKeeps DEF Paid

LEMMA FundDealGood ==
    ASSUME NEW h \in Handlers, NEW d \in Deals, IInv, FundDeal(h, d)
    PROVE  Good
<1>1. Complete([NoJob EXCEPT !.at = "funding", !.id = d])
  BY NoJobComplete DEF Complete, NoJob, Job
<1> QED
  BY <1>1, ArriveKeeps, ReadsGood, FilesTyped DEF FundDeal, marketVars

LEMMA CommitFundDealGood ==
    ASSUME NEW h \in Handlers, IInv, CommitFundDeal(h)
    PROVE  Good
<1>1. KeepsJobs
  BY NoJobComplete, GoOnKeeps DEF CommitFundDeal
<1>2. jobs[h].id \in Deals
  BY DEF CommitFundDeal, Complete, IInv
<1>3. /\ deals' \in [Deals -> DealRow]
      /\ \A e \in Deals : deals'[e].sources = deals[e].sources
  BY <1>2, FilesTyped DEF CommitFundDeal, DealRow, PreFunding
<1> QED
  BY <1>1, <1>3, FilesTyped, SameSources DEF CommitFundDeal, Exists

-----------------------------------------------------------------------------
\* Removal.
LEMMA RemoveGood ==
    ASSUME NEW h \in Handlers, NEW s \in Sources, IInv, Remove(h, s)
    PROVE  Good
<1>1. CASE Referencing(s) # {}
  <2>1. Complete([NoJob EXCEPT !.at = "archiving", !.source = s])
    BY NoJobComplete DEF Complete, NoJob, Job
  <2> QED
    BY <1>1, <2>1, ArriveKeeps, ReadsGood, FilesTyped DEF Remove, RemoveRow
<1>2. CASE Referencing(s) = {}
  <2>1. Complete([NoJob EXCEPT !.at = "deleting", !.source = s, !.media = rows[s].media])
    BY NoJobComplete, FilesTyped DEF Complete, NoJob, Job
  <2> QED
    BY <1>2, <2>1, ArriveKeeps, ReadsGood, Erases, FilesTyped DEF Remove, RemoveRow
<1> QED
  BY <1>1, <1>2

LEMMA ArchiveGood ==
    ASSUME NEW h \in Handlers, IInv, Archive(h)
    PROVE  Good
<1>1. KeepsJobs
  BY NoJobComplete, GoOnKeeps DEF Archive
<1>2. jobs[h].source \in Sources
  BY DEF Archive, Complete, IInv
<1>3. rows' \in [Sources -> Row] /\ \A t \in Sources : Exists(t) => Exists(t)'
  BY <1>2, FilesTyped DEF Archive, Exists, Row
<1>4. withdrawn' \subseteq Deals \X Sources \X BOOLEAN
  <2>1. \A d \in Deals : <<d, jobs[h].source, deals[d].status = "awaiting_funding">>
                              \in Deals \X Sources \X BOOLEAN
    BY <1>2
  <2>2. {<<d, jobs[h].source, deals[d].status = "awaiting_funding">> :
            d \in {e \in Referencing(jobs[h].source) : deals[e].status \in PreFunding}}
                \subseteq Deals \X Sources \X BOOLEAN
    BY <2>1 DEF Referencing
  <2> QED
    BY <2>2, FilesTyped DEF Archive
<1> QED
  BY <1>1, <1>3, <1>4, FilesTyped, SameSources DEF Archive

\* A row that may be deleted is referenced by the deals the request knew at most.
LEMMA DeletedTyped ==
    ASSUME NEW h \in Handlers, IInv, jobs[h].source \in Sources, Deletable(h)
    PROVE  /\ Deleted(h) \in [Sources -> Row]
           /\ \A t \in Sources : t # jobs[h].source => Deleted(h)[t] = rows[t]
           /\ \A d \in Deals : jobs[h].source \in deals[d].sources => d \in jobs[h].referencing
<1>1. [NoRow EXCEPT !.state = "gone"] \in Row
  BY NoneAttached DEF NoRow, Row
<1> QED
  BY <1>1, FilesTyped DEF Deleted, Deletable, Referencing

LEMMA CommitRemoveGood ==
    ASSUME NEW h \in Handlers, IInv, CommitRemove(h)
    PROVE  Good
<1>1. KeepsJobs
  BY NoJobComplete, GoOnKeeps DEF CommitRemove
<1>2. jobs[h].source \in Sources /\ jobs[h].referencing = {}
  BY DEF CommitRemove, Complete, IInv
<1>3. CASE ~Deletable(h)
  BY <1>1, <1>3, FilesTyped, ReadsGood DEF CommitRemove
<1>4. CASE Deletable(h)
  <2>1. rows' = Deleted(h) /\ UNCHANGED <<deals, stored, orphans, withdrawn>>
    BY <1>4 DEF CommitRemove
  <2>2. rows' \in [Sources -> Row]
    BY <1>2, <1>4, <2>1, DeletedTyped
  <2>3. \A d \in Deals : \A t \in deals[d].sources : t \in Sources /\ t # jobs[h].source
    BY <1>2, <1>4, DeletedTyped, FilesTyped DEF DealRow
  <2>4. \A d \in Deals : \A t \in deals[d].sources : rows'[t] = rows[t]
    BY <1>2, <1>4, <2>1, <2>3, DeletedTyped
  <2>5. SourcesExist' /\ SourceMove
    BY <2>1, <2>4 DEF SourcesExist, SourceMove, Exists, IInv
  <2>6. TypeOK'
    BY <1>1, <2>1, <2>2, FilesTyped DEF KeepsJobs, TypeOK
  <2> QED
    BY <1>1, <2>5, <2>6 DEF Good, IInv, KeepsJobs
<1> QED
  BY <1>3, <1>4

LEMMA AdminRemoveGood ==
    ASSUME NEW h \in Handlers, NEW s \in Sources, IInv, AdminRemove(h, s)
    PROVE  Good
<1>1. Complete([NoJob EXCEPT !.at = "detaching", !.source = s, !.media = rows[s].media,
                             !.referencing = Referencing(s)])
  BY NoJobComplete, FilesTyped DEF Complete, NoJob, Job, Referencing
<1> QED
  BY <1>1, ArriveKeeps, ReadsGood, Erases, FilesTyped DEF AdminRemove

LEMMA CommitAdminRemoveGood ==
    ASSUME NEW h \in Handlers, IInv, CommitAdminRemove(h)
    PROVE  Good
<1> DEFINE source == jobs[h].source
<1>1. KeepsJobs
  BY NoJobComplete, GoOnKeeps DEF CommitAdminRemove
<1>2. source \in Sources /\ jobs[h].at = "detaching" /\ jobs'[h] = NoJob
  BY DEF CommitAdminRemove, GoOn, Complete, IInv, TypeOK
<1>3. CASE ~Deletable(h)
  BY <1>1, <1>3, FilesTyped, ReadsGood DEF CommitAdminRemove
<1>4. CASE Deletable(h)
  <2>1. /\ rows' = Deleted(h) /\ UNCHANGED <<stored, orphans, withdrawn>>
        /\ deals' = [d \in Deals |-> [deals[d] EXCEPT !.sources = @ \ {source}]]
    BY <1>4 DEF CommitAdminRemove
  <2>2. rows' \in [Sources -> Row]
    BY <1>2, <1>4, <2>1, DeletedTyped
  <2>3. /\ deals' \in [Deals -> DealRow]
        /\ \A d \in Deals : deals'[d].sources = deals[d].sources \ {source}
    BY <2>1, FilesTyped DEF DealRow
  <2>4. \A t \in Sources : t # source => rows'[t] = rows[t]
    BY <1>2, <1>4, <2>1, DeletedTyped
  <2>5. \A d \in Deals : deals[d].sources \subseteq Sources
    BY FilesTyped DEF DealRow
  <2>6. \A d \in Deals : \A t \in deals'[d].sources : Exists(t)'
    BY <2>3, <2>4, <2>5 DEF SourcesExist, Exists, IInv
  <2>7. SourcesExist'
    BY <2>6 DEF SourcesExist, Exists
  <2>8. SourceMove
    BY <1>2, <2>3, <2>6 DEF SourceMove
  <2>9. TypeOK'
    BY <1>1, <2>1, <2>2, <2>3, FilesTyped DEF KeepsJobs, TypeOK
  <2> QED
    BY <1>1, <2>7, <2>8, <2>9 DEF Good, IInv, KeepsJobs
<1> QED
  BY <1>3, <1>4

LEMMA DieGood ==
    ASSUME NEW h \in Handlers, IInv, Die(h)
    PROVE  Good
<1>1. jobs' \in [Handlers -> Job] /\ \A i \in Handlers : Complete(jobs'[i])
  BY NoJobComplete, Replaces DEF Die
<1>2. deaths' \in 0..MaxDeaths
  BY MarketAssumption DEF Die, IInv, TypeOK
<1>3. KeepsJobs
  BY <1>1, <1>2 DEF Die, KeepsJobs, IInv, TypeOK
<1> QED
  BY <1>3, FilesTyped, ReadsGood DEF Die, marketVars

-----------------------------------------------------------------------------
LEMMA StepGood == IInv /\ [Next]_vars => Good
<1> SUFFICES ASSUME IInv, [Next]_vars PROVE Good
  OBVIOUS
<1>1. CASE UNCHANGED vars
  BY <1>1, FilesTyped, ReadsGood DEF vars, marketVars, KeepsJobs, IInv, TypeOK
<1>2. ASSUME NEW h \in Handlers, NEW s \in Sources,
             \/ \E owner \in Owners \cup {None} : Create(h, s, owner)
             \/ Suspend(h, s) \/ Remove(h, s) \/ AdminRemove(h, s)
             \/ \E image \in BOOLEAN : Upload(h, s, image)
             \/ DeleteMedia(h, s)
      PROVE Good
  BY <1>2, CreateGood, SuspendGood, RemoveGood, AdminRemoveGood, UploadGood, DeleteMediaGood
<1>3. ASSUME NEW h \in Handlers, NEW owner \in Owners,
             \/ \E s \in Listings : CreateDeal(h, owner, s)
             \/ \E c \in Campaigns : \E with \in {{}} \cup {{l} : l \in Listings} :
                   Apply(h, owner, c, with)
      PROVE Good
  BY <1>3, CreateDealGood, ApplyGood
<1>4. ASSUME NEW h \in Handlers, NEW d \in Deals,
             ApproveDeal(h, d) \/ DeclineDeal(h, d) \/ FundDeal(h, d)
      PROVE Good
  BY <1>4, PartyGood, FundDealGood
<1>5. ASSUME NEW h \in Handlers, Resume(h) \/ Die(h) PROVE Good
  BY <1>5, SaveUploadGood, SaveCoverGood, RefuseUploadGood, AttachUploadGood, CommitDeleteMediaGood,
     InsertDealGood, CommitFundDealGood, ArchiveGood, CommitRemoveGood, CommitAdminRemoveGood, DieGood
     DEF Resume
<1> QED
  BY <1>1, <1>2, <1>3, <1>4, <1>5, PaidGood DEF Next

\* The invariant holds in every state.
THEOREM MarketInvariance == Spec => []IInv
<1>1. IInv /\ [Next]_vars => IInv'
  BY StepGood DEF Good
<1> QED
  BY InitGood, <1>1, PTL DEF Spec

\* Every variable of the market keeps its type.
THEOREM MarketTypes == Spec => []TypeOK
<1>1. IInv => TypeOK
  BY DEF IInv
<1> QED
  BY <1>1, MarketInvariance, PTL

\* However requests overlap or die, what a deal came from is there as long as
\* the deal references it, and only a Super-Admin's removal takes the reference.
THEOREM SourcesKept == Spec => DealsKeepTheirSource
<1>1. IInv /\ [Next]_vars => [SourceMove]_vars
  BY StepGood DEF Good
<1> QED
  BY <1>1, MarketInvariance, PTL DEF Spec, DealsKeepTheirSource, SourceMove

-----------------------------------------------------------------------------
\* A withdrawn source that a deal still references is archived, and the deal is
\* not a row that is yet to come.
WithdrawnIsArchived ==
    \A d \in Deals, s \in Sources, asked \in BOOLEAN : <<d, s, asked>> \in withdrawn =>
        /\ deals[d].status # "absent"
        /\ s \in deals[d].sources => rows[s].state = "archived"

\* While all is calm one request is under way, and a deal withdrawn in time is
\* neither funded nor about to be.
OneJob == \A g, h \in Handlers : jobs[g].at # "idle" /\ jobs[h].at # "idle" => g = h
Unfunded ==
    \A d \in Deals : \A s \in deals[d].sources : <<d, s, FALSE>> \in withdrawn =>
        /\ deals[d].status \notin {"awaiting_funding", "funded"}
        /\ \A h \in Handlers : jobs[h].at = "funding" => jobs[h].id # d

Withdrawals == WithdrawnIsArchived /\ (calm => OneJob /\ Unfunded)

\* No request but this one is under way.
Alone(h) == \A i \in Handlers : i # h => jobs[i].at = "idle"

LEMMA InitWithdrawals == Init => Withdrawals
<1> SUFFICES ASSUME Init PROVE Withdrawals
  OBVIOUS
<1>1. withdrawn = {} /\ \A h \in Handlers : jobs[h].at = "idle"
  BY DEF Init, NoJob
<1> QED
  BY <1>1 DEF Withdrawals, WithdrawnIsArchived, OneJob, Unfunded

LEMMA ArriveAlone ==
    ASSUME NEW h \in Handlers, NEW job, Arrive(h, job)
    PROVE  /\ jobs' = [jobs EXCEPT ![h] = job] /\ jobs[h].at = "idle"
           /\ calm' => calm /\ Alone(h)
<1>1. NoJob.at = "idle"
  BY DEF NoJob
<1> QED
  BY <1>1 DEF Arrive, Alone

LEMMA GoOnAlone ==
    ASSUME NEW h \in Handlers, NEW job, Withdrawals, GoOn(h, job), jobs[h].at # "idle"
    PROVE  jobs' = [jobs EXCEPT ![h] = job] /\ (calm' => calm /\ Alone(h))
  BY DEF GoOn, Alone, Withdrawals, OneJob

\* A request that withdraws nothing and asks for no payment of a deal whose
\* source is archived.
LEMMA WithdrawalsStay ==
    ASSUME IInv, Withdrawals, NEW h \in Handlers, NEW job, jobs' = [jobs EXCEPT ![h] = job],
           withdrawn' = withdrawn, calm' => calm /\ Alone(h),
           \A s \in Sources : rows[s].state = "archived" =>
               rows'[s].state = "archived" \/ \A d \in Deals : s \notin deals'[d].sources,
           \A d \in Deals : deals[d].status # "absent" =>
               deals'[d].status # "absent" /\ deals'[d].sources \subseteq deals[d].sources,
           \A d \in Deals : deals'[d].status \in {"awaiting_funding", "funded"} =>
               \/ deals[d].status \in {"awaiting_funding", "funded"}
               \/ jobs[h].at = "funding" /\ jobs[h].id = d,
           job.at = "funding" => /\ ~SourceRemoved(job.id)
                                 /\ deals'[job.id].sources = deals[job.id].sources
    PROVE  Withdrawals'
<1>1. WithdrawnIsArchived'
  BY DEF Withdrawals, WithdrawnIsArchived
<1>2. ASSUME calm' PROVE OneJob' /\ Unfunded'
  <2>1. calm /\ Alone(h) /\ OneJob /\ Unfunded /\ WithdrawnIsArchived
    BY <1>2 DEF Withdrawals
  <2>2. \A i \in Handlers : jobs'[i] = IF i = h THEN job ELSE jobs[i]
    BY DEF IInv, TypeOK
  <2>3. OneJob'
    BY <2>1, <2>2 DEF OneJob, Alone
  <2>4. Unfunded'
    <3> SUFFICES ASSUME NEW d \in Deals, NEW s \in deals'[d].sources, <<d, s, FALSE>> \in withdrawn
                 PROVE  /\ deals'[d].status \notin {"awaiting_funding", "funded"}
                        /\ \A i \in Handlers : jobs'[i].at = "funding" => jobs'[i].id # d
      BY DEF Unfunded
    <3>1. s \in Sources
      <4>1. <<d, s, FALSE>> \in Deals \X Sources \X BOOLEAN
        BY FilesTyped
      <4> QED
        BY <4>1
    <3>2. deals[d].status # "absent" /\ s \in deals[d].sources /\ rows[s].state = "archived"
      BY <2>1, <3>1 DEF WithdrawnIsArchived
    <3>3. SourceRemoved(d)
      BY <3>2 DEF SourceRemoved
    <3>4. /\ deals[d].status \notin {"awaiting_funding", "funded"}
          /\ \A i \in Handlers : jobs[i].at = "funding" => jobs[i].id # d
      BY <2>1, <3>2 DEF Unfunded
    <3>5. deals'[d].status \notin {"awaiting_funding", "funded"}
      BY <3>4
    <3>6. \A i \in Handlers : jobs'[i].at = "funding" => jobs'[i].id # d
      BY <2>2, <3>3, <3>4
    <3> QED
      BY <3>5, <3>6
  <2> QED
    BY <2>3, <2>4
<1> QED
  BY <1>1, <1>2 DEF Withdrawals

\* A request that leaves the deals alone and keeps archived what was.
LEMMA OnlyRows ==
    ASSUME IInv, Withdrawals, NEW h \in Handlers, NEW job, jobs' = [jobs EXCEPT ![h] = job],
           UNCHANGED <<deals, withdrawn>>, calm' => calm /\ Alone(h), job.at # "funding",
           \A s \in Sources : rows[s].state = "archived" => rows'[s].state = "archived"
    PROVE  Withdrawals'
<1>1. \A d \in Deals : /\ deals'[d].status = deals[d].status
                       /\ deals'[d].sources = deals[d].sources
  OBVIOUS
<1> QED
  BY <1>1, WithdrawalsStay

LEMMA ArriveReads ==
    ASSUME IInv, Withdrawals, NEW h \in Handlers, NEW job, Arrive(h, job),
           UNCHANGED <<rows, deals, withdrawn>>, job.at # "funding"
    PROVE  Withdrawals'
  BY ArriveAlone, OnlyRows

LEMMA OfferingWithdraws ==
    ASSUME IInv, Withdrawals, NEW h \in Handlers, NEW s \in Sources,
           \/ \E owner \in Owners \cup {None} : Create(h, s, owner)
           \/ Suspend(h, s) \/ Remove(h, s) \/ AdminRemove(h, s)
           \/ \E image \in BOOLEAN : Upload(h, s, image)
           \/ DeleteMedia(h, s)
    PROVE  Withdrawals'
<1>0. NoJob.at = "idle"
  BY DEF NoJob
<1>1. ASSUME NEW owner \in Owners \cup {None}, Create(h, s, owner) PROVE Withdrawals'
  <2>1. \A t \in Sources : rows[t].state = "archived" => rows'[t].state = "archived"
    BY <1>1, FilesTyped DEF Create
  <2> QED
    BY <1>0, <1>1, <2>1, ArriveAlone, OnlyRows DEF Create
<1>2. CASE Suspend(h, s)
  <2>1. \A t \in Sources : rows[t].state = "archived" => rows'[t].state = "archived"
    BY <1>2, FilesTyped DEF Suspend, Row
  <2> QED
    BY <1>0, <1>2, <2>1, ArriveAlone, OnlyRows DEF Suspend
<1>3. CASE Remove(h, s)
  <2>1. /\ [NoJob EXCEPT !.at = "archiving", !.source = s].at = "archiving"
        /\ [NoJob EXCEPT !.at = "deleting", !.source = s, !.media = rows[s].media].at = "deleting"
    BY DEF NoJob
  <2> QED
    BY <1>3, <2>1, ArriveReads DEF Remove, RemoveRow
<1>4. CASE AdminRemove(h, s)
  <2>1. [NoJob EXCEPT !.at = "detaching", !.source = s, !.media = rows[s].media,
                      !.referencing = Referencing(s)].at = "detaching"
    BY DEF NoJob
  <2> QED
    BY <1>4, <2>1, ArriveReads DEF AdminRemove
<1>5. ASSUME NEW image \in BOOLEAN, Upload(h, s, image) PROVE Withdrawals'
  <2>1. [NoJob EXCEPT !.at = "uploading", !.source = s, !.image = image].at = "uploading"
    BY DEF NoJob
  <2> QED
    BY <1>5, <2>1, ArriveReads DEF Upload, marketVars
<1>6. CASE DeleteMedia(h, s)
  <2>1. PICK entry \in rows[s].media :
           Arrive(h, [NoJob EXCEPT !.at = "deletingMedia", !.source = s, !.media = {entry}])
    BY <1>6 DEF DeleteMedia
  <2>2. [NoJob EXCEPT !.at = "deletingMedia", !.source = s, !.media = {entry}].at = "deletingMedia"
    BY DEF NoJob
  <2> QED
    BY <1>6, <2>1, <2>2, ArriveReads DEF DeleteMedia
<1> QED
  BY <1>1, <1>2, <1>3, <1>4, <1>5, <1>6

LEMMA NewDealWithdraws ==
    ASSUME IInv, Withdrawals, NEW h \in Handlers, NEW owner \in Owners,
           \/ \E s \in Listings : CreateDeal(h, owner, s)
           \/ \E c \in Campaigns : \E with \in {{}} \cup {{l} : l \in Listings} :
                 Apply(h, owner, c, with)
    PROVE  Withdrawals'
<1>1. \A deal : [NoJob EXCEPT !.at = "inserting", !.deal = deal].at = "inserting"
  BY DEF NoJob
<1>2. PICK deal : Arrive(h, [NoJob EXCEPT !.at = "inserting", !.deal = deal])
  BY DEF CreateDeal, Apply
<1>3. UNCHANGED marketVars
  BY DEF CreateDeal, Apply
<1> QED
  BY <1>1, <1>2, <1>3, ArriveReads DEF marketVars

\* What a move does to the deals' rows.
LEMMA Moved ==
    ASSUME IInv, NEW d \in Deals, NEW from, NEW to, Move(d, from, to)
    PROVE  /\ UNCHANGED <<rows, stored, orphans, withdrawn>> /\ deals[d].status \in from
           /\ \A e \in Deals : /\ deals'[e].sources = deals[e].sources
                               /\ deals'[e].status = IF e = d THEN to ELSE deals[e].status
  BY FilesTyped DEF Move, DealRow

LEMMA PartyWithdraws ==
    ASSUME IInv, Withdrawals, NEW h \in Handlers, NEW d \in Deals,
           ApproveDeal(h, d) \/ DeclineDeal(h, d) \/ FundDeal(h, d)
    PROVE  Withdrawals'
<1>0. NoJob.at = "idle"
  BY DEF NoJob
<1>1. ASSUME NEW to \in {"approved", "cancelled"}, NEW from, Move(d, from, to), Arrive(h, NoJob)
      PROVE  Withdrawals'
  <2>1. \A e \in Deals : deals'[e].sources = deals[e].sources
                         /\ deals'[e].status \in {deals[e].status, to}
    BY <1>1, Moved
  <2> QED
    BY <1>0, <1>1, <2>1, Moved, ArriveAlone, WithdrawalsStay
<1>2. CASE FundDeal(h, d)
  <2> DEFINE job == [NoJob EXCEPT !.at = "funding", !.id = d]
  <2>1. job.id = d
    BY DEF NoJob
  <2>2. Arrive(h, job) /\ ~SourceRemoved(d) /\ UNCHANGED marketVars
    BY <1>2 DEF FundDeal
  <2> HIDE DEF job
  <2> QED
    BY <2>1, <2>2, ArriveAlone, WithdrawalsStay DEF marketVars
<1> QED
  BY <1>1, <1>2 DEF ApproveDeal, DeclineDeal

LEMMA PaidWithdraws ==
    ASSUME IInv, Withdrawals, NEW d \in Deals, Paid(d)
    PROVE  Withdrawals'
<1>1. /\ UNCHANGED <<rows, withdrawn, jobs, calm>> /\ deals[d].status = "awaiting_funding"
      /\ \A e \in Deals : /\ deals'[e].sources = deals[e].sources
                          /\ deals'[e].status = IF e = d THEN "funded" ELSE deals[e].status
  BY Moved DEF Paid
<1>2. WithdrawnIsArchived'
  BY <1>1 DEF Withdrawals, WithdrawnIsArchived
<1>3. calm => Unfunded'
  BY <1>1 DEF Withdrawals, Unfunded
<1> QED
  BY <1>1, <1>2, <1>3 DEF Withdrawals, OneJob

-----------------------------------------------------------------------------
LEMMA UploadsWithdraw ==
    ASSUME IInv, Withdrawals, NEW h \in Handlers,
           SaveUpload(h) \/ SaveCover(h) \/ RefuseUpload(h) \/ AttachUpload(h) \/ CommitDeleteMedia(h)
    PROVE  Withdrawals'
<1>0. NoJob.at = "idle"
  BY DEF NoJob
<1>1. jobs[h] \in Job /\ jobs[h].source \in Sources /\ jobs[h].at # "idle"
  BY DEF SaveUpload, SaveCover, RefuseUpload, AttachUpload, CommitDeleteMedia, IInv, TypeOK, Complete
<1>2. CASE SaveUpload(h)
  <2>1. PICK f \in Files, stage \in {"attaching", "covering"} :
            GoOn(h, [jobs[h] EXCEPT !.at = stage, !.file = f])
    BY <1>2 DEF SaveUpload
  <2>2. [jobs[h] EXCEPT !.at = stage, !.file = f].at = stage
    BY <1>1 DEF Job
  <2> QED
    BY <1>1, <1>2, <2>1, <2>2, GoOnAlone, OnlyRows DEF SaveUpload
<1>3. CASE AttachUpload(h)
  <2>1. \A t \in Sources : rows'[t].state = rows[t].state
    BY <1>1, <1>3, FilesTyped DEF AttachUpload, Row
  <2> QED
    BY <1>0, <1>1, <1>3, <2>1, GoOnAlone, OnlyRows DEF AttachUpload
<1>4. CASE CommitDeleteMedia(h)
  <2>1. \A t \in Sources : rows'[t].state = rows[t].state
    BY <1>1, <1>4, FilesTyped DEF CommitDeleteMedia, Row
  <2> QED
    BY <1>0, <1>1, <1>4, <2>1, GoOnAlone, OnlyRows DEF CommitDeleteMedia
<1>5. CASE SaveCover(h)
  <2>1. PICK f \in Files : GoOn(h, [jobs[h] EXCEPT !.at = "attaching", !.cover = f])
    BY <1>5 DEF SaveCover
  <2>2. [jobs[h] EXCEPT !.at = "attaching", !.cover = f].at = "attaching"
    BY <1>1 DEF Job
  <2> QED
    BY <1>1, <1>5, <2>1, <2>2, GoOnAlone, OnlyRows DEF SaveCover
<1>6. CASE RefuseUpload(h)
  BY <1>0, <1>1, <1>6, GoOnAlone, OnlyRows DEF RefuseUpload
<1> QED
  BY <1>2, <1>3, <1>4, <1>5, <1>6

LEMMA InsertDealWithdraws ==
    ASSUME IInv, Withdrawals, NEW h \in Handlers, InsertDeal(h)
    PROVE  Withdrawals'
<1>0. /\ NoJob.at = "idle" /\ jobs[h].at = "inserting"
      /\ jobs[h].deal.status = "awaiting_approval"
  BY DEF NoJob, InsertDeal, IInv, Complete
<1>1. PICK d \in Deals : /\ deals[d] = NoDeal
                         /\ deals' \in {[deals EXCEPT ![d] = jobs[h].deal], deals}
  BY DEF InsertDeal
<1>2. deals[d].status = "absent"
  BY <1>1 DEF NoDeal
<1>3. \A e \in Deals : /\ deals[e].status # "absent" => deals'[e] = deals[e]
                       /\ deals'[e].status \in {"awaiting_approval", deals[e].status}
  BY <1>0, <1>1, <1>2, FilesTyped
<1> QED
  BY <1>0, <1>3, GoOnAlone, WithdrawalsStay DEF InsertDeal

LEMMA CommitFundDealWithdraws ==
    ASSUME IInv, Withdrawals, NEW h \in Handlers, CommitFundDeal(h)
    PROVE  Withdrawals'
<1>0. NoJob.at = "idle" /\ jobs[h].at = "funding" /\ jobs[h].id \in Deals
  BY DEF NoJob, CommitFundDeal, IInv, Complete
<1>1. \A e \in Deals : /\ deals'[e].sources = deals[e].sources
                       /\ deals'[e].status = IF e = jobs[h].id THEN "awaiting_funding"
                                             ELSE deals[e].status
  BY <1>0, FilesTyped DEF CommitFundDeal, DealRow
<1> QED
  BY <1>0, <1>1, GoOnAlone, WithdrawalsStay DEF CommitFundDeal

LEMMA ArchiveWithdraws ==
    ASSUME IInv, Withdrawals, NEW h \in Handlers, Archive(h)
    PROVE  Withdrawals'
<1> DEFINE source == jobs[h].source
<1>1. /\ jobs[h].at = "archiving" /\ source \in Sources /\ GoOn(h, NoJob)
      /\ UNCHANGED <<deals, stored>>
  BY DEF Archive, IInv, Complete
<1>2. \A d \in Deals, s \in Sources, asked \in BOOLEAN : <<d, s, asked>> \in withdrawn' =>
         \/ <<d, s, asked>> \in withdrawn
         \/ /\ s = source /\ deals[d].status \in PreFunding /\ source \in deals[d].sources
            /\ asked = (deals[d].status = "awaiting_funding")
  BY DEF Archive, Referencing
<1>3. \A s \in Sources : rows[s].state = "archived" => rows'[s].state = "archived"
  BY <1>1, FilesTyped DEF Archive, Row
<1>4. ASSUME NEW d \in Deals, source \in deals[d].sources PROVE rows'[source].state = "archived"
  <2>1. Exists(source)
    BY <1>4 DEF IInv, SourcesExist
  <2> QED
    BY <1>1, <2>1, FilesTyped DEF Archive, Row
<1> HIDE DEF source
<1>5. WithdrawnIsArchived'
  <2> SUFFICES ASSUME NEW d \in Deals, NEW s \in Sources, NEW asked \in BOOLEAN,
                      <<d, s, asked>> \in withdrawn'
               PROVE  /\ deals[d].status # "absent"
                      /\ s \in deals[d].sources => rows'[s].state = "archived"
    BY <1>1 DEF WithdrawnIsArchived
  <2>1. CASE <<d, s, asked>> \in withdrawn
    BY <1>3, <2>1 DEF Withdrawals, WithdrawnIsArchived
  <2>2. CASE s = source /\ deals[d].status \in PreFunding /\ source \in deals[d].sources
    BY <1>4, <2>2 DEF PreFunding
  <2> QED
    BY <1>2, <2>1, <2>2
<1>6. ASSUME calm' PROVE OneJob' /\ Unfunded'
  <2>1. calm /\ Alone(h) /\ Unfunded
    BY <1>1, <1>6, GoOnAlone DEF Withdrawals
  <2>2. \A i \in Handlers : jobs'[i].at = "idle"
    BY <1>1, <2>1 DEF GoOn, Alone, NoJob, IInv, TypeOK
  <2>3. Unfunded'
    <3> SUFFICES ASSUME NEW d \in Deals, NEW s \in deals[d].sources,
                        <<d, s, FALSE>> \in withdrawn'
                 PROVE  deals[d].status \notin {"awaiting_funding", "funded"}
      BY <1>1, <2>2 DEF Unfunded
    <3>1. s \in Sources
      BY FilesTyped DEF DealRow
    <3>2. CASE <<d, s, FALSE>> \in withdrawn
      BY <2>1, <3>2 DEF Unfunded
    <3>3. CASE deals[d].status \in PreFunding /\ FALSE = (deals[d].status = "awaiting_funding")
      BY <3>3 DEF PreFunding
    <3> QED
      BY <1>2, <3>1, <3>2, <3>3
  <2> QED
    BY <2>2, <2>3 DEF OneJob
<1> QED
  BY <1>5, <1>6 DEF Withdrawals

LEMMA CommitRemoveWithdraws ==
    ASSUME IInv, Withdrawals, NEW h \in Handlers, CommitRemove(h)
    PROVE  Withdrawals'
<1>0. NoJob.at = "idle" /\ jobs[h].at = "deleting"
  BY DEF NoJob, CommitRemove
<1>1. jobs[h].source \in Sources /\ jobs[h].referencing = {}
  BY DEF CommitRemove, Complete, IInv
<1>2. \A s \in Sources : rows'[s].state = rows[s].state \/ \A d \in Deals : s \notin deals'[d].sources
  <2>1. CASE ~Deletable(h)
    BY <2>1 DEF CommitRemove
  <2>2. CASE Deletable(h)
    BY <1>1, <2>2, DeletedTyped DEF CommitRemove
  <2> QED
    BY <2>1, <2>2
<1>3. UNCHANGED <<deals, withdrawn>> /\ GoOn(h, NoJob)
  BY DEF CommitRemove
<1> QED
  BY <1>0, <1>2, <1>3, GoOnAlone, WithdrawalsStay

LEMMA CommitAdminRemoveWithdraws ==
    ASSUME IInv, Withdrawals, NEW h \in Handlers, CommitAdminRemove(h)
    PROVE  Withdrawals'
<1>0. NoJob.at = "idle" /\ jobs[h].at = "detaching" /\ jobs[h].source \in Sources
  BY DEF NoJob, CommitAdminRemove, IInv, Complete
<1>1. /\ \A s \in Sources : rows'[s].state = rows[s].state
                            \/ \A d \in Deals : s \notin deals'[d].sources
      /\ \A d \in Deals : /\ deals'[d].status = deals[d].status
                          /\ deals'[d].sources \subseteq deals[d].sources
  <2>1. CASE ~Deletable(h)
    BY <2>1 DEF CommitAdminRemove
  <2>2. CASE Deletable(h)
    <3>1. /\ rows' = Deleted(h)
          /\ deals' = [d \in Deals |-> [deals[d] EXCEPT !.sources = @ \ {jobs[h].source}]]
      BY <2>2 DEF CommitAdminRemove
    <3>2. \A d \in Deals : /\ deals'[d].status = deals[d].status
                           /\ deals'[d].sources = deals[d].sources \ {jobs[h].source}
      BY <3>1, FilesTyped DEF DealRow
    <3> QED
      BY <1>0, <2>2, <3>1, <3>2, DeletedTyped
  <2> QED
    BY <2>1, <2>2
<1>2. withdrawn' = withdrawn /\ GoOn(h, NoJob)
  BY DEF CommitAdminRemove
<1> QED
  BY <1>0, <1>1, <1>2, GoOnAlone, WithdrawalsStay

LEMMA DieWithdraws ==
    ASSUME IInv, Withdrawals, NEW h \in Handlers, Die(h)
    PROVE  Withdrawals'
<1>1. jobs' = [jobs EXCEPT ![h] = NoJob] /\ calm' = FALSE /\ UNCHANGED marketVars
      /\ NoJob.at = "idle"
  BY DEF Die, NoJob
<1> QED
  BY <1>1, OnlyRows DEF marketVars

LEMMA StepWithdraws == IInv /\ Withdrawals /\ [Next]_vars => Withdrawals'
<1> SUFFICES ASSUME IInv, Withdrawals, [Next]_vars PROVE Withdrawals'
  OBVIOUS
<1>1. CASE UNCHANGED vars
  BY <1>1 DEF vars, marketVars, Withdrawals, WithdrawnIsArchived, OneJob, Unfunded
<1>2. ASSUME NEW h \in Handlers, Resume(h) \/ Die(h) PROVE Withdrawals'
  BY <1>2, UploadsWithdraw, InsertDealWithdraws, CommitFundDealWithdraws, ArchiveWithdraws,
     CommitRemoveWithdraws, CommitAdminRemoveWithdraws, DieWithdraws DEF Resume
<1> QED
  BY <1>1, <1>2, OfferingWithdraws, NewDealWithdraws, PartyWithdraws, PaidWithdraws DEF Next

-----------------------------------------------------------------------------
\* The files that rows name: each is named once, and by a row that exists.
RowOnce(row) ==
    /\ row.image \notin (UNION row.media)
    /\ \A d, e \in row.media : d # e => d \cap e = {}
Named(rs) == UNION {FilesOf(rs[s]) : s \in Sources}
NamedOnce(rs) ==
    /\ \A s, t \in Sources : s # t => FilesOf(rs[s]) \cap FilesOf(rs[t]) = {}
    /\ \A s \in Sources : RowOnce(rs[s])
    /\ \A s \in Sources : rs[s].state \notin {"live", "archived"} => FilesOf(rs[s]) = {}

\* What the store holds, of the rows rs, when one request has come this far.
StoreAt(job, rs) ==
    CASE job.at = "covering" -> Named(rs) \cup Saved(job)
      [] job.at = "attaching" ->
            (Named(rs) \ IF job.image THEN {rs[job.source].image} ELSE {}) \cup Saved(job)
      [] job.at = "deletingMedia" -> Named(rs) \ (UNION job.media)
      [] job.at \in {"deleting", "detaching"} -> Named(rs) \ FilesOf(rs[job.source])
      [] OTHER -> Named(rs)

\* What a request has read is still so of the rows rs and the deals ds.
Fresh(job, rs, ds) ==
    /\ job.at \in {"uploading", "covering", "attaching", "deletingMedia", "deleting",
                   "detaching"} =>
          rs[job.source].state \in {"live", "archived"}
    /\ job.at \in {"covering", "attaching"} => Saved(job) \cap Named(rs) = {}
    /\ job.at = "deletingMedia" => job.media \subseteq rs[job.source].media
    /\ job.at \in {"deleting", "detaching"} =>
          /\ \A d \in Deals : job.source \in ds[d].sources => d \in job.referencing
          /\ rs[job.source].media \subseteq job.media

\* What the store holds, but for what was given up or it would not delete.
Held == stored \ orphans

Storing ==
    calm => /\ NamedOnce(rows)
            /\ (\A h \in Handlers : jobs[h].at = "idle") => Held = Named(rows)
            /\ \A h \in Handlers : jobs[h].at # "idle" =>
                  Held = StoreAt(jobs[h], rows) /\ Fresh(jobs[h], rows, deals)

\* Of a row that is replaced by another one.
LEMMA ReplacedRow ==
    ASSUME NEW rs \in [Sources -> Row], NEW s \in Sources, NEW row \in Row, NamedOnce(rs),
           FilesOf(row) \cap (Named(rs) \ FilesOf(rs[s])) = {}, RowOnce(row),
           row.state \notin {"live", "archived"} => FilesOf(row) = {}
    PROVE  /\ Named([rs EXCEPT ![s] = row]) = (Named(rs) \ FilesOf(rs[s])) \cup FilesOf(row)
           /\ NamedOnce([rs EXCEPT ![s] = row])
<1> DEFINE new == [rs EXCEPT ![s] = row]
<1>1. \A t \in Sources : new[t] = IF t = s THEN row ELSE rs[t]
  OBVIOUS
<1> HIDE DEF new
<1>2. \A t \in Sources : t # s => FilesOf(rs[t]) \subseteq Named(rs) \ FilesOf(rs[s])
  BY DEF NamedOnce, Named
<1>3. Named(new) = (Named(rs) \ FilesOf(rs[s])) \cup FilesOf(row)
  <2>1. ASSUME NEW f \in Named(new)
        PROVE  f \in (Named(rs) \ FilesOf(rs[s])) \cup FilesOf(row)
    <3>1. PICK t \in Sources : f \in FilesOf(new[t])
      BY <2>1 DEF Named
    <3> QED
      BY <1>1, <1>2, <3>1
  <2>2. ASSUME NEW f \in Named(rs) \ FilesOf(rs[s]) PROVE f \in Named(new)
    <3>1. PICK t \in Sources : f \in FilesOf(rs[t])
      BY <2>2 DEF Named
    <3>2. f \in FilesOf(new[t])
      BY <1>1, <2>2, <3>1
    <3> QED
      BY <3>2 DEF Named
  <2>3. ASSUME NEW f \in FilesOf(row) PROVE f \in Named(new)
    <3>1. f \in FilesOf(new[s])
      BY <1>1, <2>3
    <3> QED
      BY <3>1 DEF Named
  <2> QED
    BY <2>1, <2>2, <2>3
<1>4. NamedOnce(new)
  <2>1. ASSUME NEW t \in Sources, NEW u \in Sources, t # u
        PROVE  FilesOf(new[t]) \cap FilesOf(new[u]) = {}
    <3>1. CASE t # s /\ u # s
      BY <1>1, <2>1, <3>1 DEF NamedOnce
    <3>2. CASE t = s
      BY <1>1, <1>2, <2>1, <3>2
    <3>3. CASE u = s
      BY <1>1, <1>2, <2>1, <3>3
    <3> QED
      BY <3>1, <3>2, <3>3
  <2>2. \A t \in Sources : RowOnce(new[t])
    BY <1>1 DEF NamedOnce
  <2>3. \A t \in Sources : new[t].state \notin {"live", "archived"} => FilesOf(new[t]) = {}
    BY <1>1 DEF NamedOnce
  <2> QED
    BY <2>1, <2>2, <2>3 DEF NamedOnce
<1> QED
  BY <1>3, <1>4 DEF new

\* A row that keeps its files.
LEMMA SameFiles ==
    ASSUME NEW rs \in [Sources -> Row], NEW s \in Sources, NEW row \in Row, NamedOnce(rs),
           row.image = rs[s].image, row.media = rs[s].media,
           row.state \in {"live", "archived"} \/ row.state = rs[s].state
    PROVE  Named([rs EXCEPT ![s] = row]) = Named(rs) /\ NamedOnce([rs EXCEPT ![s] = row])
<1>1. FilesOf(row) = FilesOf(rs[s])
  BY DEF FilesOf
<1>2. FilesOf(rs[s]) \subseteq Named(rs)
  BY DEF Named
<1>3. RowOnce(row) /\ (row.state \notin {"live", "archived"} => FilesOf(row) = {})
  BY <1>1 DEF NamedOnce, RowOnce
<1>4. FilesOf(row) \cap (Named(rs) \ FilesOf(rs[s])) = {}
  BY <1>1
<1>5. Named([rs EXCEPT ![s] = row]) = (Named(rs) \ FilesOf(rs[s])) \cup FilesOf(row)
      /\ NamedOnce([rs EXCEPT ![s] = row])
  BY <1>3, <1>4, ReplacedRow
<1> QED
  BY <1>1, <1>2, <1>5

LEMMA InitStoring == Init => Storing
<1> SUFFICES ASSUME Init PROVE Storing
  OBVIOUS
<1>1. \A s \in Sources : rows[s].image = None /\ rows[s].media = {} /\ FilesOf(rows[s]) = {}
  BY DEF Init, NoRow, FilesOf
<1>2. \A h \in Handlers : jobs[h].at = "idle"
  BY DEF Init, NoJob
<1>3. Named(rows) = {} /\ NamedOnce(rows) /\ Held = {}
  BY <1>1 DEF Named, NamedOnce, RowOnce, Held, Init
<1> QED
  BY <1>2, <1>3 DEF Storing

\* While all is calm a request leaves the store as its stage wants it.
LEMMA StoringStays ==
    ASSUME IInv, NEW h \in Handlers, NEW job, jobs' = [jobs EXCEPT ![h] = job],
           calm' => calm /\ Alone(h),
           calm' => NamedOnce(rows') /\ Held' = StoreAt(job, rows') /\ Fresh(job, rows', deals')
    PROVE  Storing'
<1> SUFFICES ASSUME calm'
             PROVE  /\ (\A i \in Handlers : jobs'[i].at = "idle") => Held' = Named(rows')
                    /\ \A i \in Handlers : jobs'[i].at # "idle" =>
                          Held' = StoreAt(jobs'[i], rows') /\ Fresh(jobs'[i], rows', deals')
  BY DEF Storing
<1>1. \A i \in Handlers : jobs'[i] = IF i = h THEN job ELSE jobs[i]
  BY DEF IInv, TypeOK
<1>2. \A i \in Handlers : jobs'[i].at # "idle" => i = h
  BY <1>1 DEF Alone
<1>3. job.at = "idle" => StoreAt(job, rows') = Named(rows')
  BY DEF StoreAt
<1> QED
  BY <1>1, <1>2, <1>3

\* What a request finds that is alone, and one that arrives.
LEMMA ArriveFinds ==
    ASSUME IInv, Storing, NEW h \in Handlers, NEW job, Arrive(h, job)
    PROVE  /\ jobs' = [jobs EXCEPT ![h] = job] /\ (calm' => calm /\ Alone(h))
           /\ calm' => NamedOnce(rows) /\ Held = Named(rows)
<1>1. calm' => \A i \in Handlers : jobs[i].at = "idle"
  BY ArriveAlone DEF Alone
<1> QED
  BY <1>1, ArriveAlone DEF Storing

LEMMA GoOnFinds ==
    ASSUME IInv, Withdrawals, Storing, NEW h \in Handlers, NEW job, GoOn(h, job),
           jobs[h].at # "idle"
    PROVE  /\ jobs' = [jobs EXCEPT ![h] = job] /\ (calm' => calm /\ Alone(h))
           /\ calm' => /\ NamedOnce(rows) /\ Held = StoreAt(jobs[h], rows)
                       /\ Fresh(jobs[h], rows, deals)
  BY GoOnAlone DEF Storing

\* The stages at which the store holds what the rows name.
Still(job) == job.at \in {"idle", "inserting", "archiving", "funding"}

LEMMA StillStore == \A job, rs, ds : Still(job) => StoreAt(job, rs) = Named(rs) /\ Fresh(job, rs, ds)
  BY DEF Still, StoreAt, Fresh

LEMMA NoJobStill == Still(NoJob)
  BY DEF Still, NoJob

LEMMA ArriveStill ==
    ASSUME IInv, Storing, NEW h \in Handlers, NEW job, Arrive(h, job), Still(job),
           Held' = Held,
           NamedOnce(rows) => Named(rows') = Named(rows) /\ NamedOnce(rows')
    PROVE  Storing'
  BY ArriveFinds, StillStore, StoringStays

LEMMA GoOnStill ==
    ASSUME IInv, Withdrawals, Storing, NEW h \in Handlers, NEW job, GoOn(h, job),
           Still(jobs[h]), jobs[h].at # "idle", Still(job), Held' = Held,
           NamedOnce(rows) => Named(rows') = Named(rows) /\ NamedOnce(rows')
    PROVE  Storing'
  BY GoOnFinds, StillStore, StoringStays

-----------------------------------------------------------------------------
LEMMA CreateStores ==
    ASSUME IInv, Storing, NEW h \in Handlers, NEW s \in Sources,
           NEW owner \in Owners \cup {None}, Create(h, s, owner)
    PROVE  Storing'
<1> DEFINE row == [NoRow EXCEPT !.state = "live", !.owner = owner]
<1>1. row \in Row /\ row.image = None /\ row.media = {}
  BY NoneAttached DEF NoRow, Row
<1>2. rows[s].state = "new" /\ rows' = [rows EXCEPT ![s] = row] /\ Arrive(h, NoJob)
      /\ Held' = Held
  BY DEF Create, Held
<1> HIDE DEF row
<1>3. FilesOf(row) = {} /\ RowOnce(row)
  BY <1>1 DEF FilesOf, RowOnce
<1>4. ASSUME NamedOnce(rows) PROVE Named(rows') = Named(rows) /\ NamedOnce(rows')
  <2>1. FilesOf(rows[s]) = {}
    BY <1>2, <1>4 DEF NamedOnce
  <2>2. FilesOf(row) \cap (Named(rows) \ FilesOf(rows[s])) = {}
    BY <1>3
  <2>3. Named(rows') = (Named(rows) \ FilesOf(rows[s])) \cup FilesOf(row) /\ NamedOnce(rows')
    BY <1>1, <1>2, <1>3, <1>4, <2>2, FilesTyped, ReplacedRow
  <2> QED
    BY <1>3, <2>1, <2>3
<1> QED
  BY <1>2, <1>4, NoJobStill, ArriveStill

LEMMA SuspendStores ==
    ASSUME IInv, Storing, NEW h \in Handlers, NEW s \in Sources, Suspend(h, s)
    PROVE  Storing'
<1> DEFINE row == [rows[s] EXCEPT !.suspended = ~@]
<1>1. row \in Row /\ row.image = rows[s].image /\ row.media = rows[s].media
      /\ row.state = rows[s].state
  BY FilesTyped DEF Row
<1>2. rows' = [rows EXCEPT ![s] = row] /\ Arrive(h, NoJob) /\ Held' = Held
  BY DEF Suspend, Held
<1> HIDE DEF row
<1>3. NamedOnce(rows) => Named(rows') = Named(rows) /\ NamedOnce(rows')
  BY <1>1, <1>2, FilesTyped, SameFiles
<1> QED
  BY <1>2, <1>3, NoJobStill, ArriveStill

LEMMA UploadStores ==
    ASSUME IInv, Storing, NEW h \in Handlers, NEW s \in Sources, NEW image \in BOOLEAN,
           Upload(h, s, image)
    PROVE  Storing'
<1> DEFINE job == [NoJob EXCEPT !.at = "uploading", !.source = s, !.image = image]
<1>1. job.at = "uploading" /\ job.source = s
  BY DEF NoJob
<1>2. Arrive(h, job) /\ Exists(s) /\ Held' = Held /\ UNCHANGED <<rows, deals>>
  BY DEF Upload, marketVars, Held
<1> HIDE DEF job
<1>3. Fresh(job, rows, deals) /\ StoreAt(job, rows) = Named(rows)
  BY <1>1, <1>2 DEF Fresh, StoreAt, Exists
<1> QED
  BY <1>2, <1>3, ArriveFinds, StoringStays

\* What is deleted is no longer held, whether the store would delete it or not.
LEMMA ErasedHeld ==
    ASSUME NEW held, NEW files, Erase(held, files)
    PROVE  Held' = (held \ orphans) \ files
  BY DEF Erase, Held

LEMMA SaveUploadStores ==
    ASSUME IInv, Withdrawals, Storing, NEW h \in Handlers, SaveUpload(h)
    PROVE  Storing'
<1>1. PICK f \in Files, stage \in {"attaching", "covering"} :
          /\ Unnamed(f) /\ (jobs[h].image => stage = "attaching")
          /\ Erase(stored \cup {f}, Replaced(jobs[h].source, jobs[h].image))
          /\ GoOn(h, [jobs[h] EXCEPT !.at = stage, !.file = f])
  BY DEF SaveUpload
<1> DEFINE job == [jobs[h] EXCEPT !.at = stage, !.file = f]
<1>2. /\ jobs[h].at = "uploading" /\ jobs[h] \in Job /\ jobs[h].source \in Sources
      /\ jobs[h].cover = None /\ UNCHANGED <<rows, deals>>
  BY DEF SaveUpload, IInv, Complete
<1>3. /\ job.at = stage /\ job.file = f /\ job.source = jobs[h].source
      /\ job.image = jobs[h].image /\ job.cover = None
  BY <1>2 DEF Job
<1>4. GoOn(h, job)
  BY <1>1
<1> HIDE DEF job
<1>5. f \notin Named(rows) /\ f # None /\ f \notin orphans
  BY <1>1, MarketAssumption DEF Unnamed, Named
<1>6. (\A s \in Sources : f # rows[s].image) /\ Saved(job) = {f}
  BY <1>1, <1>3, <1>5 DEF Unnamed, FilesOf, Saved
<1>7. ASSUME calm' PROVE Held' = StoreAt(job, rows) /\ Fresh(job, rows, deals)
  <2>1. Held = Named(rows) /\ rows[jobs[h].source].state \in {"live", "archived"}
    BY <1>2, <1>4, <1>7, GoOnFinds DEF StoreAt, Fresh
  <2>2. Held' = ((stored \cup {f}) \ orphans) \ Replaced(job.source, job.image)
    BY <1>1, <1>3, ErasedHeld
  <2>3. f \notin Replaced(job.source, job.image)
    BY <1>2, <1>3, <1>6 DEF Replaced
  <2>4. Held' = (Named(rows) \ Replaced(job.source, job.image)) \cup {f}
    BY <1>5, <2>1, <2>2, <2>3 DEF Held
  <2>5. StoreAt(job, rows) = (Named(rows) \ Replaced(job.source, job.image)) \cup {f}
    BY <1>1, <1>3, <1>6 DEF StoreAt, Replaced
  <2>6. Fresh(job, rows, deals)
    BY <1>1, <1>3, <1>5, <1>6, <2>1 DEF Fresh
  <2> QED
    BY <2>4, <2>5, <2>6
<1> QED
  BY <1>2, <1>4, <1>7, GoOnFinds, StoringStays

LEMMA SaveCoverStores ==
    ASSUME IInv, Withdrawals, Storing, NEW h \in Handlers, SaveCover(h)
    PROVE  Storing'
<1>1. PICK f \in Files : /\ Unnamed(f) /\ stored' = stored \cup {f}
                         /\ GoOn(h, [jobs[h] EXCEPT !.at = "attaching", !.cover = f])
  BY DEF SaveCover
<1> DEFINE job == [jobs[h] EXCEPT !.at = "attaching", !.cover = f]
<1>2. /\ jobs[h].at = "covering" /\ jobs[h] \in Job /\ jobs[h].cover = None /\ ~jobs[h].image
      /\ orphans' = orphans /\ UNCHANGED <<rows, deals>>
  BY DEF SaveCover, IInv, Complete
<1>3. /\ job.at = "attaching" /\ job.cover = f /\ job.file = jobs[h].file
      /\ job.source = jobs[h].source /\ ~job.image
  BY <1>2 DEF Job
<1>4. GoOn(h, job)
  BY <1>1
<1> HIDE DEF job
<1>5. f \notin Named(rows) /\ f # None /\ f \notin orphans
  BY <1>1, MarketAssumption DEF Unnamed, Named
<1>6. Saved(job) = Saved(jobs[h]) \cup {f}
  BY <1>2, <1>3, <1>5 DEF Saved
<1>7. ASSUME calm' PROVE Held' = StoreAt(job, rows) /\ Fresh(job, rows, deals)
  <2>1. /\ Held = Named(rows) \cup Saved(jobs[h]) /\ Saved(jobs[h]) \cap Named(rows) = {}
        /\ rows[jobs[h].source].state \in {"live", "archived"}
    BY <1>2, <1>4, <1>7, GoOnFinds DEF StoreAt, Fresh
  <2>2. Held' = Held \cup {f}
    BY <1>1, <1>2, <1>5 DEF Held
  <2> QED
    BY <1>3, <1>5, <1>6, <2>1, <2>2 DEF StoreAt, Fresh
<1> QED
  BY <1>2, <1>4, <1>7, GoOnFinds, StoringStays

LEMMA RefuseUploadStores ==
    ASSUME IInv, Withdrawals, Storing, NEW h \in Handlers, RefuseUpload(h)
    PROVE  Storing'
<1>1. /\ jobs[h].at \in {"uploading", "covering"} /\ GoOn(h, NoJob)
      /\ orphans' = orphans \cup Saved(jobs[h]) /\ UNCHANGED <<rows, deals, stored>>
      /\ jobs[h].at = "uploading" => Saved(jobs[h]) = {}
  BY DEF RefuseUpload, IInv, Complete, Saved
<1>2. ASSUME calm' PROVE NamedOnce(rows) /\ Held' = Named(rows)
  <2>1. /\ NamedOnce(rows) /\ Held = Named(rows) \cup Saved(jobs[h])
        /\ Saved(jobs[h]) \cap Named(rows) = {}
    BY <1>1, <1>2, GoOnFinds DEF StoreAt, Fresh
  <2>2. Held' = Held \ Saved(jobs[h])
    BY <1>1 DEF Held
  <2> QED
    BY <2>1, <2>2
<1> QED
  BY <1>1, <1>2, GoOnFinds, StoringStays, StillStore, NoJobStill

LEMMA AttachUploadStores ==
    ASSUME IInv, Withdrawals, Storing, NEW h \in Handlers, AttachUpload(h)
    PROVE  Storing'
<1> DEFINE job == jobs[h]
           s == job.source
           f == job.file
           e == Saved(job)
           row == IF job.image THEN [rows[s] EXCEPT !.image = f]
                               ELSE [rows[s] EXCEPT !.media = @ \cup {e}]
<1>1. /\ job.at = "attaching" /\ s \in Sources /\ f \in Files /\ job \in Job
      /\ GoOn(h, NoJob) /\ UNCHANGED <<deals, stored, orphans>>
      /\ job.image => job.cover = None
  BY DEF AttachUpload, IInv, Complete
<1>2. Exists(s) => rows' = [rows EXCEPT ![s] = row]
  BY DEF AttachUpload
<1>3. f # None /\ f \in e /\ e \subseteq Files /\ (job.image => e = {f})
  BY <1>1, MarketAssumption DEF Job, Saved
<1> HIDE DEF e
<1>4. /\ row \in Row /\ row.state = rows[s].state
      /\ row.image = IF job.image THEN f ELSE rows[s].image
      /\ row.media = IF job.image THEN rows[s].media ELSE rows[s].media \cup {e}
  BY <1>1, <1>3, FilesTyped, Entries DEF Row
<1> HIDE DEF row, f, s, job
<1>5. ASSUME calm' PROVE NamedOnce(rows') /\ Held = Named(rows')
  <2>1. /\ NamedOnce(rows) /\ Exists(s) /\ e \cap Named(rows) = {}
        /\ Held = (Named(rows) \ IF job.image THEN {rows[s].image} ELSE {}) \cup e
    BY <1>1, <1>5, GoOnFinds DEF StoreAt, Fresh, Exists, job, s, e
  <2>2. e \cap FilesOf(rows[s]) = {} /\ FilesOf(rows[s]) \subseteq Named(rows)
        /\ RowOnce(rows[s])
    BY <1>1, <2>1 DEF Named, NamedOnce
  <2>3. /\ (UNION row.media) = IF job.image THEN (UNION rows[s].media) ELSE (UNION rows[s].media) \cup e
        /\ rows[s].image = None \/ rows[s].image \in FilesOf(rows[s])
        /\ (UNION rows[s].media) \subseteq FilesOf(rows[s])
    BY <1>4 DEF FilesOf
  <2>4. FilesOf(row) \subseteq FilesOf(rows[s]) \cup e
    BY <1>3, <1>4, <2>3 DEF FilesOf
  <2>5. RowOnce(row)
    <3>1. CASE job.image
      BY <1>3, <1>4, <2>2, <2>3, <3>1 DEF RowOnce
    <3>2. CASE ~job.image
      <4>1. rows[s].image \notin e
        BY <1>3, <2>2, <2>3, MarketAssumption
      <4>2. \A d \in rows[s].media : d \cap e = {}
        BY <2>2, <2>3
      <4> QED
        BY <1>4, <2>2, <2>3, <3>2, <4>1, <4>2 DEF RowOnce
    <3> QED
      BY <3>1, <3>2
  <2>6. rows' = [rows EXCEPT ![s] = row] /\ row.state \in {"live", "archived"}
    BY <1>2, <1>4, <2>1 DEF Exists
  <2>7. FilesOf(row) \cap (Named(rows) \ FilesOf(rows[s])) = {}
    BY <2>1, <2>4
  <2>8. Named(rows') = (Named(rows) \ FilesOf(rows[s])) \cup FilesOf(row) /\ NamedOnce(rows')
    BY <1>1, <1>4, <2>1, <2>5, <2>6, <2>7, FilesTyped, ReplacedRow
  <2>9. (Named(rows) \ FilesOf(rows[s])) \cup FilesOf(row)
            = (Named(rows) \ IF job.image THEN {rows[s].image} ELSE {}) \cup e
    <3>1. None \notin Named(rows)
      <4>1. \A t \in Sources : \A d \in rows[t].media : d \subseteq Files
        BY FilesTyped, Entries
      <4>2. \A t \in Sources : None \notin UNION rows[t].media
        BY <4>1, MarketAssumption
      <4> QED
        BY <4>2 DEF Named, FilesOf
    <3>2. CASE job.image
      <4>1. FilesOf(row) = (UNION rows[s].media) \cup e
        BY <1>3, <1>4, <3>2 DEF FilesOf
      <4>2. FilesOf(rows[s]) = (UNION rows[s].media) \cup ({rows[s].image} \ {None})
        BY DEF FilesOf
      <4>3. rows[s].image \notin (UNION rows[s].media)
        BY <2>2 DEF RowOnce
      <4> QED
        BY <2>2, <3>1, <3>2, <4>1, <4>2, <4>3
    <3>3. CASE ~job.image
      <4>1. FilesOf(row) = FilesOf(rows[s]) \cup e
        BY <1>4, <2>3, <3>3 DEF FilesOf
      <4> QED
        BY <2>2, <3>3, <4>1
    <3> QED
      BY <3>2, <3>3
  <2> QED
    BY <2>1, <2>8, <2>9
<1>6. NoJob.at = "idle" /\ jobs[h].at # "idle" /\ Held' = Held
  BY <1>1 DEF NoJob, job, Held
<1> QED
  BY <1>1, <1>5, <1>6, GoOnFinds, StoringStays, StillStore, NoJobStill

LEMMA DeleteMediaStores ==
    ASSUME IInv, Storing, NEW h \in Handlers, NEW s \in Sources, DeleteMedia(h, s)
    PROVE  Storing'
<1>1. PICK entry \in rows[s].media :
          /\ Erase(stored, entry)
          /\ Arrive(h, [NoJob EXCEPT !.at = "deletingMedia", !.source = s, !.media = {entry}])
  BY DEF DeleteMedia
<1> DEFINE job == [NoJob EXCEPT !.at = "deletingMedia", !.source = s, !.media = {entry}]
<1>2. job.at = "deletingMedia" /\ job.source = s /\ job.media = {entry}
  BY DEF NoJob
<1>3. Arrive(h, job) /\ Exists(s) /\ Held' = Held \ entry /\ UNCHANGED <<rows, deals>>
  BY <1>1, ErasedHeld DEF DeleteMedia, Held
<1> HIDE DEF job
<1>4. Fresh(job, rows, deals) /\ StoreAt(job, rows) = Named(rows) \ entry
  BY <1>2, <1>3 DEF Fresh, StoreAt, Exists
<1> QED
  BY <1>3, <1>4, ArriveFinds, StoringStays

LEMMA CommitDeleteMediaStores ==
    ASSUME IInv, Withdrawals, Storing, NEW h \in Handlers, CommitDeleteMedia(h)
    PROVE  Storing'
<1> DEFINE s == jobs[h].source
           m == jobs[h].media
           row == [rows[s] EXCEPT !.media = @ \ m]
<1>1. /\ jobs[h].at = "deletingMedia" /\ s \in Sources /\ GoOn(h, NoJob)
      /\ UNCHANGED <<deals, stored, orphans>> /\ rows' = [rows EXCEPT ![s] = row]
  BY DEF CommitDeleteMedia, IInv, Complete
<1>2. /\ row \in Row /\ row.state = rows[s].state /\ row.image = rows[s].image
      /\ row.media = rows[s].media \ m
  BY <1>1, FilesTyped, Entries DEF Row
<1> HIDE DEF row, s, m
<1>3. ASSUME calm' PROVE NamedOnce(rows') /\ Held = Named(rows')
  <2>1. /\ NamedOnce(rows) /\ m \subseteq rows[s].media /\ rows[s].state \in {"live", "archived"}
        /\ Held = Named(rows) \ (UNION m)
    BY <1>1, <1>3, GoOnFinds DEF StoreAt, Fresh, s, m
  <2>2. RowOnce(rows[s]) /\ FilesOf(rows[s]) \subseteq Named(rows)
    BY <1>1, <2>1 DEF NamedOnce, Named
  <2>3. (UNION row.media) = (UNION rows[s].media) \ (UNION m)
    BY <1>2, <2>1, <2>2 DEF RowOnce
  <2>4. FilesOf(row) = FilesOf(rows[s]) \ (UNION m) /\ (UNION m) \subseteq FilesOf(rows[s])
    BY <1>2, <2>1, <2>2, <2>3 DEF FilesOf, RowOnce
  <2>5. RowOnce(row)
    BY <1>2, <2>2, <2>3 DEF RowOnce
  <2>6. FilesOf(row) \cap (Named(rows) \ FilesOf(rows[s])) = {}
    BY <2>4
  <2>7. Named(rows') = (Named(rows) \ FilesOf(rows[s])) \cup FilesOf(row) /\ NamedOnce(rows')
    BY <1>1, <1>2, <2>1, <2>5, <2>6, FilesTyped, ReplacedRow
  <2> QED
    BY <2>1, <2>2, <2>4, <2>7
<1>4. Held' = Held
  BY <1>1 DEF Held
<1> QED
  BY <1>1, <1>3, <1>4, GoOnFinds, StoringStays, StillStore, NoJobStill

-----------------------------------------------------------------------------
LEMMA NewDealStores ==
    ASSUME IInv, Storing, NEW h \in Handlers, NEW owner \in Owners,
           \/ \E s \in Listings : CreateDeal(h, owner, s)
           \/ \E c \in Campaigns : \E with \in {{}} \cup {{l} : l \in Listings} :
                 Apply(h, owner, c, with)
    PROVE  Storing'
<1>1. \A deal : Still([NoJob EXCEPT !.at = "inserting", !.deal = deal])
  BY DEF NoJob, Still
<1>2. PICK deal : Arrive(h, [NoJob EXCEPT !.at = "inserting", !.deal = deal])
  BY DEF CreateDeal, Apply
<1>3. rows' = rows /\ Held' = Held
  BY DEF CreateDeal, Apply, marketVars, Held
<1> QED
  BY <1>1, <1>2, <1>3, ArriveStill

LEMMA PartyStores ==
    ASSUME IInv, Storing, NEW h \in Handlers, NEW d \in Deals,
           ApproveDeal(h, d) \/ DeclineDeal(h, d) \/ FundDeal(h, d)
    PROVE  Storing'
<1>1. Still([NoJob EXCEPT !.at = "funding", !.id = d])
  BY DEF NoJob, Still
<1>2. rows' = rows /\ Held' = Held
  BY DEF ApproveDeal, DeclineDeal, FundDeal, Move, marketVars, Held
<1>3. Arrive(h, NoJob) \/ Arrive(h, [NoJob EXCEPT !.at = "funding", !.id = d])
  BY DEF ApproveDeal, DeclineDeal, FundDeal
<1> QED
  BY <1>1, <1>2, <1>3, NoJobStill, ArriveStill

\* The payment of a deal removes no file and moves no request.
LEMMA PaidStores ==
    ASSUME IInv, Withdrawals, Storing, NEW d \in Deals, Paid(d)
    PROVE  Storing'
<1>1. /\ UNCHANGED <<rows, jobs, calm>> /\ Held' = Held
      /\ \A e \in Deals : deals'[e].sources = deals[e].sources
  BY Moved DEF Paid, Held
<1>2. \A h \in Handlers : Fresh(jobs[h], rows, deals) => Fresh(jobs[h], rows, deals')
  BY <1>1 DEF Fresh
<1> QED
  BY <1>1, <1>2 DEF Storing

LEMMA DealStepStores ==
    ASSUME IInv, Withdrawals, Storing, NEW h \in Handlers, InsertDeal(h) \/ CommitFundDeal(h)
    PROVE  Storing'
<1>1. rows' = rows /\ Held' = Held /\ GoOn(h, NoJob) /\ Still(jobs[h]) /\ jobs[h].at # "idle"
  BY DEF InsertDeal, CommitFundDeal, Still, Held
<1> QED
  BY <1>1, NoJobStill, GoOnStill

-----------------------------------------------------------------------------
LEMMA RemoveStores ==
    ASSUME IInv, Storing, NEW h \in Handlers, NEW s \in Sources, Remove(h, s)
    PROVE  Storing'
<1>1. CASE Referencing(s) # {}
  <2>1. Still([NoJob EXCEPT !.at = "archiving", !.source = s])
    BY DEF NoJob, Still
  <2> QED
    BY <1>1, <2>1, ArriveStill DEF Remove, RemoveRow, Held
<1>2. CASE Referencing(s) = {}
  <2> DEFINE job == [NoJob EXCEPT !.at = "deleting", !.source = s, !.media = rows[s].media]
  <2>1. job.at = "deleting" /\ job.source = s /\ job.media = rows[s].media
    BY DEF NoJob
  <2>2. /\ Arrive(h, job) /\ Held' = Held \ FilesOf(rows[s]) /\ rows[s].state = "live"
        /\ UNCHANGED <<rows, deals>>
    BY <1>2, ErasedHeld DEF Remove, RemoveRow, Held
  <2> HIDE DEF job
  <2>3. Fresh(job, rows, deals) /\ StoreAt(job, rows) = Named(rows) \ FilesOf(rows[s])
    BY <1>2, <2>1, <2>2 DEF Fresh, StoreAt, Referencing
  <2> QED
    BY <2>2, <2>3, ArriveFinds, StoringStays
<1> QED
  BY <1>1, <1>2

LEMMA AdminRemoveStores ==
    ASSUME IInv, Storing, NEW h \in Handlers, NEW s \in Sources, AdminRemove(h, s)
    PROVE  Storing'
<1> DEFINE job == [NoJob EXCEPT !.at = "detaching", !.source = s, !.media = rows[s].media,
                                !.referencing = Referencing(s)]
<1>1. /\ job.at = "detaching" /\ job.source = s /\ job.media = rows[s].media
      /\ job.referencing = Referencing(s)
  BY DEF NoJob
<1>2. /\ Arrive(h, job) /\ Held' = Held \ FilesOf(rows[s]) /\ Exists(s)
      /\ UNCHANGED <<rows, deals>>
  BY ErasedHeld DEF AdminRemove, Held
<1> HIDE DEF job
<1>3. Fresh(job, rows, deals) /\ StoreAt(job, rows) = Named(rows) \ FilesOf(rows[s])
  BY <1>1, <1>2 DEF Fresh, StoreAt, Referencing, Exists
<1> QED
  BY <1>2, <1>3, ArriveFinds, StoringStays

LEMMA ArchiveStores ==
    ASSUME IInv, Withdrawals, Storing, NEW h \in Handlers, Archive(h)
    PROVE  Storing'
<1> DEFINE s == jobs[h].source
           row == [rows[s] EXCEPT !.state = "archived"]
<1>1. /\ jobs[h].at = "archiving" /\ s \in Sources /\ GoOn(h, NoJob) /\ Held' = Held
      /\ rows' \in {[rows EXCEPT ![s] = row], rows}
  BY DEF Archive, IInv, Complete, Held
<1>2. /\ row \in Row /\ row.state = "archived" /\ row.image = rows[s].image
      /\ row.media = rows[s].media
  BY <1>1, FilesTyped DEF Row
<1> HIDE DEF row
<1>3. NamedOnce(rows) => Named(rows') = Named(rows) /\ NamedOnce(rows')
  BY <1>1, <1>2, FilesTyped, SameFiles
<1>4. Still(jobs[h])
  BY <1>1 DEF Still
<1> QED
  BY <1>1, <1>3, <1>4, NoJobStill, GoOnStill

LEMMA CommitRemovalStores ==
    ASSUME IInv, Withdrawals, Storing, NEW h \in Handlers, CommitRemove(h) \/ CommitAdminRemove(h)
    PROVE  Storing'
<1> DEFINE s == jobs[h].source
           row == [NoRow EXCEPT !.state = "gone"]
<1>1. /\ jobs[h].at \in {"deleting", "detaching"} /\ s \in Sources /\ GoOn(h, NoJob)
      /\ Held' = Held
  BY DEF CommitRemove, CommitAdminRemove, IInv, Complete, Held
<1>2. Deletable(h) => rows' = [rows EXCEPT ![s] = row]
  BY DEF CommitRemove, CommitAdminRemove, Deleted
<1>3. row \in Row /\ row.image = None /\ row.media = {}
  BY NoneAttached DEF NoRow, Row
<1> HIDE DEF row
<1>4. FilesOf(row) = {} /\ RowOnce(row)
  BY <1>3 DEF FilesOf, RowOnce
<1> HIDE DEF s
<1>5. ASSUME calm' PROVE NamedOnce(rows') /\ Held = Named(rows')
  <2>1. /\ NamedOnce(rows) /\ Held = Named(rows) \ FilesOf(rows[s])
        /\ Fresh(jobs[h], rows, deals)
    BY <1>1, <1>5, GoOnFinds DEF StoreAt, s
  <2>2. Deletable(h)
    BY <1>1, <2>1 DEF Deletable, Fresh, Exists, Referencing, s
  <2>3. FilesOf(row) \cap (Named(rows) \ FilesOf(rows[s])) = {}
    BY <1>4
  <2>4. rows' = [rows EXCEPT ![s] = row] /\ rows \in [Sources -> Row]
    BY <1>2, <2>2, FilesTyped
  <2>5. Named(rows') = (Named(rows) \ FilesOf(rows[s])) \cup FilesOf(row) /\ NamedOnce(rows')
    BY <1>1, <1>3, <1>4, <2>4, <2>1, <2>3, ReplacedRow
  <2> QED
    BY <1>4, <2>1, <2>5
<1> QED
  BY <1>1, <1>5, GoOnFinds, StoringStays, StillStore, NoJobStill

LEMMA DieStores ==
    ASSUME IInv, NEW h \in Handlers, Die(h)
    PROVE  Storing'
  BY DEF Die, Storing

LEMMA StepStores == IInv /\ Withdrawals /\ Storing /\ [Next]_vars => Storing'
<1> SUFFICES ASSUME IInv, Withdrawals, Storing, [Next]_vars PROVE Storing'
  OBVIOUS
<1>1. CASE UNCHANGED vars
  BY <1>1 DEF vars, marketVars, Storing, Held
<1>2. ASSUME NEW h \in Handlers, NEW s \in Sources,
             \/ \E owner \in Owners \cup {None} : Create(h, s, owner)
             \/ Suspend(h, s) \/ Remove(h, s) \/ AdminRemove(h, s)
             \/ \E image \in BOOLEAN : Upload(h, s, image)
             \/ DeleteMedia(h, s)
      PROVE Storing'
  BY <1>2, CreateStores, SuspendStores, RemoveStores, AdminRemoveStores, UploadStores,
     DeleteMediaStores
<1>3. ASSUME NEW h \in Handlers, Resume(h) \/ Die(h) PROVE Storing'
  BY <1>3, SaveUploadStores, SaveCoverStores, RefuseUploadStores, AttachUploadStores,
     CommitDeleteMediaStores, DealStepStores, ArchiveStores, CommitRemovalStores, DieStores DEF Resume
<1> QED
  BY <1>1, <1>2, <1>3, NewDealStores, PartyStores, PaidStores DEF Next

-----------------------------------------------------------------------------
LEMMA CalmInvariance == Spec => [](IInv /\ Withdrawals /\ Storing)
<1>1. IInv /\ Withdrawals /\ Storing /\ [Next]_vars => (Withdrawals /\ Storing)'
  BY StepWithdraws, StepStores
<1> QED
  BY <1>1, InitWithdrawals, InitStoring, MarketInvariance, PTL DEF Spec

\* One request after the other, no deal is funded whose source was withdrawn
\* before its payment was asked for.
THEOREM WithdrawnUnfunded == Spec => []WithdrawnStaysUnfunded
<1>1. IInv /\ Withdrawals => WithdrawnStaysUnfunded
  BY DEF Withdrawals, Unfunded, WithdrawnStaysUnfunded
<1> QED
  BY <1>1, CalmInvariance, PTL

\* One request after the other, the store holds the files that rows name and no
\* other but those it would not delete and those of uploads given up.
THEOREM StoreFollowsRows == Spec => []StoreMatchesRows
<1>1. Storing => StoreMatchesRows
  BY DEF Storing, StoreMatchesRows, Idle, Named, NoJob, Held
<1> QED
  BY <1>1, CalmInvariance, PTL
=============================================================================

---------------------------- MODULE BadgeProofs ----------------------------
(***************************************************************************)
(* What module Badge promises, for every number of requests, listings,     *)
(* evidence files, calls handled at a time, calls and deaths.              *)
(*                                                                         *)
(* Both promises are for calls that come one after the other, and neither  *)
(* is kept at every commit of such a call: a decision deletes the evidence *)
(* before it says so, an upload saves a file before it names it.  Ordered  *)
(* says, for every stage of the one call under way, what the store holds   *)
(* meanwhile, leaving aside what it would not delete, and that what the    *)
(* call has read is still so.                                              *)
(***************************************************************************)
EXTENDS Badge, TLAPS

Complete(job) ==
    /\ job \in Job
    /\ job.at \in {"uploading", "attaching", "approving", "rejecting"} => job.req \in Reqs
    /\ job.at = "attaching" => job.file \in Files

IInv == TypeOK /\ \A h \in Handlers : Complete(jobs[h])

-----------------------------------------------------------------------------
\* The requests rq for a badge, the listings ls, the business bs and the store
\* st while one call has come this far.
Waiting(rq) == {q \in Reqs : rq[q].status = "pending"}
Listed(rq) == UNION {rq[q].media : q \in Waiting(rq)}
Deciding == {"approving", "rejecting"}

OneDecision(rq) ==
    \A p, q \in Waiting(rq) : p # q => rq[p].subject_type # rq[q].subject_type

NamedOnce(rq) == \A p, q \in Reqs : p # q => rq[p].media \cap rq[q].media = {}

Shown(rq, ls, bs) ==
    /\ \A l \in Listings : ls[l] # "absent" => (ls[l] = "verified" <=> PlatformOwnerVerified(rq))
    /\ bs.verified => bs.current

\* A decision deletes the files before it commits, and a file is saved before
\* its name is.
Kept(job, rq, st) ==
    st = IF job.at \in Deciding THEN Listed(rq) \ rq[job.req].media
         ELSE IF job.at = "attaching" THEN Listed(rq) \cup {job.file}
         ELSE Listed(rq)

\* What a call read is still so.
Read(job, rq, bs) ==
    /\ job.at = "submitting" => \A q \in Waiting(rq) : rq[q].subject_type # job.gate
    /\ job.at \in {"uploading", "attaching"} \cup Deciding =>
          job.req \in Waiting(rq) /\ job.media = rq[job.req].media
    /\ job.at = "attaching" => \A q \in Reqs : job.file \notin rq[q].media
    /\ job.at = "approving" =>
          (job.verified <=> /\ rq[job.req].subject_type \in PlatformGates
                            /\ PlatformOwnerVerified([rq EXCEPT ![job.req].status = "approved"]))
    /\ job.at = "listing" => (job.verified <=> PlatformOwnerVerified(rq))
    /\ job.at = "renaming" /\ job.gate = "business_identity" => ~bs.verified

Settled(job, rq, ls, bs, st) ==
    /\ OneDecision(rq) /\ NamedOnce(rq) /\ Shown(rq, ls, bs)
    /\ Kept(job, rq, st) /\ Read(job, rq, bs)

\* What the store holds and was not asked in vain to delete.
Held == stored \ undeleted

OneJob == \A g, h \in Handlers : jobs[g].at # "idle" /\ jobs[h].at # "idle" => g = h
Ordered ==
    calm => /\ OneJob
            /\ (\A h \in Handlers : jobs[h].at = "idle")
                   => Settled(NoJob, reqs, listings, business, Held)
            /\ \A h \in Handlers : jobs[h].at # "idle"
                   => Settled(jobs[h], reqs, listings, business, Held)

-----------------------------------------------------------------------------
\* Types, and what a call carries from one stage to the next.
LEMMA NoJobComplete == Complete(NoJob) /\ NoJob.at = "idle"
  BY DEF Complete, NoJob, Job, Gates

LEMMA InitTyped == Init => IInv
<1> SUFFICES ASSUME Init PROVE IInv
  OBVIOUS
<1>1. NoReq \in Req
  BY DEF NoReq, Req, Gates
<1>2. \A h \in Handlers : jobs[h] = NoJob
  BY DEF Init
<1>3. NoJob \in Job
  BY NoJobComplete DEF Complete
<1>4. TypeOK
  BY <1>1, <1>3, BadgeAssumption DEF Init, TypeOK
<1> QED
  BY <1>2, <1>4, NoJobComplete DEF IInv

RestTyped ==
    /\ reqs' \in [Reqs -> Req]
    /\ listings' \in [Listings -> {"absent", "verified", "unverified"}]
    /\ business' \in [verified: BOOLEAN, current: BOOLEAN]
    /\ stored' \subseteq Files /\ undeleted' \subseteq stored'

LEMMA RestSame ==
    ASSUME IInv
    PROVE  /\ reqs \in [Reqs -> Req]
           /\ listings \in [Listings -> {"absent", "verified", "unverified"}]
           /\ business \in [verified: BOOLEAN, current: BOOLEAN]
           /\ stored \subseteq Files /\ undeleted \subseteq stored
           /\ \A q \in Reqs : /\ reqs[q] \in Req
                              /\ reqs[q].media \subseteq Files /\ reqs[q].subject_type \in Gates
                              /\ reqs[q].current \in BOOLEAN
  BY DEF IInv, TypeOK, Req

LEMMA Carried ==
    ASSUME IInv, NEW h \in Handlers, NEW job, jobs' = [jobs EXCEPT ![h] = job], Complete(job),
           RestTyped, calls' \in 0..MaxCalls, deaths' \in 0..MaxDeaths, calm' \in BOOLEAN
    PROVE  IInv'
<1>1. job \in Job /\ jobs \in [Handlers -> Job]
  BY DEF Complete, IInv, TypeOK
<1>2. jobs' \in [Handlers -> Job]
  BY <1>1
<1>3. \A g \in Handlers : jobs'[g] = job \/ jobs'[g] = jobs[g]
  BY <1>1
<1> QED
  BY <1>2, <1>3 DEF IInv, TypeOK, RestTyped

LEMMA Arrives ==
    ASSUME IInv, NEW h \in Handlers, NEW job, Arrive(h, job), Complete(job), RestTyped PROVE IInv'
<1>1. calls' \in 0..MaxCalls /\ deaths' \in 0..MaxDeaths /\ calm' \in BOOLEAN
  BY BadgeAssumption DEF Arrive, IInv, TypeOK
<1> QED
  BY <1>1, Carried DEF Arrive

LEMMA GoesOn ==
    ASSUME IInv, NEW h \in Handlers, NEW job, GoOn(h, job), Complete(job), RestTyped PROVE IInv'
<1>1. calls' \in 0..MaxCalls /\ deaths' \in 0..MaxDeaths /\ calm' \in BOOLEAN
  BY DEF GoOn, IInv, TypeOK
<1> QED
  BY <1>1, Carried DEF GoOn

LEMMA SubmitTyped ==
    ASSUME IInv, NEW h \in Handlers, NEW gate \in Gates, Submit(h, gate) PROVE IInv'
<1>1. Complete([NoJob EXCEPT !.at = "submitting", !.gate = gate])
  BY NoJobComplete DEF Complete, Job
<1>2. RestTyped
  BY RestSame DEF Submit, badgeVars, RestTyped
<1> QED
  BY <1>1, <1>2, Arrives DEF Submit

LEMMA InsertRequestTyped ==
    ASSUME IInv, NEW h \in Handlers, InsertRequest(h) PROVE IInv'
<1> DEFINE row == [NoReq EXCEPT !.status = "pending", !.subject_type = jobs[h].gate]
<1>1. PICK q \in Reqs : reqs' = [reqs EXCEPT ![q] = row]
  BY DEF InsertRequest, Unused
<1>2. row \in Req
  BY DEF IInv, TypeOK, Job, NoReq, Req
<1> HIDE DEF row
<1>3. RestTyped
  BY <1>1, <1>2, RestSame DEF InsertRequest, RestTyped
<1> QED
  BY <1>3, NoJobComplete, GoesOn DEF InsertRequest

LEMMA UploadTyped ==
    ASSUME IInv, NEW h \in Handlers, NEW q \in Reqs, UploadEvidence(h, q) PROVE IInv'
<1>1. Complete([NoJob EXCEPT !.at = "uploading", !.req = q, !.media = reqs[q].media])
  BY NoJobComplete, RestSame DEF Complete, Job
<1>2. RestTyped
  BY RestSame DEF UploadEvidence, badgeVars, RestTyped
<1> QED
  BY <1>1, <1>2, Arrives DEF UploadEvidence

LEMMA SaveTyped ==
    ASSUME IInv, NEW h \in Handlers, SaveUpload(h) PROVE IInv'
<1>1. PICK f \in Files : /\ stored' = stored \cup {f}
                         /\ GoOn(h, [jobs[h] EXCEPT !.at = "attaching", !.file = f])
  BY DEF SaveUpload
<1>2. Complete([jobs[h] EXCEPT !.at = "attaching", !.file = f])
  BY DEF IInv, Complete, SaveUpload, Job
<1>3. RestTyped
  BY <1>1, RestSame DEF SaveUpload, RestTyped
<1> QED
  BY <1>1, <1>2, <1>3, GoesOn

\* A request keeps its type when its status, files or currency are rewritten.
LEMMA Rewritten ==
    ASSUME NEW row \in Req, NEW status \in {"pending", "approved", "rejected", "revoked"},
           NEW media \in SUBSET Files
    PROVE  /\ [row EXCEPT !.media = media] \in Req
           /\ [row EXCEPT !.status = status] \in Req
           /\ [row EXCEPT !.current = FALSE] \in Req
           /\ [row EXCEPT !.status = status, !.media = media] \in Req
           /\ [row EXCEPT !.status = status, !.media = media, !.current = TRUE] \in Req
  BY DEF Req

LEMMA AttachTyped ==
    ASSUME IInv, NEW h \in Handlers, AttachEvidence(h) PROVE IInv'
<1> DEFINE q == jobs[h].req
           media == jobs[h].media \cup {jobs[h].file}
<1>1. q \in Reqs /\ media \in SUBSET Files
  BY DEF IInv, TypeOK, Complete, AttachEvidence, Job
<1>2. reqs' = [reqs EXCEPT ![q] = [reqs[q] EXCEPT !.media = media]]
  BY <1>1, RestSame DEF AttachEvidence
<1> HIDE DEF q, media
<1>3. [reqs[q] EXCEPT !.media = media] \in Req
  BY <1>1, RestSame, Rewritten
<1>4. RestTyped
  BY <1>2, <1>3, RestSame DEF AttachEvidence, RestTyped
<1> QED
  BY <1>4, NoJobComplete, GoesOn DEF AttachEvidence

LEMMA DecideTyped ==
    ASSUME IInv, NEW h \in Handlers, NEW q \in Reqs, NEW at \in Deciding, Decide(h, q, at) PROVE IInv'
<1> DEFINE verified == FullyVerified(q)
           job == [NoJob EXCEPT !.at = at, !.req = q, !.media = reqs[q].media, !.verified = verified]
<1>1. verified \in BOOLEAN
  BY DEF FullyVerified, PlatformOwnerVerified
<1>2. Arrive(h, job)
  BY DEF Decide
<1> HIDE DEF verified
<1>3. Complete(job)
  BY <1>1, NoJobComplete, RestSame DEF Complete, Job, Deciding
<1>4. RestTyped
  BY RestSame DEF Decide, Wipe, RestTyped
<1> QED
  BY <1>2, <1>3, <1>4, Arrives

LEMMA Decided ==
    ASSUME IInv, NEW h \in Handlers, jobs[h].at \in Deciding
    PROVE  jobs[h].req \in Reqs /\ Wiped(h) \in SUBSET Files
  BY RestSame DEF IInv, Complete, Deciding, Wiped

LEMMA ApprovalTyped ==
    ASSUME IInv, NEW h \in Handlers, CommitApproval(h) PROVE IInv'
<1> DEFINE q == jobs[h].req
           media == Wiped(h)
<1>1. q \in Reqs /\ media \in SUBSET Files
  BY Decided DEF CommitApproval, Deciding
<1>2. reqs' = [reqs EXCEPT ![q] = [reqs[q] EXCEPT !.status = "approved", !.media = media,
                                                  !.current = TRUE]]
  BY <1>1, RestSame DEF CommitApproval
<1> HIDE DEF q, media
<1>3. [reqs[q] EXCEPT !.status = "approved", !.media = media, !.current = TRUE] \in Req
  BY <1>1, RestSame, Rewritten
<1>4. reqs' \in [Reqs -> Req] /\ stored' \subseteq Files /\ undeleted' \subseteq stored'
  BY <1>2, <1>3, RestSame DEF CommitApproval
<1>5. /\ listings' \in [Listings -> {"absent", "verified", "unverified"}]
      /\ business' \in [verified: BOOLEAN, current: BOOLEAN]
  BY RestSame DEF CommitApproval
<1> QED
  BY <1>4, <1>5, NoJobComplete, GoesOn DEF CommitApproval, RestTyped

LEMMA RejectionTyped ==
    ASSUME IInv, NEW h \in Handlers, CommitRejection(h) PROVE IInv'
<1> DEFINE q == jobs[h].req
           media == Wiped(h)
<1>1. q \in Reqs /\ media \in SUBSET Files
  BY Decided DEF CommitRejection, Deciding
<1>2. reqs' = [reqs EXCEPT ![q] = [reqs[q] EXCEPT !.status = "rejected", !.media = media]]
  BY <1>1, RestSame DEF CommitRejection
<1> HIDE DEF q, media
<1>3. [reqs[q] EXCEPT !.status = "rejected", !.media = media] \in Req
  BY <1>1, RestSame, Rewritten
<1>4. RestTyped
  BY <1>2, <1>3, RestSame DEF CommitRejection, RestTyped
<1> QED
  BY <1>4, NoJobComplete, GoesOn DEF CommitRejection

LEMMA RevokeTyped ==
    ASSUME IInv, NEW gate, RevokePlatformOwner(gate)
    PROVE  /\ reqs' \in [Reqs -> Req]
           /\ listings' \in [Listings -> {"absent", "verified", "unverified"}]
  BY RestSame, Rewritten DEF RevokePlatformOwner, Unverify

LEMMA EditTyped ==
    ASSUME IInv, NEW h \in Handlers,
           UpsertBusiness(h) \/ UpdateProfile(h) \/ \E l \in Listings : UpdatePlatform(h, l)
    PROVE  IInv'
<1>1. \A gate \in Gates : Complete([NoJob EXCEPT !.at = "renaming", !.gate = gate])
  BY NoJobComplete DEF Complete, Job
<1>2. RestTyped
  BY RestSame, RevokeTyped DEF UpsertBusiness, UpdateProfile, UpdatePlatform, RestTyped
<1> QED
  BY <1>1, <1>2, Arrives DEF UpsertBusiness, UpdateProfile, UpdatePlatform, Gates, PlatformGates

LEMMA CommitEditTyped ==
    ASSUME IInv, NEW h \in Handlers, CommitEdit(h) PROVE IInv'
<1>1. reqs' \in [Reqs -> Req]
  BY RestSame, Rewritten DEF CommitEdit
<1> DEFINE current == business.current /\ jobs[h].gate # "business_identity"
<1>2. business' = [business EXCEPT !.current = current]
  BY RestSame DEF CommitEdit
<1>3. current \in BOOLEAN
  OBVIOUS
<1> HIDE DEF current
<1>4. business' \in [verified: BOOLEAN, current: BOOLEAN]
  BY <1>2, <1>3, RestSame
<1>5. RestTyped
  BY <1>1, <1>4, RestSame DEF CommitEdit, RestTyped
<1> QED
  BY <1>5, NoJobComplete, GoesOn DEF CommitEdit

LEMMA ListingTyped ==
    ASSUME IInv, NEW h \in Handlers,
           CreatePlatform(h) \/ InsertPlatform(h) \/ \E l \in Listings : RemovePlatform(h, l)
    PROVE  IInv'
<1>1. RestTyped
  BY RestSame DEF CreatePlatform, InsertPlatform, RemovePlatform, badgeVars, RestTyped
<1>2. CASE CreatePlatform(h)
  <2> DEFINE verified == PlatformOwnerVerified(reqs)
  <2>1. verified \in BOOLEAN
    BY DEF PlatformOwnerVerified
  <2>2. Arrive(h, [NoJob EXCEPT !.at = "listing", !.verified = verified])
    BY <1>2 DEF CreatePlatform
  <2> HIDE DEF verified
  <2>3. Complete([NoJob EXCEPT !.at = "listing", !.verified = verified])
    BY <2>1, NoJobComplete DEF Complete, Job
  <2> QED
    BY <1>1, <2>2, <2>3, Arrives
<1>3. CASE InsertPlatform(h)
  BY <1>1, <1>3, NoJobComplete, GoesOn DEF InsertPlatform
<1>4. CASE \E l \in Listings : RemovePlatform(h, l)
  BY <1>1, <1>4, NoJobComplete, Arrives DEF RemovePlatform
<1> QED
  BY <1>2, <1>3, <1>4

LEMMA DieTyped ==
    ASSUME IInv, NEW h \in Handlers, Die(h) PROVE IInv'
<1>1. RestTyped
  BY RestSame DEF Die, badgeVars, RestTyped
<1>2. calls' \in 0..MaxCalls /\ deaths' \in 0..MaxDeaths
  BY BadgeAssumption DEF Die, IInv, TypeOK
<1>3. calm' \in BOOLEAN
  BY DEF Die
<1> QED
  BY <1>1, <1>2, <1>3, NoJobComplete, Carried DEF Die

LEMMA NextTyped == IInv /\ [Next]_vars => IInv'
<1> SUFFICES ASSUME IInv, [Next]_vars PROVE IInv'
  OBVIOUS
<1>1. CASE Next
  BY <1>1, SubmitTyped, InsertRequestTyped, UploadTyped, SaveTyped, AttachTyped, DecideTyped,
     ApprovalTyped, RejectionTyped, EditTyped, CommitEditTyped, ListingTyped, DieTyped
     DEF Next, Resume, Deciding
<1>2. CASE UNCHANGED vars
  BY <1>2 DEF vars, badgeVars, IInv, TypeOK
<1> QED
  BY <1>1, <1>2

-----------------------------------------------------------------------------
\* What the sets say of the rows they are read from.
LEMMA VerifiedMeans ==
    ASSUME NEW rq
    PROVE  PlatformOwnerVerified(rq) <=>
             \A gate \in PlatformGates :
                 \E q \in Reqs : rq[q].status = "approved" /\ rq[q].subject_type = gate
  BY DEF PlatformOwnerVerified, Approved

LEMMA ListedMeans ==
    ASSUME NEW rq
    PROVE  \A f : f \in Listed(rq) <=> \E q \in Reqs : rq[q].status = "pending" /\ f \in rq[q].media
  BY DEF Listed, Waiting

\* The badge the requests compute is unchanged while the same ones are approved.
LEMMA SameVerified ==
    ASSUME NEW rq, NEW rq2,
           \A q \in Reqs : /\ rq2[q].status = "approved" <=> rq[q].status = "approved"
                           /\ rq[q].status = "approved" => rq2[q].subject_type = rq[q].subject_type
    PROVE  PlatformOwnerVerified(rq2) <=> PlatformOwnerVerified(rq)
<1>1. \A gate : (\E q \in Reqs : rq[q].status = "approved" /\ rq[q].subject_type = gate)
                <=> \E q \in Reqs : rq2[q].status = "approved" /\ rq2[q].subject_type = gate
  OBVIOUS
<1> QED
  BY <1>1, VerifiedMeans

LEMMA SameFiles ==
    ASSUME NEW rq, NEW rq2,
           \A q \in Reqs : \A f : rq2[q].status = "pending" /\ f \in rq2[q].media
                                <=> rq[q].status = "pending" /\ f \in rq[q].media
    PROVE  Listed(rq2) = Listed(rq)
<1>1. \A f : f \in Listed(rq2) <=> f \in Listed(rq)
  BY ListedMeans
<1> QED
  BY <1>1

\* A step that touches neither what waits nor what is approved.
LEMMA SameListed ==
    ASSUME NEW rq, NEW rq2,
           \A q \in Reqs : /\ rq2[q].status = "pending" <=> rq[q].status = "pending"
                           /\ rq2[q].media = rq[q].media
                           /\ rq2[q].subject_type = rq[q].subject_type
    PROVE  /\ Listed(rq2) = Listed(rq) /\ Waiting(rq2) = Waiting(rq)
           /\ OneDecision(rq) => OneDecision(rq2)
           /\ NamedOnce(rq) => NamedOnce(rq2)
<1>1. Waiting(rq2) = Waiting(rq)
  BY DEF Waiting
<1>2. Listed(rq2) = Listed(rq)
  BY SameFiles
<1> QED
  BY <1>1, <1>2 DEF OneDecision, NamedOnce, Waiting

\* The stages at which a call holds nothing and has left nothing half done.
LEMMA Ended ==
    ASSUME NEW job, job.at = "idle", NEW rq, NEW ls, NEW bs, NEW st,
           OneDecision(rq), NamedOnce(rq), Shown(rq, ls, bs), st = Listed(rq)
    PROVE  Settled(job, rq, ls, bs, st)
  BY DEF Settled, Kept, Read, Deciding

-----------------------------------------------------------------------------
\* What a call finds when all is calm, and when it leaves all in order.
Finds(job, next) ==
    calm /\ Settled(job, reqs, listings, business, Held)
        => Settled(next, reqs', listings', business', Held')

LEMMA Alone ==
    ASSUME IInv, NEW h \in Handlers, NEW next, jobs' = [jobs EXCEPT ![h] = next],
           calm' => /\ \A g \in Handlers : g # h => jobs[g].at = "idle"
                    /\ Settled(next, reqs', listings', business', Held')
    PROVE  Ordered'
<1>1. jobs'[h] = next /\ \A g \in Handlers : g # h => jobs'[g] = jobs[g]
  BY DEF IInv, TypeOK
<1>2. ASSUME calm', next.at = "idle"
      PROVE  Settled(NoJob, reqs', listings', business', Held')
  BY <1>2, NoJobComplete, Ended DEF Settled, Kept, Deciding
<1> QED
  BY <1>1, <1>2 DEF Ordered, OneJob

LEMMA Arrived ==
    ASSUME IInv, Ordered, NEW h \in Handlers, NEW next, Arrive(h, next), Finds(NoJob, next)
    PROVE  Ordered'
<1>1. ASSUME calm' PROVE /\ \A g \in Handlers : g # h => jobs[g].at = "idle"
                         /\ Settled(next, reqs', listings', business', Held')
  <2>1. calm /\ \A g \in Handlers : jobs[g] = NoJob
    BY <1>1 DEF Arrive
  <2>2. \A g \in Handlers : jobs[g].at = "idle"
    BY <2>1, NoJobComplete
  <2> QED
    BY <2>1, <2>2 DEF Ordered, Finds
<1> QED
  BY <1>1, Alone DEF Arrive

LEMMA WentOn ==
    ASSUME IInv, Ordered, NEW h \in Handlers, NEW next, GoOn(h, next), jobs[h].at # "idle",
           Finds(jobs[h], next)
    PROVE  Ordered'
<1>1. ASSUME calm' PROVE /\ \A g \in Handlers : g # h => jobs[g].at = "idle"
                         /\ Settled(next, reqs', listings', business', Held')
  <2>1. calm
    BY <1>1 DEF GoOn
  <2> QED
    BY <2>1 DEF Ordered, OneJob, Finds
<1> QED
  BY <1>1, Alone DEF GoOn

LEMMA InitOrdered == Init => Ordered
<1> SUFFICES ASSUME Init PROVE Ordered
  OBVIOUS
<1>1. \A q \in Reqs : reqs[q].status = "absent" /\ reqs[q].media = {}
  BY DEF Init, NoReq
<1>2. Waiting(reqs) = {}
  BY <1>1 DEF Waiting
<1>3. Listed(reqs) = {}
  BY <1>2 DEF Listed
<1>4. Shown(reqs, listings, business)
  BY DEF Init, Shown
<1>5. Settled(NoJob, reqs, listings, business, Held)
  BY <1>1, <1>2, <1>3, <1>4, NoJobComplete, Ended DEF Init, OneDecision, NamedOnce, Held
<1> QED
  BY <1>5, NoJobComplete DEF Init, Ordered, OneJob

\* A call that has only read.
LEMMA Asked ==
    ASSUME IInv, Ordered, NEW h \in Handlers, NEW next, Arrive(h, next), UNCHANGED badgeVars,
           next.at \notin Deciding \cup {"attaching"},
           OneDecision(reqs) => Read(next, reqs, business)
    PROVE  Ordered'
<1>1. Finds(NoJob, next)
  BY NoJobComplete DEF Finds, Settled, Kept, badgeVars, Deciding, Held
<1> QED
  BY <1>1, Arrived

LEMMA SubmitOrdered ==
    ASSUME IInv, Ordered, NEW h \in Handlers, NEW gate \in Gates, Submit(h, gate) PROVE Ordered'
<1> DEFINE next == [NoJob EXCEPT !.at = "submitting", !.gate = gate]
<1>1. next.at = "submitting" /\ next.gate = gate /\ Arrive(h, next)
  BY DEF Submit, NoJob
<1> HIDE DEF next
<1>2. Read(next, reqs, business)
  BY <1>1 DEF Submit, Pending, Read, Waiting, Deciding
<1> QED
  BY <1>1, <1>2, Asked DEF Submit, Deciding

LEMMA UploadOrdered ==
    ASSUME IInv, Ordered, NEW h \in Handlers, NEW q \in Reqs, UploadEvidence(h, q) PROVE Ordered'
<1> DEFINE next == [NoJob EXCEPT !.at = "uploading", !.req = q, !.media = reqs[q].media]
<1>1. next.at = "uploading" /\ next.req = q /\ next.media = reqs[q].media /\ Arrive(h, next)
  BY DEF UploadEvidence, NoJob
<1> HIDE DEF next
<1>2. Read(next, reqs, business)
  BY <1>1 DEF UploadEvidence, Read, Waiting, Deciding
<1> QED
  BY <1>1, <1>2, Asked DEF UploadEvidence, Deciding

LEMMA CreateOrdered ==
    ASSUME IInv, Ordered, NEW h \in Handlers, CreatePlatform(h) PROVE Ordered'
<1> DEFINE verified == PlatformOwnerVerified(reqs)
           next == [NoJob EXCEPT !.at = "listing", !.verified = verified]
<1>1. next.at = "listing" /\ next.verified = verified /\ Arrive(h, next)
  BY DEF CreatePlatform, NoJob
<1> HIDE DEF next
<1>2. Read(next, reqs, business)
  BY <1>1 DEF Read, Deciding
<1> QED
  BY <1>1, <1>2, Asked DEF CreatePlatform, Deciding

LEMMA InsertRequestOrdered ==
    ASSUME IInv, Ordered, NEW h \in Handlers, InsertRequest(h) PROVE Ordered'
<1> DEFINE gate == jobs[h].gate
           row == [NoReq EXCEPT !.status = "pending", !.subject_type = gate]
<1>1. PICK q \in Reqs : reqs[q].status = "absent" /\ reqs' = [reqs EXCEPT ![q] = row]
  BY DEF InsertRequest, Unused
<1>2. row.status = "pending" /\ row.subject_type = gate /\ row.media = {}
  BY DEF NoReq
<1>3. /\ GoOn(h, NoJob) /\ jobs[h].at = "submitting"
      /\ listings' = listings /\ business' = business /\ Held' = Held
  BY DEF InsertRequest, Held
<1> HIDE DEF gate, row
<1>4. reqs'[q] = row /\ \A p \in Reqs : p # q => reqs'[p] = reqs[p]
  BY <1>1, RestSame
<1>5. Finds(jobs[h], NoJob)
  <2> SUFFICES ASSUME Settled(jobs[h], reqs, listings, business, Held)
               PROVE  Settled(NoJob, reqs', listings', business', Held')
    BY DEF Finds
  <2>1. \A p \in Reqs : reqs[p].status = "pending" => reqs[p].subject_type # gate
    BY <1>3 DEF Settled, Read, Waiting, gate
  <2>2. OneDecision(reqs')
    BY <1>2, <1>4, <2>1 DEF Settled, OneDecision, Waiting
  <2>3. NamedOnce(reqs')
    BY <1>2, <1>4 DEF Settled, NamedOnce
  <2>4. PlatformOwnerVerified(reqs') <=> PlatformOwnerVerified(reqs)
    BY <1>1, <1>2, <1>4, SameVerified
  <2>5. Listed(reqs') = Listed(reqs)
    <3>1. \A p \in Reqs : \A f : reqs'[p].status = "pending" /\ f \in reqs'[p].media
                                <=> reqs[p].status = "pending" /\ f \in reqs[p].media
      BY <1>1, <1>2, <1>4
    <3> QED
      BY <3>1, SameFiles
  <2>6. Held = Listed(reqs)
    BY <1>3 DEF Settled, Kept, Deciding
  <2> QED
    BY <1>3, <2>2, <2>3, <2>4, <2>5, <2>6, NoJobComplete, Ended DEF Settled, Shown
<1> QED
  BY <1>3, <1>5, WentOn

-----------------------------------------------------------------------------
\* Evidence: the file is in the store before its name is on the request.
LEMMA SaveOrdered ==
    ASSUME IInv, Ordered, NEW h \in Handlers, SaveUpload(h) PROVE Ordered'
<1>1. PICK f \in Files : /\ \A q \in Reqs : f \notin reqs[q].media
                         /\ Held' = Held \cup {f}
                         /\ GoOn(h, [jobs[h] EXCEPT !.at = "attaching", !.file = f])
  BY RestSame DEF SaveUpload, Held
<1> DEFINE next == [jobs[h] EXCEPT !.at = "attaching", !.file = f]
<1>2. jobs[h] \in Job /\ jobs[h].at = "uploading" /\ GoOn(h, next)
  BY <1>1 DEF SaveUpload, IInv, TypeOK
<1>3. /\ next.at = "attaching" /\ next.file = f /\ next.req = jobs[h].req
      /\ next.media = jobs[h].media
  BY <1>2 DEF Job
<1>4. reqs' = reqs /\ listings' = listings /\ business' = business
  BY DEF SaveUpload
<1> HIDE DEF next
<1>5. Finds(jobs[h], next)
  <2> SUFFICES ASSUME Settled(jobs[h], reqs, listings, business, Held)
               PROVE  Settled(next, reqs, listings, business, Held')
    BY <1>4 DEF Finds
  <2>1. Kept(next, reqs, Held')
    BY <1>1, <1>2, <1>3 DEF Settled, Kept, Deciding
  <2>2. Read(next, reqs, business)
    BY <1>1, <1>2, <1>3 DEF Settled, Read, Deciding
  <2> QED
    BY <2>1, <2>2 DEF Settled
<1> QED
  BY <1>2, <1>5, WentOn

LEMMA AttachOrdered ==
    ASSUME IInv, Ordered, NEW h \in Handlers, AttachEvidence(h) PROVE Ordered'
<1> DEFINE q == jobs[h].req
           file == jobs[h].file
           media == jobs[h].media \cup {file}
<1>1. /\ q \in Reqs /\ jobs[h].at = "attaching" /\ GoOn(h, NoJob)
      /\ listings' = listings /\ business' = business /\ Held' = Held
  BY DEF AttachEvidence, IInv, Complete, Held
<1>2. reqs' = [reqs EXCEPT ![q] = [reqs[q] EXCEPT !.media = media]]
  BY <1>1, RestSame DEF AttachEvidence
<1>3. /\ reqs'[q].media = media /\ reqs'[q].status = reqs[q].status
      /\ reqs'[q].subject_type = reqs[q].subject_type
      /\ \A p \in Reqs : p # q => reqs'[p] = reqs[p]
  BY <1>1, <1>2, RestSame DEF Req
<1>4. Finds(jobs[h], NoJob)
  <2> SUFFICES ASSUME Settled(jobs[h], reqs, listings, business, Held)
               PROVE  Settled(NoJob, reqs', listings', business', Held')
    BY DEF Finds
  <2>1. /\ reqs[q].status = "pending" /\ media = reqs[q].media \cup {file}
        /\ \A p \in Reqs : file \notin reqs[p].media
        /\ Held = Listed(reqs) \cup {file}
    BY <1>1 DEF Settled, Read, Waiting, Kept, Deciding
  <2> HIDE DEF q, file, media
  <2>2. OneDecision(reqs')
    BY <1>1, <1>3 DEF Settled, OneDecision, Waiting
  <2>3. NamedOnce(reqs')
    BY <1>1, <1>3, <2>1 DEF Settled, NamedOnce
  <2>4. PlatformOwnerVerified(reqs') <=> PlatformOwnerVerified(reqs)
    BY <1>1, <1>3, SameVerified
  <2>5. \A f : f \in Listed(reqs') <=> f \in Listed(reqs) \/ f = file
    <3>1. \A p \in Reqs : reqs'[p].status = reqs[p].status
      BY <1>3
    <3>2. \A p \in Reqs : \A f : f \in reqs'[p].media <=> f \in reqs[p].media \/ (f = file /\ p = q)
      BY <1>3, <2>1
    <3> QED
      BY <1>1, <2>1, <3>1, <3>2, ListedMeans
  <2>6. Held = Listed(reqs')
    BY <2>1, <2>5
  <2> QED
    BY <1>1, <2>2, <2>3, <2>4, <2>6, NoJobComplete, Ended DEF Settled, Shown
<1> QED
  BY <1>1, <1>4, WentOn

-----------------------------------------------------------------------------
\* A decision: the files are gone before the request says that it is decided.
LEMMA DecideOrdered ==
    ASSUME IInv, Ordered, NEW h \in Handlers, NEW q \in Reqs, NEW at \in Deciding, Decide(h, q, at)
    PROVE  Ordered'
<1> DEFINE verified == FullyVerified(q)
           next == [NoJob EXCEPT !.at = at, !.req = q, !.media = reqs[q].media,
                                 !.verified = verified]
<1>1. /\ next.at = at /\ next.req = q /\ next.media = reqs[q].media /\ next.verified = verified
      /\ Arrive(h, next)
  BY DEF Decide, NoJob
<1>2. /\ reqs[q].status = "pending" /\ Held' = Held \ reqs[q].media
      /\ reqs' = reqs /\ listings' = listings /\ business' = business
  BY DEF Decide, Wipe, Held
<1> HIDE DEF next
<1>3. Read(next, reqs, business)
  BY <1>1, <1>2 DEF Read, Waiting, Deciding, FullyVerified
<1>4. Finds(NoJob, next)
  <2> SUFFICES ASSUME Settled(NoJob, reqs, listings, business, Held)
               PROVE  Settled(next, reqs, listings, business, Held')
    BY <1>2 DEF Finds
  <2>1. Kept(next, reqs, Held')
    BY <1>1, <1>2, NoJobComplete DEF Settled, Kept, Deciding
  <2> QED
    BY <1>3, <2>1 DEF Settled
<1> QED
  BY <1>1, <1>4, Arrived

\* The write of a decision, whichever it is.
LEMMA DecidedRow ==
    ASSUME IInv, NEW h \in Handlers, jobs[h].at \in Deciding,
           Settled(jobs[h], reqs, listings, business, Held),
           NEW q, q = jobs[h].req, NEW status \in {"approved", "rejected"},
           reqs'[q].status = status, reqs'[q].subject_type = reqs[q].subject_type,
           reqs'[q].media = Wiped(h), \A p \in Reqs : p # q => reqs'[p] = reqs[p]
    PROVE  /\ q \in Reqs /\ reqs[q].status = "pending"
           /\ OneDecision(reqs') /\ NamedOnce(reqs') /\ Held = Listed(reqs')
<1>1. /\ q \in Reqs /\ reqs[q].status = "pending" /\ jobs[h].media = reqs[q].media
      /\ Held = Listed(reqs) \ reqs[q].media
  BY DEF Settled, Read, Waiting, Kept, Deciding
<1>2. reqs'[q].media = {}
  BY <1>1 DEF Wiped
<1>3. OneDecision(reqs')
  BY DEF Settled, OneDecision, Waiting
<1>4. NamedOnce(reqs')
  BY <1>2 DEF Settled, NamedOnce
<1>5. \A f : f \in Listed(reqs') <=> f \in Listed(reqs) /\ f \notin reqs[q].media
  <2> SUFFICES ASSUME NEW f PROVE f \in Listed(reqs') <=> f \in Listed(reqs) /\ f \notin reqs[q].media
    OBVIOUS
  <2>1. \A p \in Reqs : reqs'[p].status = "pending" /\ f \in reqs'[p].media
                        <=> p # q /\ reqs[p].status = "pending" /\ f \in reqs[p].media
    BY <1>2
  <2>2. \A p \in Reqs : p # q /\ f \in reqs[p].media => f \notin reqs[q].media
    BY <1>1 DEF Settled, NamedOnce
  <2> QED
    BY <2>1, <2>2, ListedMeans
<1>6. Held = Listed(reqs')
  BY <1>1, <1>5
<1> QED
  BY <1>1, <1>3, <1>4, <1>6

LEMMA RejectionOrdered ==
    ASSUME IInv, Ordered, NEW h \in Handlers, CommitRejection(h) PROVE Ordered'
<1> DEFINE q == jobs[h].req
           media == Wiped(h)
<1>1. /\ q \in Reqs /\ jobs[h].at = "rejecting" /\ GoOn(h, NoJob)
      /\ listings' = listings /\ business' = business /\ Held' = Held
  BY Decided DEF CommitRejection, Deciding, Held
<1>2. reqs' = [reqs EXCEPT ![q] = [reqs[q] EXCEPT !.status = "rejected", !.media = media]]
  BY <1>1, RestSame DEF CommitRejection
<1>3. /\ reqs'[q].status = "rejected" /\ reqs'[q].media = media
      /\ reqs'[q].subject_type = reqs[q].subject_type
      /\ \A p \in Reqs : p # q => reqs'[p] = reqs[p]
  BY <1>1, <1>2, RestSame DEF Req
<1> HIDE DEF q
<1>4. Finds(jobs[h], NoJob)
  <2> SUFFICES ASSUME Settled(jobs[h], reqs, listings, business, Held)
               PROVE  Settled(NoJob, reqs', listings', business', Held')
    BY DEF Finds
  <2>1. /\ reqs[q].status = "pending"
        /\ OneDecision(reqs') /\ NamedOnce(reqs') /\ Held = Listed(reqs')
    BY <1>1, <1>3, DecidedRow DEF Deciding, q
  <2>2. PlatformOwnerVerified(reqs') <=> PlatformOwnerVerified(reqs)
    BY <1>1, <1>3, <2>1, SameVerified
  <2> QED
    BY <1>1, <2>1, <2>2, NoJobComplete, Ended DEF Settled, Shown
<1> QED
  BY <1>1, <1>4, WentOn

LEMMA ApprovalOrdered ==
    ASSUME IInv, Ordered, NEW h \in Handlers, CommitApproval(h) PROVE Ordered'
<1> DEFINE q == jobs[h].req
           media == Wiped(h)
           verified == jobs[h].verified
<1>1. q \in Reqs /\ jobs[h].at = "approving" /\ GoOn(h, NoJob) /\ Held' = Held
  BY Decided DEF CommitApproval, Deciding, Held
<1>2. reqs' = [reqs EXCEPT ![q] = [reqs[q] EXCEPT !.status = "approved", !.media = media,
                                                  !.current = TRUE]]
  BY <1>1, RestSame DEF CommitApproval
<1>3. /\ reqs'[q].status = "approved" /\ reqs'[q].media = media
      /\ reqs'[q].subject_type = reqs[q].subject_type
      /\ \A p \in Reqs : p # q => reqs'[p] = reqs[p]
  BY <1>1, <1>2, RestSame DEF Req
<1>4. /\ \A l \in Listings : listings'[l] = IF verified /\ listings[l] # "absent"
                                            THEN "verified" ELSE listings[l]
      /\ business' = business \/ business'.current
  BY DEF CommitApproval
<1> HIDE DEF q, verified
<1>5. Finds(jobs[h], NoJob)
  <2> SUFFICES ASSUME Settled(jobs[h], reqs, listings, business, Held)
               PROVE  Settled(NoJob, reqs', listings', business', Held')
    BY DEF Finds
  <2>1. /\ reqs[q].status = "pending"
        /\ OneDecision(reqs') /\ NamedOnce(reqs') /\ Held = Listed(reqs')
    BY <1>1, <1>3, DecidedRow DEF Deciding, q
  <2> DEFINE rq == [reqs EXCEPT ![q].status = "approved"]
  <2>2. verified <=> reqs[q].subject_type \in PlatformGates /\ PlatformOwnerVerified(rq)
    BY <1>1 DEF Settled, Read, q, verified
  <2>3. /\ rq[q].status = "approved" /\ rq[q].subject_type = reqs[q].subject_type
        /\ \A p \in Reqs : p # q => rq[p] = reqs[p]
    BY <1>1, RestSame DEF Req
  <2> HIDE DEF rq
  <2>4. PlatformOwnerVerified(reqs') <=> PlatformOwnerVerified(rq)
    BY <1>1, <1>3, <2>3, SameVerified
  <2>5. PlatformOwnerVerified(reqs) => PlatformOwnerVerified(reqs')
    <3>1. \A p \in Reqs : reqs[p].status = "approved" =>
              reqs'[p].status = "approved" /\ reqs'[p].subject_type = reqs[p].subject_type
      BY <1>3
    <3> QED
      BY <3>1, VerifiedMeans
  <2>6. reqs[q].subject_type \notin PlatformGates =>
            (PlatformOwnerVerified(reqs') <=> PlatformOwnerVerified(reqs))
    <3> SUFFICES ASSUME reqs[q].subject_type \notin PlatformGates, PlatformOwnerVerified(reqs')
                 PROVE  PlatformOwnerVerified(reqs)
      BY <2>5
    <3>1. \A p \in Reqs : reqs'[p].status = "approved" /\ reqs'[p].subject_type \in PlatformGates
                          => p # q /\ reqs[p] = reqs'[p]
      BY <1>3
    <3>2. ASSUME NEW gate \in PlatformGates
          PROVE  \E p \in Reqs : reqs[p].status = "approved" /\ reqs[p].subject_type = gate
      <4>1. PICK p \in Reqs : reqs'[p].status = "approved" /\ reqs'[p].subject_type = gate
        BY VerifiedMeans
      <4> QED
        BY <3>1, <4>1
    <3> QED
      BY <3>2, VerifiedMeans
  <2>7. \A l \in Listings : listings'[l] # "absent" =>
            (listings'[l] = "verified" <=> PlatformOwnerVerified(reqs'))
    BY <1>4, <2>2, <2>4, <2>5, <2>6 DEF Settled, Shown
  <2>8. business'.verified => business'.current
    BY <1>4 DEF Settled, Shown
  <2>9. Shown(reqs', listings', business')
    BY <2>7, <2>8 DEF Shown
  <2> QED
    BY <1>1, <2>1, <2>9, NoJobComplete, Ended
<1> QED
  BY <1>1, <1>5, WentOn

-----------------------------------------------------------------------------
\* Edits and listings.
LEMMA RevokeLeaves ==
    ASSUME IInv, NEW gate \in PlatformGates, RevokePlatformOwner(gate)
    PROVE  /\ \A q \in Reqs : /\ reqs'[q].status = "pending" <=> reqs[q].status = "pending"
                              /\ reqs'[q].media = reqs[q].media
                              /\ reqs'[q].subject_type = reqs[q].subject_type
           /\ ~PlatformOwnerVerified(reqs')
           /\ \A l \in Listings : listings'[l] # "verified"
<1>1. \A q \in Reqs : /\ reqs'[q].status = "pending" <=> reqs[q].status = "pending"
                      /\ reqs'[q].media = reqs[q].media
                      /\ reqs'[q].subject_type = reqs[q].subject_type
                      /\ reqs[q].subject_type = gate => reqs'[q].status # "approved"
  BY RestSame DEF RevokePlatformOwner, Req
<1>2. ~PlatformOwnerVerified(reqs')
  BY <1>1, VerifiedMeans
<1>3. \A l \in Listings : listings'[l] # "verified"
  BY DEF RevokePlatformOwner, Unverify
<1> QED
  BY <1>1, <1>2, <1>3

LEMMA EditOrdered ==
    ASSUME IInv, Ordered, NEW h \in Handlers,
           UpsertBusiness(h) \/ UpdateProfile(h) \/ \E l \in Listings : UpdatePlatform(h, l)
    PROVE  Ordered'
<1>1. PICK gate \in Gates :
         /\ Arrive(h, [NoJob EXCEPT !.at = "renaming", !.gate = gate])
         /\ Held' = Held
         /\ IF gate = "business_identity"
            THEN /\ business' = [business EXCEPT !.verified = FALSE]
                 /\ reqs' = reqs /\ listings' = listings
            ELSE /\ business' = business
                 /\ \/ RevokePlatformOwner(gate)
                    \/ reqs' = reqs /\ listings' = listings
  BY DEF UpsertBusiness, UpdateProfile, UpdatePlatform, Gates, PlatformGates, Held
<1> DEFINE next == [NoJob EXCEPT !.at = "renaming", !.gate = gate]
<1>2. next.at = "renaming" /\ next.gate = gate /\ Arrive(h, next)
  BY <1>1 DEF NoJob
<1> HIDE DEF next
<1>3. /\ gate = "business_identity" => ~business'.verified
      /\ gate # "business_identity" => business' = business
  BY <1>1, RestSame
<1>4. Finds(NoJob, next)
  <2> SUFFICES ASSUME Settled(NoJob, reqs, listings, business, Held)
               PROVE  Settled(next, reqs', listings', business', Held')
    BY DEF Finds
  <2>1. Read(next, reqs', business')
    BY <1>2, <1>3 DEF Read, Deciding
  <2>2. Held' = Listed(reqs)
    BY <1>1, NoJobComplete DEF Settled, Kept, Deciding
  <2>3. business'.verified => business'.current
    BY <1>3 DEF Settled, Shown
  <2>4. CASE reqs' = reqs /\ listings' = listings
    BY <1>2, <2>1, <2>2, <2>3, <2>4 DEF Settled, Shown, Kept, Deciding
  <2>5. CASE gate # "business_identity" /\ RevokePlatformOwner(gate)
    <3>1. gate \in PlatformGates
      BY <2>5 DEF Gates
    <3>2. /\ \A q \in Reqs : /\ reqs'[q].status = "pending" <=> reqs[q].status = "pending"
                             /\ reqs'[q].media = reqs[q].media
                             /\ reqs'[q].subject_type = reqs[q].subject_type
          /\ ~PlatformOwnerVerified(reqs')
          /\ \A l \in Listings : listings'[l] # "verified"
      BY <2>5, <3>1, RevokeLeaves
    <3>3. Listed(reqs') = Listed(reqs) /\ OneDecision(reqs') /\ NamedOnce(reqs')
      BY <3>2, SameListed DEF Settled
    <3>4. Shown(reqs', listings', business')
      BY <2>3, <3>2 DEF Shown
    <3> QED
      BY <1>2, <2>1, <2>2, <3>3, <3>4 DEF Settled, Kept, Deciding
  <2> QED
    BY <1>1, <2>4, <2>5
<1> QED
  BY <1>2, <1>4, Arrived

LEMMA CommitEditOrdered ==
    ASSUME IInv, Ordered, NEW h \in Handlers, CommitEdit(h) PROVE Ordered'
<1> DEFINE gate == jobs[h].gate
<1>1. /\ jobs[h].at = "renaming" /\ GoOn(h, NoJob)
      /\ listings' = listings /\ Held' = Held
  BY DEF CommitEdit, Held
<1>2. \A q \in Reqs : /\ reqs'[q].status = reqs[q].status /\ reqs'[q].media = reqs[q].media
                      /\ reqs'[q].subject_type = reqs[q].subject_type
  BY RestSame DEF CommitEdit, Req
<1> DEFINE current == business.current /\ gate # "business_identity"
<1>3. business' = [business EXCEPT !.current = current]
  BY RestSame DEF CommitEdit
<1>4. business'.verified = business.verified /\ business'.current = current
  BY <1>3, RestSame
<1> HIDE DEF gate
<1>5. Finds(jobs[h], NoJob)
  <2> SUFFICES ASSUME Settled(jobs[h], reqs, listings, business, Held)
               PROVE  Settled(NoJob, reqs', listings', business', Held')
    BY DEF Finds
  <2>1. gate = "business_identity" => ~business.verified
    BY <1>1 DEF Settled, Read, gate
  <2>2. business'.verified => business'.current
    BY <1>4, <2>1 DEF Settled, Shown
  <2>3. PlatformOwnerVerified(reqs') <=> PlatformOwnerVerified(reqs)
    BY <1>2, SameVerified
  <2>4. Shown(reqs', listings', business')
    BY <1>1, <2>2, <2>3 DEF Settled, Shown
  <2>5. Listed(reqs') = Listed(reqs) /\ OneDecision(reqs') /\ NamedOnce(reqs')
    BY <1>2, SameListed DEF Settled
  <2>6. Held' = Listed(reqs')
    BY <1>1, <2>5 DEF Settled, Kept, Deciding
  <2> QED
    BY <2>4, <2>5, <2>6, NoJobComplete, Ended
<1> QED
  BY <1>1, <1>5, WentOn

LEMMA ListingOrdered ==
    ASSUME IInv, Ordered, NEW h \in Handlers,
           InsertPlatform(h) \/ \E l \in Listings : RemovePlatform(h, l)
    PROVE  Ordered'
<1>1. reqs' = reqs /\ business' = business /\ Held' = Held
  BY DEF InsertPlatform, RemovePlatform, Held
<1>2. CASE InsertPlatform(h)
  <2>1. PICK l \in Listings :
           listings' = [listings EXCEPT ![l] = IF jobs[h].verified THEN "verified" ELSE "unverified"]
    BY <1>2 DEF InsertPlatform
  <2>2. /\ listings'[l] = IF jobs[h].verified THEN "verified" ELSE "unverified"
        /\ \A k \in Listings : k # l => listings'[k] = listings[k]
    BY <2>1, RestSame
  <2>3. jobs[h].at = "listing" /\ GoOn(h, NoJob)
    BY <1>2 DEF InsertPlatform
  <2>4. Finds(jobs[h], NoJob)
    <3> SUFFICES ASSUME Settled(jobs[h], reqs, listings, business, Held)
                 PROVE  Settled(NoJob, reqs, listings', business, Held)
      BY <1>1 DEF Finds
    <3>1. jobs[h].verified <=> PlatformOwnerVerified(reqs)
      BY <2>3 DEF Settled, Read
    <3>2. Shown(reqs, listings', business)
      BY <2>2, <3>1 DEF Settled, Shown
    <3>3. Held = Listed(reqs)
      BY <2>3 DEF Settled, Kept, Deciding
    <3> QED
      BY <3>2, <3>3, NoJobComplete, Ended DEF Settled
  <2> QED
    BY <2>3, <2>4, WentOn
<1>3. CASE \E l \in Listings : RemovePlatform(h, l)
  <2>1. PICK l \in Listings : listings' = [listings EXCEPT ![l] = "absent"] /\ Arrive(h, NoJob)
    BY <1>3 DEF RemovePlatform
  <2>2. \A k \in Listings : listings'[k] \in {listings[k], "absent"}
    BY <2>1, RestSame
  <2>3. Finds(NoJob, NoJob)
    BY <1>1, <2>2 DEF Finds, Settled, Shown
  <2> QED
    BY <2>1, <2>3, Arrived
<1> QED
  BY <1>2, <1>3

LEMMA DieOrdered ==
    ASSUME NEW h \in Handlers, Die(h) PROVE Ordered'
  BY DEF Die, Ordered

-----------------------------------------------------------------------------
LEMMA NextOrdered == IInv /\ Ordered /\ [Next]_vars => Ordered'
<1> SUFFICES ASSUME IInv, Ordered, [Next]_vars PROVE Ordered'
  OBVIOUS
<1>1. CASE Next
  BY <1>1, SubmitOrdered, InsertRequestOrdered, UploadOrdered, SaveOrdered, AttachOrdered,
     DecideOrdered, ApprovalOrdered, RejectionOrdered, EditOrdered, CommitEditOrdered,
     CreateOrdered, ListingOrdered, DieOrdered DEF Next, Resume, Deciding
<1>2. CASE UNCHANGED vars
  BY <1>2 DEF vars, badgeVars, Ordered, OneJob, Held
<1> QED
  BY <1>1, <1>2

\* Types hold whatever overlaps or dies; while calls come one after the other,
\* requests, listings and store are in the order the call under way leaves
\* them in.
THEOREM BadgeInvariance == Spec => [](IInv /\ Ordered)
<1>1. Init => IInv /\ Ordered
  BY InitTyped, InitOrdered
<1>2. IInv /\ Ordered /\ [Next]_vars => (IInv /\ Ordered)'
  BY NextTyped, NextOrdered
<1> QED
  BY <1>1, <1>2, PTL DEF Spec

\* Every reachable state is well typed.
THEOREM BadgeTypes == Spec => []TypeOK
<1>1. IInv => TypeOK
  BY DEF IInv
<1> QED
  BY <1>1, BadgeInvariance, PTL

LEMMA RestsInOrder ==
    ASSUME Ordered, calm, Idle
    PROVE  /\ OneDecision(reqs) /\ Shown(reqs, listings, business) /\ Held = Listed(reqs)
<1>1. \A h \in Handlers : jobs[h].at = "idle"
  BY NoJobComplete DEF Idle
<1>2. Settled(NoJob, reqs, listings, business, Held)
  BY <1>1 DEF Ordered
<1> QED
  BY <1>2, NoJobComplete DEF Settled, Kept, Deciding

\* One call after the other, every listing shows the badge its owner's decided
\* requests compute, and a business that shows one shows the company that was
\* judged, for any number of requests and listings.
THEOREM BadgeFollowsGates == Spec => []BadgeMatchesGates
<1>1. IInv /\ Ordered => BadgeMatchesGates
  BY RestsInOrder DEF BadgeMatchesGates, Shown
<1> QED
  BY <1>1, BadgeInvariance, PTL

\* One call after the other, the store holds the files of the requests that
\* wait for a decision and no other but those it would not delete, and each
\* gate waits for one decision at most.
THEOREM EvidenceIsWiped == Spec => []EvidenceOnlyWhilePending
<1>1. IInv /\ Ordered => EvidenceOnlyWhilePending
  BY RestsInOrder DEF EvidenceOnlyWhilePending, OneDecision, Listed, Waiting, Held
<1> QED
  BY <1>1, BadgeInvariance, PTL
=============================================================================

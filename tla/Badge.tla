------------------------------- MODULE Badge -------------------------------
(***************************************************************************)
(* The Verified badge: the requests for it, the evidence uploaded with     *)
(* them, the reviewer's decision, and the edits that take it away.         *)
(*                                                                         *)
(* A platform owner passes two gates, identity and ownership, and the      *)
(* badge is kept in two places: the decided requests, from which           *)
(* platform_owner_verified computes it, and a flag on each listing, which  *)
(* the public sees.  A business passes one gate.                           *)
(*                                                                         *)
(* What a gate is judged against (the listings' names, the owner's name,   *)
(* the company's name) appears only as whether it is still the one the     *)
(* reviewer judged.  A handler is split where it has read what it later    *)
(* commits, and at its commits and uploads.                                *)
(***************************************************************************)
EXTENDS Integers, FiniteSets

CONSTANTS
    MaxReqs,        \* bound on the account_verification_requests rows
    Listings,       \* ids of the owner's listings
    Files,          \* evidence files
    Handlers,       \* requests handled at a time
    None,
    MaxCalls,       \* bound on the calls made
    MaxDeaths       \* bound on the handlers that die half way

VARIABLES
    reqs,           \* the account_verification_requests rows
    listings,       \* listing -> no row, or its verified flag
    business,       \* the businesses row: its badge, and whether its company is the judged one
    stored,         \* evidence files in the object store
    undeleted,      \* (history) those of them that were to be deleted, and could not be
    jobs,           \* handler -> what is left of it
    calls, deaths,  \* calls made and handlers died so far
    calm            \* (history) no two handlers overlapped and none died

badgeVars == <<reqs, listings, business, stored, undeleted>>
vars == <<badgeVars, jobs, calls, deaths, calm>>

ASSUME BadgeAssumption ==
    /\ MaxReqs \in Nat /\ MaxCalls \in Nat /\ MaxDeaths \in Nat
    /\ None \notin Listings \cup Files \cup (1..MaxReqs)

PlatformGates == {"platform_identity", "platform_ownership"}
Gates == PlatformGates \cup {"business_identity"}
Reqs == 1..MaxReqs

Req == [status: {"absent", "pending", "approved", "rejected", "revoked"},
        subject_type: Gates, media: SUBSET Files, current: BOOLEAN]
Job == [at: {"idle", "submitting", "uploading", "attaching", "approving", "rejecting",
             "renaming", "listing"},
        req: {None} \cup Reqs, gate: Gates, listing: {None} \cup Listings,
        file: {None} \cup Files, media: SUBSET Files, verified: BOOLEAN]

TypeOK ==
    /\ reqs \in [Reqs -> Req]
    /\ listings \in [Listings -> {"absent", "verified", "unverified"}]
    /\ business \in [verified: BOOLEAN, current: BOOLEAN]
    /\ stored \subseteq Files /\ undeleted \subseteq stored
    /\ jobs \in [Handlers -> Job]
    /\ calls \in 0..MaxCalls /\ deaths \in 0..MaxDeaths /\ calm \in BOOLEAN

NoReq == [status |-> "absent", subject_type |-> "business_identity", media |-> {},
          current |-> TRUE]
NoJob == [at |-> "idle", req |-> None, gate |-> "business_identity", listing |-> None,
          file |-> None, media |-> {}, verified |-> FALSE]

(***************************************************************************)
(* A call arrives, goes on, or ends.                                       *)
(***************************************************************************)
Arrive(h, job) ==
    /\ jobs[h] = NoJob /\ calls < MaxCalls
    /\ calls' = calls + 1
    /\ jobs' = [jobs EXCEPT ![h] = job]
    /\ calm' = (calm /\ \A other \in Handlers \ {h} : jobs[other] = NoJob)
    /\ UNCHANGED deaths

GoOn(h, job) ==
    /\ jobs' = [jobs EXCEPT ![h] = job]
    /\ UNCHANGED <<calls, deaths, calm>>

(***************************************************************************)
(* Asking for the badge.  Stripe's own check has passed.                   *)
(***************************************************************************)
Pending(gate) == {q \in Reqs : reqs[q].status = "pending" /\ reqs[q].subject_type = gate}
Unused == {q \in Reqs : reqs[q].status = "absent"}

Submit(h, gate) ==
    /\ Pending(gate) = {}
    /\ Arrive(h, [NoJob EXCEPT !.at = "submitting", !.gate = gate])
    /\ UNCHANGED badgeVars

InsertRequest(h) ==
    /\ jobs[h].at = "submitting"
    /\ \E q \in Unused :
          /\ \A before \in Reqs : before < q => before \notin Unused
          /\ reqs' = [reqs EXCEPT ![q] = [NoReq EXCEPT !.status = "pending",
                                                       !.subject_type = jobs[h].gate]]
    /\ GoOn(h, NoJob)
    /\ UNCHANGED <<listings, business, stored, undeleted>>

\* An upload may take as long as two gigabytes take.
UploadEvidence(h, q) ==
    /\ reqs[q].status = "pending" /\ reqs[q].subject_type # "platform_identity"
    /\ Arrive(h, [NoJob EXCEPT !.at = "uploading", !.req = q, !.media = reqs[q].media])
    /\ UNCHANGED badgeVars

SaveUpload(h) ==
    /\ jobs[h].at = "uploading"
    /\ \E f \in Files \ stored :
          /\ \A q \in Reqs : f \notin reqs[q].media      \* file names are not used twice
          /\ stored' = stored \cup {f}
          /\ GoOn(h, [jobs[h] EXCEPT !.at = "attaching", !.file = f])
    /\ UNCHANGED <<reqs, listings, business, undeleted>>

AttachEvidence(h) ==
    /\ jobs[h].at = "attaching"
    /\ reqs' = [reqs EXCEPT ![jobs[h].req].media = jobs[h].media \cup {jobs[h].file}]
    /\ GoOn(h, NoJob)
    /\ UNCHANGED <<listings, business, stored, undeleted>>

(***************************************************************************)
(* The decision.  It deletes the evidence and looks at the other gate,     *)
(* then commits the status with the badge.                                 *)
(***************************************************************************)
Approved(rows) == {rows[q].subject_type : q \in {p \in Reqs : rows[p].status = "approved"}}
PlatformOwnerVerified(rows) == PlatformGates \subseteq Approved(rows)

FullyVerified(q) ==
    /\ reqs[q].subject_type \in PlatformGates
    /\ PlatformOwnerVerified([reqs EXCEPT ![q].status = "approved"])

\* Mutant of Wipe: the store keeps the files.
WipeRow(q) == UNCHANGED <<stored, undeleted>>

\* Best effort: the decision goes on, and forgets a file the store would not delete.
Wipe(q) ==
    \E refused \in SUBSET (stored \cap reqs[q].media) :
        /\ stored' = (stored \ reqs[q].media) \cup refused
        /\ undeleted' = (undeleted \ reqs[q].media) \cup refused

Decide(h, q, at) ==
    /\ reqs[q].status = "pending"
    /\ Wipe(q)
    /\ Arrive(h, [NoJob EXCEPT !.at = at, !.req = q, !.media = reqs[q].media,
                              !.verified = FullyVerified(q)])
    /\ UNCHANGED <<reqs, listings, business>>

\* The column is written only if the list read was not empty already.
Wiped(h) == IF jobs[h].media = {} THEN reqs[jobs[h].req].media ELSE {}

CommitApproval(h) ==
    LET q == jobs[h].req
    IN  /\ jobs[h].at = "approving"
        /\ reqs' = [reqs EXCEPT ![q].status = "approved", ![q].media = Wiped(h),
                                ![q].current = TRUE]
        /\ listings' = [l \in Listings |->
               IF jobs[h].verified /\ listings[l] # "absent" THEN "verified" ELSE listings[l]]
        /\ business' = IF reqs[q].subject_type = "business_identity"
                       THEN [verified |-> TRUE, current |-> TRUE] ELSE business
        /\ GoOn(h, NoJob)
        /\ UNCHANGED <<stored, undeleted>>

CommitRejection(h) ==
    /\ jobs[h].at = "rejecting"
    /\ reqs' = [reqs EXCEPT ![jobs[h].req].status = "rejected",
                            ![jobs[h].req].media = Wiped(h)]
    /\ GoOn(h, NoJob)
    /\ UNCHANGED <<listings, business, stored, undeleted>>

(***************************************************************************)
(* Edits of what a gate was judged against.  Taking the badge away commits *)
(* before the edit does.                                                   *)
(***************************************************************************)
Unverify == [l \in Listings |-> IF listings[l] = "verified" THEN "unverified" ELSE listings[l]]

\* Mutant of RevokePlatformOwner: it takes the listings' badge only.
RevokeListings(gate) == listings' = Unverify /\ UNCHANGED reqs

RevokePlatformOwner(gate) ==
    /\ reqs' = [q \in Reqs |->
           IF reqs[q].subject_type = gate /\ reqs[q].status = "approved"
           THEN [reqs[q] EXCEPT !.status = "revoked"] ELSE reqs[q]]
    /\ listings' = Unverify

UpdatePlatform(h, l) ==
    /\ listings[l] # "absent"
    /\ IF listings[l] = "verified"
       THEN RevokePlatformOwner("platform_ownership") ELSE UNCHANGED <<reqs, listings>>
    /\ Arrive(h, [NoJob EXCEPT !.at = "renaming", !.gate = "platform_ownership"])
    /\ UNCHANGED <<business, stored, undeleted>>

UpdateProfile(h) ==
    /\ IF \E l \in Listings : listings[l] = "verified"
       THEN RevokePlatformOwner("platform_identity") ELSE UNCHANGED <<reqs, listings>>
    /\ Arrive(h, [NoJob EXCEPT !.at = "renaming", !.gate = "platform_identity"])
    /\ UNCHANGED <<business, stored, undeleted>>

UpsertBusiness(h) ==
    /\ business' = [business EXCEPT !.verified = FALSE]
    /\ Arrive(h, [NoJob EXCEPT !.at = "renaming", !.gate = "business_identity"])
    /\ UNCHANGED <<reqs, listings, stored, undeleted>>

\* What was approved of the gate is no longer what the site shows.
CommitEdit(h) ==
    LET gate == jobs[h].gate
    IN  /\ jobs[h].at = "renaming"
        /\ reqs' = [q \in Reqs |->
               IF reqs[q].subject_type = gate /\ reqs[q].status = "approved"
               THEN [reqs[q] EXCEPT !.current = FALSE] ELSE reqs[q]]
        /\ business' = [business EXCEPT !.current = @ /\ gate # "business_identity"]
        /\ GoOn(h, NoJob)
        /\ UNCHANGED <<listings, stored, undeleted>>

(***************************************************************************)
(* A new listing takes the badge its owner has; a listing may go.          *)
(***************************************************************************)
CreatePlatform(h) ==
    /\ Arrive(h, [NoJob EXCEPT !.at = "listing", !.verified = PlatformOwnerVerified(reqs)])
    /\ UNCHANGED badgeVars

InsertPlatform(h) ==
    /\ jobs[h].at = "listing"
    /\ \E l \in Listings :
          /\ listings[l] = "absent"
          /\ listings' = [listings EXCEPT
                ![l] = IF jobs[h].verified THEN "verified" ELSE "unverified"]
    /\ GoOn(h, NoJob)
    /\ UNCHANGED <<reqs, business, stored, undeleted>>

RemovePlatform(h, l) ==
    /\ listings[l] # "absent"
    /\ listings' = [listings EXCEPT ![l] = "absent"]
    /\ Arrive(h, NoJob)
    /\ UNCHANGED <<reqs, business, stored, undeleted>>

Die(h) ==
    /\ jobs[h] # NoJob /\ deaths < MaxDeaths
    /\ jobs' = [jobs EXCEPT ![h] = NoJob]
    /\ deaths' = deaths + 1 /\ calm' = FALSE
    /\ UNCHANGED <<badgeVars, calls>>

(***************************************************************************)
(* The specification.                                                      *)
(***************************************************************************)
Init ==
    /\ reqs = [q \in Reqs |-> NoReq]
    /\ listings = [l \in Listings |-> "absent"]
    /\ business = [verified |-> FALSE, current |-> TRUE]
    /\ stored = {} /\ undeleted = {}
    /\ jobs = [h \in Handlers |-> NoJob]
    /\ calls = 0 /\ deaths = 0 /\ calm = TRUE

Resume(h) ==
    \/ InsertRequest(h) \/ SaveUpload(h) \/ AttachEvidence(h) \/ CommitApproval(h)
    \/ CommitRejection(h) \/ CommitEdit(h) \/ InsertPlatform(h)

Next == \E h \in Handlers :
    \/ \E gate \in Gates : Submit(h, gate)
    \/ \E q \in Reqs : \/ UploadEvidence(h, q)
                       \/ Decide(h, q, "approving") \/ Decide(h, q, "rejecting")
    \/ \E l \in Listings : UpdatePlatform(h, l) \/ RemovePlatform(h, l)
    \/ UpdateProfile(h) \/ UpsertBusiness(h) \/ CreatePlatform(h)
    \/ Resume(h) \/ Die(h)

Spec == Init /\ [][Next]_vars

(***************************************************************************)
(* What it promises.                                                       *)
(***************************************************************************)
Idle == \A h \in Handlers : jobs[h] = NoJob

\* One call after the other, the badge the public sees on each listing is the
\* one the owner's decided requests compute, and a business that shows one
\* shows the company a reviewer judged: the two sources of truth move together.
\* (decide_verification, revoke_platform_owner_verification, create_platform,
\* upsert_business, revoke_business_verification)
BadgeMatchesGates ==
    calm /\ Idle =>
        /\ \A l \in Listings : listings[l] # "absent" =>
               (listings[l] = "verified" <=> PlatformOwnerVerified(reqs))
        /\ business.verified => business.current

\* One call after the other, a gate waits for one decision at a time, and but
\* for what the store would not delete, the files in the store are exactly those
\* some waiting request lists: nothing a reviewer decided on is retained, and
\* nothing is stored that no decision will delete.  (submit_*,
\* upload_*_evidence, _wipe_evidence)
EvidenceOnlyWhilePending ==
    calm /\ Idle =>
        /\ \A p, q \in Reqs : p # q /\ reqs[p].status = "pending" /\ reqs[q].status = "pending"
               => reqs[p].subject_type # reqs[q].subject_type
        /\ stored \ undeleted =
               UNION {reqs[q].media : q \in {p \in Reqs : reqs[p].status = "pending"}}
=============================================================================

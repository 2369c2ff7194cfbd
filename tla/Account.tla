------------------------------ MODULE Account ------------------------------
(***************************************************************************)
(* The identities one person keeps under one mailbox: signing up (with a   *)
(* password or with Google), signing in and switching between the two      *)
(* linked identities, pausing and deleting the account, what a             *)
(* Super-Admin does to it and to its listings, and the sweep that ends     *)
(* timed suspensions.                                                      *)
(*                                                                         *)
(* A handler commits more than once: a request's steps here are the        *)
(* stretches between two commits that another request may come between,    *)
(* and a request may die between them.  Listings and campaigns are both    *)
(* "items": the code treats them alike here.                               *)
(***************************************************************************)
EXTENDS Integers, FiniteSets, FiniteSetsExt

CONSTANTS
    MaxUsers,       \* bound on the users rows of the mailbox
    Items,          \* ids of listings and campaigns
    Requests,       \* requests in progress at a time
    None,           \* the null of the database columns
    MaxRequests,    \* bound on the requests made
    MaxDeaths       \* bound on the requests and sweeps that die half way

VARIABLES
    users,          \* the users rows by id
    items,          \* the platforms and campaigns rows
    sessions,       \* identities holding a session row
    links,          \* identities with an unused verification link
    google,         \* the row holding the person's google_sub
    pending,        \* a google_pending_signups row waits
    blocked,        \* the mailbox is in banned_emails
    traced,         \* deleted rows whose address the audit log holds
    jobs,           \* request -> what is left of its handler
    sweep,          \* the sweep in progress: what it queried and has yet to clear
    requests,       \* requests made so far
    deaths,         \* handlers that died half way so far
    calm            \* (history) no two requests overlapped and none died

accountVars == <<users, items, sessions, links, google, pending, blocked, traced>>
vars == <<accountVars, jobs, sweep, requests, deaths, calm>>

ASSUME AccountAssumption ==
    /\ MaxUsers \in Nat /\ MaxRequests \in Nat /\ MaxDeaths \in Nat
    /\ None \notin 1..MaxUsers
    /\ Items \cap (1..MaxUsers) = {}

Users == 1..MaxUsers
Roles == {"business", "owner"}
Timed == {"timed", "elapsed"}

User == [state: {"absent", "live", "deleted"}, role: Roles, verified: BOOLEAN,
         suspended: {"no", "indefinite"} \cup Timed, banned: BOOLEAN,
         deactivated: BOOLEAN, linked: {None} \cup Users]
Item == [state: {"absent", "live", "archived"}, owner: {None} \cup Users,
         held: {"no", "owner", "indefinite"} \cup Timed]
Job == [at: {"idle", "signing", "completing", "mailing", "issue", "linking",
             "deactivating", "deleting", "deleted", "suspending", "banning", "banned",
             "banningLinked", "blocking", "unbanning", "unblocking", "creating"},
        user: {None} \cup Users, other: {None} \cup Users, roles: SUBSET Roles]
Sweep == [at: {"idle", "users", "items"}, due: SUBSET (Users \cup Items)]

TypeOK ==
    /\ users \in [Users -> User]
    /\ items \in [Items -> Item]
    /\ sessions \subseteq Users /\ links \subseteq Users /\ traced \subseteq Users
    /\ google \in {None} \cup Users
    /\ pending \in BOOLEAN /\ blocked \in BOOLEAN /\ calm \in BOOLEAN
    /\ jobs \in [Requests -> Job]
    /\ sweep \in Sweep
    /\ requests \in 0..MaxRequests /\ deaths \in 0..MaxDeaths

NoUser == [state |-> "absent", role |-> "business", verified |-> FALSE, suspended |-> "no",
           banned |-> FALSE, deactivated |-> FALSE, linked |-> None]
NoItem == [state |-> "absent", owner |-> None, held |-> "no"]
NoJob == [at |-> "idle", user |-> None, other |-> None, roles |-> {}]
AJob(at, u) == [NoJob EXCEPT !.at = at, !.user = u]

(***************************************************************************)
(* What the handlers read.                                                 *)
(***************************************************************************)
Exists(u) == u \in Users /\ users[u].state # "absent"
Live(u) == u \in Users /\ users[u].state = "live"
\* A deleted row's address is a placeholder: only live rows answer to the mailbox.
FindByEmail == LET found == {u \in Users : Live(u)}
               IN IF found = {} THEN None ELSE Min(found)
AssertActive(rows, u) ==
    /\ rows[u].state = "live"
    /\ ~rows[u].banned /\ rows[u].suspended = "no"
    /\ ~rows[u].deactivated /\ rows[u].verified
CurrentUser(u) == u \in sessions /\ AssertActive(users, u)
Linked(u) == IF u \in Users THEN users[u].linked ELSE None

(***************************************************************************)
(* A request arrives, goes on past a commit, or ends.                      *)
(***************************************************************************)
Arrive(r, job) ==
    /\ jobs[r] = NoJob /\ requests < MaxRequests
    /\ requests' = requests + 1
    /\ jobs' = [jobs EXCEPT ![r] = job]
    /\ calm' = (calm /\ \A other \in Requests \ {r} : jobs[other] = NoJob)
    /\ UNCHANGED <<sweep, deaths>>

GoOn(r, job) ==
    /\ jobs' = [jobs EXCEPT ![r] = job]
    /\ UNCHANGED <<sweep, requests, deaths, calm>>

(***************************************************************************)
(* Signing up.  Both roles make two linked rows, the business's first.     *)
(* Two partial unique indexes keep one live row of a role per address; a   *)
(* signup they refuse is rolled back.                                      *)
(***************************************************************************)
Fresh == {u \in Users : ~Exists(u)}
RolesTaken == {users[u].role : u \in {v \in Users : Live(v)}}

Signup(r, roles) ==
    /\ ~blocked /\ FindByEmail = None
    /\ Arrive(r, [AJob("signing", None) EXCEPT !.roles = roles])
    /\ UNCHANGED accountVars

CreateRows(first, second, roles, verified) ==
    users' = [u \in Users |->
        IF u = first
        THEN [NoUser EXCEPT !.state = "live", !.verified = verified,
                            !.role = IF "business" \in roles THEN "business" ELSE "owner",
                            !.linked = IF roles = Roles THEN second ELSE None]
        ELSE IF u = second /\ roles = Roles
        THEN [NoUser EXCEPT !.state = "live", !.verified = verified,
                            !.role = "owner", !.linked = first]
        ELSE users[u]]

Insert(r) ==
    LET job == jobs[r]
        signing == job.at = "signing"
        first == Min(Fresh)
    IN  /\ job.at \in {"signing", "completing"}
        /\ Cardinality(Fresh) >= Cardinality(job.roles)
        /\ IF RolesTaken \cap job.roles # {} \/ (~signing /\ google # None)
           THEN GoOn(r, NoJob) /\ UNCHANGED <<users, google, pending>>
           ELSE /\ CreateRows(first, first + 1, job.roles, ~signing)
                /\ google' = IF signing THEN google ELSE first
                /\ pending' = (pending /\ signing)
                /\ GoOn(r, AJob(IF signing THEN "mailing" ELSE "issue", first))
        /\ UNCHANGED <<items, sessions, links, blocked, traced>>

\* signup() commits the link of its mail after the rows.
MailLink(r) ==
    /\ jobs[r].at = "mailing"
    /\ links' = links \cup {jobs[r].user}
    /\ GoOn(r, NoJob)
    /\ UNCHANGED <<users, items, sessions, google, pending, blocked, traced>>

ResendVerification(r) ==
    /\ FindByEmail # None /\ ~users[FindByEmail].verified
    /\ links' = links \cup {FindByEmail}
    /\ Arrive(r, NoJob)
    /\ UNCHANGED <<users, items, sessions, google, pending, blocked, traced>>

(***************************************************************************)
(* Signing in.  The session is inserted after the account was judged.      *)
(***************************************************************************)

\* Mutant of ShowItems: a return that shows nothing.
ShowNothing(returning) == UNCHANGED items

\* The "Account deactivated by owner" marks on the items, taken off and put on.
ShowItems(returning) ==
    items' = [i \in Items |-> IF items[i].owner \in returning /\ items[i].held = "owner"
                              THEN [items[i] EXCEPT !.held = "no"] ELSE items[i]]
HideItems(u) ==
    items' = [i \in Items |-> IF items[i].owner = u /\ items[i].held = "no"
                              THEN [items[i] EXCEPT !.held = "owner"] ELSE items[i]]

\* Mutant of ReactivateCascade: only the identity that signs in comes back.
ReactivateAlone(u) == {u}

\* The account and its linked identity, whichever of the two are paused.
ReactivateCascade(u) == {v \in {u, Linked(u)} \cap Users : users[v].deactivated}

Login(r) ==
    LET u == FindByEmail
        returning == IF users[u].deactivated THEN ReactivateCascade(u) ELSE {}
    IN  /\ u # None
        /\ users' = [v \in Users |-> IF v \in returning
                                     THEN [users[v] EXCEPT !.deactivated = FALSE] ELSE users[v]]
        /\ ShowItems(returning)
        /\ Arrive(r, IF AssertActive(users', u) THEN AJob("issue", u) ELSE NoJob)
        /\ UNCHANGED <<sessions, links, google, pending, blocked, traced>>

\* The row is looked up by google_sub first, which a deleted row keeps.
GoogleRow == IF google # None THEN google ELSE FindByEmail

GoogleCallback(r) ==
    LET u == GoogleRow
        returning == IF users[u].deactivated THEN ReactivateCascade(u) ELSE {}
    IN  /\ u # None
        /\ google' = u
        /\ users' = [v \in Users |->
               [users[v] EXCEPT !.deactivated = @ /\ v \notin returning,
                                !.verified = @ \/ v = u]]
        /\ ShowItems(returning)
        /\ Arrive(r, IF AssertActive(users', u) THEN AJob("issue", u) ELSE NoJob)
        /\ UNCHANGED <<sessions, links, pending, blocked, traced>>

GoogleNewcomer(r) ==
    /\ GoogleRow = None
    /\ pending' = (pending \/ ~blocked)
    /\ Arrive(r, NoJob)
    /\ UNCHANGED <<users, items, sessions, links, google, blocked, traced>>

\* Mutant of CompleteGoogleSignup: it does not look for an account made while it was pending.
CompleteUnchecked(r, roles) ==
    /\ pending
    /\ IF blocked
       THEN pending' = FALSE /\ Arrive(r, NoJob)
       ELSE /\ Arrive(r, [AJob("completing", None) EXCEPT !.roles = roles])
            /\ UNCHANGED pending
    /\ UNCHANGED <<users, items, sessions, links, google, blocked, traced>>

CompleteGoogleSignup(r, roles) ==
    /\ pending
    /\ IF blocked \/ FindByEmail # None
       THEN pending' = FALSE /\ Arrive(r, NoJob)
       ELSE /\ Arrive(r, [AJob("completing", None) EXCEPT !.roles = roles])
            /\ UNCHANGED pending
    /\ UNCHANGED <<users, items, sessions, links, google, blocked, traced>>

VerifyEmail(r, u) ==
    /\ u \in links
    /\ links' = links \ {u}
    /\ users' = [v \in Users |->
           IF v \in {u, Linked(u)} /\ ~users[u].verified
           THEN [users[v] EXCEPT !.verified = TRUE] ELSE users[v]]
    /\ Arrive(r, IF AssertActive(users', u) THEN AJob("issue", u) ELSE NoJob)
    /\ UNCHANGED <<items, sessions, google, pending, blocked, traced>>

\* The caller's own session, if this request replaces one, is retired first.
IssueSession(r) ==
    /\ jobs[r].at = "issue"
    /\ sessions' = (sessions \ {jobs[r].other}) \cup {jobs[r].user}
    /\ GoOn(r, NoJob)
    /\ UNCHANGED <<users, items, links, google, pending, blocked, traced>>

SwitchAccount(r, u) ==
    /\ CurrentUser(u)
    /\ Linked(u) # None /\ AssertActive(users, Linked(u))
    /\ Arrive(r, [AJob("issue", Linked(u)) EXCEPT !.other = u])
    /\ UNCHANGED accountVars

LinkProfile(r, u) ==
    /\ CurrentUser(u) /\ Linked(u) = None
    /\ Arrive(r, AJob("linking", u))
    /\ UNCHANGED accountVars

\* The second identity inherits the verification read with the first.
InsertLinked(r) ==
    LET u == jobs[r].user
        role == CHOOSE other \in Roles : other # users[u].role
        second == Min(Fresh)
    IN  /\ jobs[r].at = "linking" /\ Fresh # {}
        /\ IF role \in RolesTaken
           THEN GoOn(r, NoJob) /\ UNCHANGED users
           ELSE /\ users' = [users EXCEPT
                       ![u].linked = second,
                       ![second] = [NoUser EXCEPT !.state = "live", !.role = role,
                                                  !.verified = TRUE, !.linked = u]]
                /\ GoOn(r, [AJob("issue", second) EXCEPT !.other = u])
        /\ UNCHANGED <<items, sessions, links, google, pending, blocked, traced>>

\* Other browsers may keep the identity signed in.
Logout(r, u) ==
    /\ u \in sessions
    /\ sessions' \in {sessions, sessions \ {u}}
    /\ Arrive(r, NoJob)
    /\ UNCHANGED <<users, items, links, google, pending, blocked, traced>>

ResetPassword(r) ==
    /\ FindByEmail # None
    /\ sessions' = sessions \ {FindByEmail, Linked(FindByEmail)}
    /\ Arrive(r, NoJob)
    /\ UNCHANGED <<users, items, links, google, pending, blocked, traced>>

(***************************************************************************)
(* Pausing and deleting the account, each identity in a commit of its own. *)
(***************************************************************************)

\* Mutant of DeactivateUser: the identity stays signed in.
DeactivateSignedIn(u) ==
    /\ users' = [users EXCEPT ![u].deactivated = TRUE]
    /\ HideItems(u)
    /\ UNCHANGED <<sessions, links, google, pending, blocked, traced>>

DeactivateUser(u) ==
    /\ users' = [users EXCEPT ![u].deactivated = TRUE]
    /\ sessions' = sessions \ {u}
    /\ HideItems(u)
    /\ UNCHANGED <<links, google, pending, blocked, traced>>

Deactivate(r, u) ==
    /\ CurrentUser(u)
    /\ DeactivateUser(u)
    /\ Arrive(r, AJob("deactivating", u))

DeactivateLinked(r) ==
    LET v == Linked(jobs[r].user)
    IN  /\ jobs[r].at = "deactivating"
        /\ IF v # None /\ ~users[v].deactivated
           THEN DeactivateUser(v) ELSE UNCHANGED accountVars
        /\ GoOn(r, NoJob)

\* What was built on by a deal is archived, the rest deleted.
AnonymizeUser(u) ==
    /\ users' = [users EXCEPT ![u].state = "deleted"]
    /\ sessions' = sessions \ {u}
    /\ links' = links \ {u}
    /\ \E dealt \in SUBSET {i \in Items : items[i].owner = u /\ items[i].state = "live"} :
          items' = [i \in Items |->
              IF i \in dealt THEN [items[i] EXCEPT !.state = "archived"]
              ELSE IF items[i].owner = u /\ items[i].state = "live" THEN NoItem
              ELSE items[i]]
    /\ UNCHANGED <<google, pending, blocked, traced>>

DeleteMyAccount(r, u) ==
    /\ CurrentUser(u)
    /\ AnonymizeUser(u)
    /\ Arrive(r, AJob("deleting", u))

DeleteUser(r, u) ==
    /\ Live(u)
    /\ AnonymizeUser(u)
    /\ Arrive(r, AJob("deleting", u))

DeleteLinked(r) ==
    LET v == Linked(jobs[r].user)
    IN  /\ jobs[r].at = "deleting"
        /\ IF Live(v)
           THEN /\ AnonymizeUser(v)
                /\ GoOn(r, [jobs[r] EXCEPT !.at = "deleted", !.other = v])
           ELSE /\ UNCHANGED accountVars
                /\ GoOn(r, [jobs[r] EXCEPT !.at = "deleted"])

RecordDeletion(r) ==
    /\ jobs[r].at = "deleted"
    /\ traced' = traced \cup ({jobs[r].user, jobs[r].other} \ {None})
    /\ GoOn(r, NoJob)
    /\ UNCHANGED <<users, items, sessions, links, google, pending, blocked>>

(***************************************************************************)
(* A Super-Admin acts on an identity.  The sessions go in a commit after   *)
(* the mark.  A ban reaches the linked identity known when it began; an    *)
(* unban looks it up after its own commit.                                 *)
(***************************************************************************)
SuspendUser(r, u) ==
    /\ Exists(u)
    /\ \E period \in {"timed", "indefinite"} :
          users' = [users EXCEPT ![u].suspended = period]
    /\ Arrive(r, AJob("suspending", u))
    /\ UNCHANGED <<items, sessions, links, google, pending, blocked, traced>>

RevokeSessions(r) ==
    /\ jobs[r].at = "suspending"
    /\ sessions' = sessions \ {jobs[r].user}
    /\ GoOn(r, NoJob)
    /\ UNCHANGED <<users, items, links, google, pending, blocked, traced>>

UnsuspendUser(r, u) ==
    /\ Exists(u) /\ users[u].suspended # "no"
    /\ users' = [users EXCEPT ![u].suspended = "no"]
    /\ Arrive(r, NoJob)
    /\ UNCHANGED <<items, sessions, links, google, pending, blocked, traced>>

BanUser(r, u) ==
    /\ Exists(u)
    /\ users' = [users EXCEPT ![u].banned = TRUE]
    /\ Arrive(r, [AJob("banning", u) EXCEPT !.other = Linked(u)])
    /\ UNCHANGED <<items, sessions, links, google, pending, blocked, traced>>

RevokeBanned(r) ==
    LET banned == IF jobs[r].at = "banning" THEN jobs[r].user ELSE jobs[r].other
    IN  /\ jobs[r].at \in {"banning", "banningLinked"}
        /\ sessions' = sessions \ {banned}
        /\ GoOn(r, [jobs[r] EXCEPT !.at = IF @ = "banning" THEN "banned" ELSE "blocking"])
        /\ UNCHANGED <<users, items, links, google, pending, blocked, traced>>

BanLinked(r) ==
    LET v == jobs[r].other
    IN  /\ jobs[r].at = "banned"
        /\ IF v # None /\ ~users[v].banned
           THEN /\ users' = [users EXCEPT ![v].banned = TRUE]
                /\ GoOn(r, [jobs[r] EXCEPT !.at = "banningLinked"])
           ELSE GoOn(r, [jobs[r] EXCEPT !.at = "blocking"]) /\ UNCHANGED users
        /\ UNCHANGED <<items, sessions, links, google, pending, blocked, traced>>

\* A deleted row's own address is a placeholder, which blocks nobody.
RecordBannedEmail(r) ==
    /\ jobs[r].at = "blocking"
    /\ blocked' = (blocked \/ Live(jobs[r].user))
    /\ GoOn(r, NoJob)
    /\ UNCHANGED <<users, items, sessions, links, google, pending, traced>>

UnbanUser(r, u) ==
    /\ Exists(u) /\ users[u].banned
    /\ users' = [users EXCEPT ![u].banned = FALSE]
    /\ Arrive(r, AJob("unbanning", u))
    /\ UNCHANGED <<items, sessions, links, google, pending, blocked, traced>>

UnbanLinked(r) ==
    LET v == Linked(jobs[r].user)
    IN  /\ jobs[r].at = "unbanning"
        /\ users' = IF v = None THEN users ELSE [users EXCEPT ![v].banned = FALSE]
        /\ GoOn(r, [jobs[r] EXCEPT !.at = "unblocking"])
        /\ UNCHANGED <<items, sessions, links, google, pending, blocked, traced>>

\* The address of a deleted row is read back from the audit log.
ClearBannedEmail(r) ==
    LET u == jobs[r].user
    IN  /\ jobs[r].at = "unblocking"
        /\ blocked' = (blocked /\ ~Live(u) /\ u \notin traced)
        /\ GoOn(r, NoJob)
        /\ UNCHANGED <<users, items, sessions, links, google, pending, traced>>

(***************************************************************************)
(* Listings and campaigns: published and taken down by their owner, held,  *)
(* restored and removed by a Super-Admin.                                  *)
(***************************************************************************)
CreateItem(r, u) ==
    /\ CurrentUser(u)
    /\ Cardinality({i \in Items : items[i].state = "absent"})
         > Cardinality({o \in Requests : jobs[o].at = "creating"})
    /\ Arrive(r, AJob("creating", u))
    /\ UNCHANGED accountVars

InsertItem(r) ==
    /\ jobs[r].at = "creating"
    /\ \E i \in Items :
          /\ items[i].state = "absent" /\ i \notin sweep.due   \* ids are not used twice
          /\ items' = [items EXCEPT ![i] = [state |-> "live", owner |-> jobs[r].user,
                                            held |-> "no"]]
    /\ GoOn(r, NoJob)
    /\ UNCHANGED <<users, sessions, links, google, pending, blocked, traced>>

RemoveItem(r, i) ==
    /\ items[i].state = "live" /\ CurrentUser(items[i].owner)
    /\ items' \in {[items EXCEPT ![i].state = "archived"], [items EXCEPT ![i] = NoItem]}
    /\ Arrive(r, NoJob)
    /\ UNCHANGED <<users, sessions, links, google, pending, blocked, traced>>

SuspendItem(r, i) ==
    /\ items[i].state # "absent"
    /\ \E period \in {"timed", "indefinite"} : items' = [items EXCEPT ![i].held = period]
    /\ Arrive(r, NoJob)
    /\ UNCHANGED <<users, sessions, links, google, pending, blocked, traced>>

UnsuspendItem(r, i) ==
    /\ items[i].held # "no"
    /\ items' = [items EXCEPT ![i].held = "no"]
    /\ Arrive(r, NoJob)
    /\ UNCHANGED <<users, sessions, links, google, pending, blocked, traced>>

AdminRemoveItem(r, i) ==
    /\ items[i].state # "absent"
    /\ items' = [items EXCEPT ![i] = NoItem]
    /\ Arrive(r, NoJob)
    /\ UNCHANGED <<users, sessions, links, google, pending, blocked, traced>>

(***************************************************************************)
(* Time, and the sweep.  It queries what is due and then clears row by     *)
(* row, one commit each, without looking at a row again; one that is gone  *)
(* makes it fail.                                                          *)
(***************************************************************************)
requestVars == <<sessions, links, google, pending, blocked, traced, jobs, requests, calm>>

Elapse ==
    /\ \/ \E u \in Users : /\ users[u].suspended = "timed"
                           /\ users' = [users EXCEPT ![u].suspended = "elapsed"]
                           /\ UNCHANGED items
       \/ \E i \in Items : /\ items[i].held = "timed"
                           /\ items' = [items EXCEPT ![i].held = "elapsed"]
                           /\ UNCHANGED users
    /\ UNCHANGED <<requestVars, sweep, deaths>>

\* Mutant of DueUsers: the sweep passes over banned accounts.
DueUnbanned == {u \in Users : users[u].suspended = "elapsed" /\ ~users[u].banned}

DueUsers == {u \in Users : users[u].suspended = "elapsed"}
DueItems == {i \in Items : items[i].held = "elapsed"}

QueryDue ==
    /\ sweep.due = {}
    /\ CASE sweep.at = "idle" -> DueUsers \cup DueItems # {} /\
                                 sweep' = [at |-> "users", due |-> DueUsers]
         [] sweep.at = "users" -> sweep' = [at |-> "items", due |-> DueItems]
         [] sweep.at = "items" -> sweep' = [at |-> "idle", due |-> {}]
    /\ UNCHANGED <<users, items, requestVars, deaths>>

ClearSuspension ==
    /\ \E x \in sweep.due :
          \/ /\ sweep.at = "users"
             /\ users' = [users EXCEPT ![x].suspended = "no"]
             /\ sweep' = [sweep EXCEPT !.due = @ \ {x}]
             /\ UNCHANGED items
          \/ /\ sweep.at = "items" /\ items[x].state # "absent"
             /\ items' = [items EXCEPT ![x].held = "no"]
             /\ sweep' = [sweep EXCEPT !.due = @ \ {x}]
             /\ UNCHANGED users
          \/ /\ sweep.at = "items" /\ items[x].state = "absent"
             /\ sweep' = [at |-> "idle", due |-> {}]
             /\ UNCHANGED <<users, items>>
    /\ UNCHANGED <<requestVars, deaths>>

(***************************************************************************)
(* A request, or the sweep, dies between two commits.                      *)
(***************************************************************************)
Die ==
    /\ deaths < MaxDeaths
    /\ deaths' = deaths + 1
    /\ \/ \E r \in Requests : /\ jobs[r] # NoJob
                              /\ jobs' = [jobs EXCEPT ![r] = NoJob]
                              /\ calm' = FALSE
                              /\ UNCHANGED sweep
       \/ /\ sweep.at # "idle"
          /\ sweep' = [at |-> "idle", due |-> {}]
          /\ UNCHANGED <<jobs, calm>>
    /\ UNCHANGED <<accountVars, requests>>

(***************************************************************************)
(* The specification.  It starts with nobody, or with one person's two     *)
(* identities, the business signed in and each with a listing of its own   *)
(* or none.                                                                *)
(***************************************************************************)
Person(u) == [NoUser EXCEPT !.state = "live", !.verified = TRUE, !.linked = 3 - u,
                            !.role = IF u = 1 THEN "business" ELSE "owner"]

Init ==
    /\ \/ /\ users = [u \in Users |-> NoUser]
          /\ items = [i \in Items |-> NoItem]
          /\ sessions = {}
       \/ /\ {1, 2} \subseteq Users
          /\ users = [u \in Users |-> IF u \in {1, 2} THEN Person(u) ELSE NoUser]
          /\ \E owner \in {1, 2} :
                items = [i \in Items |-> [state |-> "live", owner |-> owner, held |-> "no"]]
          /\ sessions = {1}
    /\ links = {} /\ google = None /\ pending = FALSE /\ blocked = FALSE /\ traced = {}
    /\ jobs = [r \in Requests |-> NoJob]
    /\ sweep = [at |-> "idle", due |-> {}]
    /\ requests = 0 /\ deaths = 0 /\ calm = TRUE

Resume(r) ==
    \/ Insert(r) \/ MailLink(r) \/ IssueSession(r) \/ InsertLinked(r)
    \/ DeactivateLinked(r) \/ DeleteLinked(r) \/ RecordDeletion(r)
    \/ RevokeSessions(r) \/ RevokeBanned(r) \/ BanLinked(r) \/ RecordBannedEmail(r)
    \/ UnbanLinked(r) \/ ClearBannedEmail(r) \/ InsertItem(r)

ByVisitor(r) ==
    \/ \E roles \in (SUBSET Roles) \ {{}} : Signup(r, roles) \/ CompleteGoogleSignup(r, roles)
    \/ ResendVerification(r) \/ Login(r) \/ GoogleCallback(r) \/ GoogleNewcomer(r)
    \/ ResetPassword(r)

ByUser(r) == \E u \in Users :
    \/ VerifyEmail(r, u) \/ SwitchAccount(r, u) \/ LinkProfile(r, u) \/ Logout(r, u)
    \/ Deactivate(r, u) \/ DeleteMyAccount(r, u) \/ CreateItem(r, u)

ByAdmin(r) == \E u \in Users :
    \/ DeleteUser(r, u) \/ SuspendUser(r, u) \/ UnsuspendUser(r, u)
    \/ BanUser(r, u) \/ UnbanUser(r, u)

OnItem(r) == \E i \in Items :
    \/ RemoveItem(r, i) \/ SuspendItem(r, i) \/ UnsuspendItem(r, i) \/ AdminRemoveItem(r, i)

Next ==
    \/ \E r \in Requests : Resume(r) \/ ByVisitor(r) \/ ByUser(r) \/ ByAdmin(r) \/ OnItem(r)
    \/ Elapse \/ QueryDue \/ ClearSuspension \/ Die

Spec == Init /\ [][Next]_vars

\* The server finishes the requests it does not drop, time passes, and the
\* sweep runs on a schedule.
FairSpec ==
    /\ Spec
    /\ \A r \in Requests : WF_vars(Resume(r))
    /\ WF_vars(Elapse) /\ WF_vars(QueryDue \/ ClearSuspension)
=============================================================================

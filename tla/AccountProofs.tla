---------------------------- MODULE AccountProofs ----------------------------
(***************************************************************************)
(* What module Account promises of the holds on a listing and of the two   *)
(* identities of a person, for every number of identities, listings,       *)
(* requests and deaths.                                                    *)
(*                                                                         *)
(* A listing hidden by its owner's pause belongs to a row that exists and  *)
(* is paused.  Two facts keep this through the inserts, which write a row  *)
(* anew: rows are numbered in the order they are made, so an insert only   *)
(* writes rows nobody had, and what a request carries from one commit to   *)
(* the next is a row that exists.                                          *)
(*                                                                         *)
(* What holds of the identities only between requests that come one after  *)
(* the other is kept by an invariant that says, for every stage of the one *)
(* request under way, which of its two commits are done and which are not. *)
(***************************************************************************)
EXTENDS AccountProperties, FiniteSetTheorems, WellFoundedInduction, TLAPS

Made(rows, u) == rows[u].state # "absent"

Known(rows, job) ==
    /\ job \in Job
    /\ job.at \notin {"idle", "signing", "completing"} => job.user \in Users /\ Made(rows, job.user)
    /\ job.at \in {"signing", "completing"} => job.roles # {}

PeopleOK ==
    \A u \in Users :
        /\ ~Made(users, u) => ~users[u].deactivated
        /\ users[u].linked # None => Made(users, users[u].linked)
        /\ \A v \in Users : u < v /\ Made(users, v) => Made(users, u)

HoldsOwned ==
    \A i \in Items : items[i].held = "owner" =>
        items[i].owner \in Users /\ users[items[i].owner].deactivated

JobsKnown == \A r \in Requests : Known(users, jobs[r])

IInv == TypeOK /\ PeopleOK /\ HoldsOwned /\ JobsKnown

Good == IInv' /\ AdminHoldSurvives

-----------------------------------------------------------------------------
\* The first row of a set of rows.
LEMMA MinIn ==
    ASSUME NEW S, S \subseteq Users, S # {}
    PROVE  Min(S) \in S /\ \A y \in S : Min(S) <= y
<1>1. S \subseteq Nat
  BY AccountAssumption DEF Users
<1>2. PICK x \in S : \A y \in S : ~(<<y, x>> \in OpToRel(<, Nat))
  BY <1>1, NatLessThanWellFounded, WFMin
<1>3. \A y \in S : x <= y
  <2> TAKE y \in S
  <2>1. x \in Nat /\ y \in Nat
    BY <1>1
  <2>2. ~(y < x)
    <3> SUFFICES ASSUME y < x PROVE <<y, x>> \in OpToRel(<, Nat)
      BY <1>2
    <3> DEFINE pair == <<y, x>>
    <3>1. pair \in Nat \X Nat /\ pair[1] < pair[2]
      BY <2>1
    <3> HIDE DEF pair
    <3>2. pair \in OpToRel(<, Nat)
      BY <3>1 DEF OpToRel
    <3> QED
      BY <3>2 DEF pair
  <2> QED
    BY <2>1, <2>2
<1> QED
  BY <1>3 DEF Min

LEMMA NoJobKnown ==
    ASSUME NEW rows PROVE Known(rows, NoJob) /\ NoUser \in User /\ NoItem \in Item
  BY DEF Known, NoJob, Job, NoUser, User, NoItem, Item, Roles, Timed

LEMMA AJobKnown ==
    ASSUME NEW rows, NEW u \in Users, Made(rows, u),
           NEW at \in {"mailing", "issue", "linking", "deactivating", "deleting",
                       "suspending", "banning", "unbanning", "creating"},
           NEW other \in {None} \cup Users
    PROVE  /\ Known(rows, AJob(at, u))
           /\ Known(rows, [AJob(at, u) EXCEPT !.other = other])
  BY DEF Known, Job, AJob, NoJob

\* The mailbox's first row, when there is one, is a live one.
LEMMA FoundLives ==
    ASSUME FindByEmail # None
    PROVE  FindByEmail \in Users /\ Live(FindByEmail) /\ Made(users, FindByEmail)
<1> DEFINE found == {u \in Users : Live(u)}
<1>1. FindByEmail = IF found = {} THEN None ELSE Min(found)
  BY DEF FindByEmail
<1>2. Min(found) \in found
  BY <1>1, MinIn
<1> QED
  BY <1>1, <1>2 DEF Live, Made

\* The first state.
LEMMA InitGood == Init => IInv
<1> SUFFICES ASSUME Init PROVE IInv
  OBVIOUS
<1>1. users \in [Users -> User] /\ PeopleOK
  <2>1. CASE users = [u \in Users |-> NoUser]
    BY <2>1, NoJobKnown DEF PeopleOK, Made, NoUser
  <2>2. CASE {1, 2} \subseteq Users /\ users = [u \in Users |-> IF u \in {1, 2} THEN Person(u) ELSE NoUser]
    <3>1. \A u \in {1, 2} : /\ Person(u) \in User /\ Person(u).linked \in {1, 2}
                            /\ Person(u).state = "live"
      <4> TAKE u \in {1, 2}
      <4>1. 3 - u \in {1, 2} /\ 3 - u \in {None} \cup Users
        BY <2>2
      <4>2. NoUser \in User
        BY NoJobKnown
      <4> DEFINE role == IF u = 1 THEN "business" ELSE "owner"
      <4>3. role \in Roles
        BY DEF Roles
      <4>4. Person(u) = [NoUser EXCEPT !.state = "live", !.verified = TRUE, !.linked = 3 - u,
                                       !.role = role]
        BY DEF Person
      <4> HIDE DEF role
      <4> QED
        BY <4>1, <4>2, <4>3, <4>4 DEF User
    <3>2. \A u \in Users : u \in {1, 2} \/ 2 < u
      BY AccountAssumption DEF Users
    <3>3. users \in [Users -> User]
      BY <2>2, <3>1, NoJobKnown
    <3>4. \A u \in Users : IF u \in {1, 2}
                            THEN Made(users, u) /\ users[u].linked \in {1, 2}
                            ELSE ~Made(users, u) /\ users[u].linked = None /\ ~users[u].deactivated
      BY <2>2, <3>1 DEF Made, NoUser
    <3>5. \A u, v \in Users : u < v /\ v \in {1, 2} => u \in {1, 2}
      BY AccountAssumption DEF Users
    <3> QED
      BY <2>2, <3>3, <3>4, <3>5 DEF PeopleOK
  <2> QED
    BY <2>1, <2>2 DEF Init
<1>2. items \in [Items -> Item] /\ \A i \in Items : items[i].held = "no"
  BY NoJobKnown DEF Init, NoItem, Item
<1>3. \A r \in Requests : jobs[r] \in Job /\ Known(users, jobs[r])
  BY NoJobKnown DEF Init, Known
<1>4. jobs \in [Requests -> Job]
  BY <1>3 DEF Init
<1>5. sessions \subseteq Users /\ sweep \in Sweep
  BY DEF Init, Sweep
<1>6. requests \in 0..MaxRequests /\ deaths \in 0..MaxDeaths
  BY AccountAssumption DEF Init
<1>7. TypeOK
  BY <1>1, <1>2, <1>4, <1>5, <1>6 DEF Init, TypeOK
<1> QED
  BY <1>1, <1>2, <1>3, <1>7 DEF IInv, HoldsOwned, JobsKnown

-----------------------------------------------------------------------------
\* What the requests carry stays known, and the rest keeps its types.
Grow == \A u \in Users : Made(users, u) => Made(users', u)

KeepsJobs ==
    /\ jobs' \in [Requests -> Job] /\ \A r \in Requests : Known(users', jobs'[r])
    /\ requests' \in 0..MaxRequests /\ deaths' \in 0..MaxDeaths /\ calm' \in BOOLEAN
    /\ sweep' \in Sweep

RestTyped ==
    /\ sessions' \subseteq Users /\ links' \subseteq Users /\ traced' \subseteq Users
    /\ google' \in {None} \cup Users /\ pending' \in BOOLEAN /\ blocked' \in BOOLEAN

LEMMA Replaces ==
    ASSUME NEW r \in Requests, NEW job, Known(users', job), IInv, Grow,
           jobs' = [jobs EXCEPT ![r] = job]
    PROVE  jobs' \in [Requests -> Job] /\ \A i \in Requests : Known(users', jobs'[i])
<1>1. job \in Job /\ jobs \in [Requests -> Job]
  BY DEF Known, IInv, TypeOK
<1>2. \A i \in Requests : jobs'[i] = job \/ jobs'[i] = jobs[i]
  BY <1>1
<1>3. \A i \in Requests : Known(users', jobs[i])
  BY DEF IInv, JobsKnown, Known, Grow
<1> QED
  BY <1>1, <1>2, <1>3

LEMMA ArriveKeeps ==
    ASSUME NEW r \in Requests, NEW job, Known(users', job), IInv, Grow, Arrive(r, job)
    PROVE  KeepsJobs
<1>1. jobs' = [jobs EXCEPT ![r] = job] /\ sweep' = sweep
  BY DEF Arrive
<1>2. requests' \in 0..MaxRequests /\ deaths' \in 0..MaxDeaths
  BY AccountAssumption DEF Arrive, IInv, TypeOK
<1>3. calm' \in BOOLEAN
  BY DEF Arrive, IInv, TypeOK
<1> QED
  BY <1>1, <1>2, <1>3, Replaces DEF KeepsJobs, IInv, TypeOK

LEMMA GoOnKeeps ==
    ASSUME NEW r \in Requests, NEW job, Known(users', job), IInv, Grow, GoOn(r, job)
    PROVE  KeepsJobs
  BY Replaces DEF GoOn, KeepsJobs, IInv, TypeOK

\* A step that makes no row, pauses nobody and brings nobody back.
SameStanding ==
    /\ users' \in [Users -> User]
    /\ \A u \in Users : /\ Made(users', u) = Made(users, u)
                        /\ users'[u].deactivated = users[u].deactivated
                        /\ users'[u].linked = users[u].linked

\* A step that puts no owner's hold on a listing.
NoNewHold ==
    /\ items' \in [Items -> Item]
    /\ \A i \in Items : items'[i].held = "owner" =>
           items[i].held = "owner" /\ items'[i].owner = items[i].owner

LEMMA SamePeople ==
    ASSUME IInv, SameStanding PROVE PeopleOK' /\ Grow
<1>1. \A u \in Users : users[u].linked \in {None} \cup Users
  BY DEF IInv, TypeOK, User
<1> QED
  BY <1>1 DEF IInv, SameStanding, PeopleOK, Grow, Made

LEMMA StandingGood ==
    ASSUME IInv, SameStanding, NoNewHold, RestTyped, KeepsJobs
    PROVE  Good
<1>1. PeopleOK'
  BY SamePeople
<1>2. HoldsOwned'
  BY DEF IInv, HoldsOwned, NoNewHold, SameStanding
<1>3. TypeOK'
  BY DEF KeepsJobs, RestTyped, NoNewHold, SameStanding, TypeOK
<1>4. JobsKnown'
  BY DEF KeepsJobs, JobsKnown
<1>5. AdminHoldSurvives
  BY DEF SameStanding, AdminHoldSurvives
<1> QED
  BY <1>1, <1>2, <1>3, <1>4, <1>5 DEF Good, IInv

\* Nothing moves but what is not the people's, nor the listings'.
LEMMA SameRows ==
    ASSUME IInv, users' = users PROVE SameStanding /\ Grow
  BY DEF IInv, TypeOK, SameStanding, Grow

LEMMA SameItems ==
    ASSUME IInv, items' = items PROVE NoNewHold
  BY DEF IInv, TypeOK, NoNewHold

LEMMA RestSame ==
    ASSUME IInv PROVE /\ sessions \subseteq Users /\ links \subseteq Users /\ traced \subseteq Users
                      /\ google \in {None} \cup Users /\ pending \in BOOLEAN /\ blocked \in BOOLEAN
  BY DEF IInv, TypeOK

\* A row keeps its standing when a mark on it changes.
LEMMA Marked ==
    ASSUME IInv, users' \in [Users -> User],
           \A u \in Users : /\ users'[u].state = users[u].state
                            /\ users'[u].deactivated = users[u].deactivated
                            /\ users'[u].linked = users[u].linked
    PROVE  SameStanding /\ Grow
  BY DEF SameStanding, Grow, Made

LEMMA QuietGood ==
    ASSUME IInv, users' = users, items' = items, RestTyped, KeepsJobs
    PROVE  Good
  BY SameRows, SameItems, StandingGood

\* The requests that read the rows and write none.
LEMMA JobFacts ==
    ASSUME IInv, NEW r \in Requests, jobs[r].at \notin {"idle", "signing", "completing"}
    PROVE  /\ jobs[r] \in Job /\ Known(users, jobs[r])
           /\ jobs[r].user \in Users /\ Made(users, jobs[r].user)
           /\ jobs[r].other \in {None} \cup Users
  BY DEF IInv, JobsKnown, Known, Job

LEMMA LinkedFacts ==
    ASSUME IInv, NEW u \in Users
    PROVE  /\ Linked(u) = users[u].linked /\ Linked(u) \in {None} \cup Users
           /\ Linked(u) # None => Made(users, Linked(u))
  BY DEF IInv, TypeOK, User, Linked, PeopleOK

LEMMA CurrentExists ==
    ASSUME NEW u \in Users, CurrentUser(u) PROVE Made(users, u)
  BY DEF CurrentUser, AssertActive, Made

LEMMA SignupGood ==
    ASSUME IInv, NEW r \in Requests, NEW roles \in SUBSET Roles, roles # {},
           Signup(r, roles) \/ CompleteGoogleSignup(r, roles)
    PROVE  Good
<1>1. /\ Known(users, [AJob("signing", None) EXCEPT !.roles = roles])
      /\ Known(users, [AJob("completing", None) EXCEPT !.roles = roles])
  BY DEF Known, Job, AJob, NoJob
<1>2. users' = users /\ items' = items
  BY DEF Signup, CompleteGoogleSignup, accountVars
<1>3. KeepsJobs
  BY <1>1, <1>2, SameRows, ArriveKeeps, NoJobKnown DEF Signup, CompleteGoogleSignup
<1>4. RestTyped
  BY RestSame DEF Signup, CompleteGoogleSignup, accountVars, RestTyped
<1> QED
  BY <1>2, <1>3, <1>4, QuietGood

LEMMA VisitGood ==
    ASSUME IInv, NEW r \in Requests,
           ResendVerification(r) \/ GoogleNewcomer(r) \/ ResetPassword(r)
    PROVE  Good
<1>1. users' = users /\ items' = items /\ Arrive(r, NoJob)
  BY DEF ResendVerification, GoogleNewcomer, ResetPassword
<1>2. KeepsJobs
  BY <1>1, SameRows, ArriveKeeps, NoJobKnown
<1>3. RestTyped
  BY RestSame, FoundLives DEF ResendVerification, GoogleNewcomer, ResetPassword, RestTyped
<1> QED
  BY <1>1, <1>2, <1>3, QuietGood

LEMMA LogoutGood ==
    ASSUME IInv, NEW r \in Requests, NEW u \in Users, Logout(r, u) PROVE Good
<1>1. users' = users /\ items' = items /\ Arrive(r, NoJob)
  BY DEF Logout
<1>2. KeepsJobs
  BY <1>1, SameRows, ArriveKeeps, NoJobKnown
<1>3. RestTyped
  BY RestSame DEF Logout, RestTyped
<1> QED
  BY <1>1, <1>2, <1>3, QuietGood

\* A signed-in user asks for what a later step does.
LEMMA AskGood ==
    ASSUME IInv, NEW r \in Requests, NEW u \in Users,
           SwitchAccount(r, u) \/ LinkProfile(r, u) \/ CreateItem(r, u)
    PROVE  Good
<1>1. users' = users /\ items' = items /\ CurrentUser(u)
  BY DEF SwitchAccount, LinkProfile, CreateItem, accountVars
<1>2. RestTyped
  BY RestSame DEF SwitchAccount, LinkProfile, CreateItem, accountVars, RestTyped
<1>3. CASE SwitchAccount(r, u)
  <2>1. Known(users, [AJob("issue", Linked(u)) EXCEPT !.other = u])
    BY <1>3, LinkedFacts, AJobKnown DEF SwitchAccount
  <2> QED
    BY <1>1, <1>2, <1>3, <2>1, SameRows, ArriveKeeps, QuietGood DEF SwitchAccount
<1>4. CASE LinkProfile(r, u) \/ CreateItem(r, u)
  <2>1. Known(users, AJob("linking", u)) /\ Known(users, AJob("creating", u))
    BY <1>1, CurrentExists, AJobKnown
  <2> QED
    BY <1>1, <1>2, <1>4, <2>1, SameRows, ArriveKeeps, QuietGood DEF LinkProfile, CreateItem
<1> QED
  BY <1>3, <1>4

\* The later steps of a request that write no row.
LEMMA LaterGood ==
    ASSUME IInv, NEW r \in Requests,
           \/ MailLink(r) \/ IssueSession(r) \/ RecordDeletion(r) \/ RevokeSessions(r)
           \/ RecordBannedEmail(r) \/ ClearBannedEmail(r)
    PROVE  Good
<1>1. users' = users /\ items' = items /\ GoOn(r, NoJob)
  BY DEF MailLink, IssueSession, RecordDeletion, RevokeSessions, RecordBannedEmail,
         ClearBannedEmail
<1>2. KeepsJobs
  BY <1>1, SameRows, GoOnKeeps, NoJobKnown
<1>3. jobs[r].user \in Users /\ jobs[r].other \in {None} \cup Users
  BY JobFacts DEF MailLink, IssueSession, RecordDeletion, RevokeSessions, RecordBannedEmail,
                  ClearBannedEmail
<1>4. RestTyped
  BY <1>3, RestSame DEF MailLink, IssueSession, RecordDeletion, RevokeSessions,
                        RecordBannedEmail, ClearBannedEmail, RestTyped
<1> QED
  BY <1>1, <1>2, <1>4, QuietGood

LEMMA RevokeBannedGood ==
    ASSUME IInv, NEW r \in Requests, RevokeBanned(r) PROVE Good
<1>1. users' = users /\ items' = items
  BY DEF RevokeBanned
<1> DEFINE job == [jobs[r] EXCEPT !.at = IF @ = "banning" THEN "banned" ELSE "blocking"]
<1>2. Known(users', job)
  BY <1>1, JobFacts DEF RevokeBanned, Known, Job
<1>3. GoOn(r, job)
  BY DEF RevokeBanned
<1>4. RestTyped
  BY RestSame DEF RevokeBanned, RestTyped
<1> HIDE DEF job
<1> QED
  BY <1>1, <1>2, <1>3, <1>4, SameRows, GoOnKeeps, QuietGood

-----------------------------------------------------------------------------
\* Listings.
LEMMA ItemsGood ==
    ASSUME IInv, users' = users, NoNewHold, RestTyped, KeepsJobs PROVE Good
  BY SameRows, StandingGood

LEMMA OnItemGood ==
    ASSUME IInv, NEW r \in Requests, NEW i \in Items,
           \/ RemoveItem(r, i) \/ SuspendItem(r, i) \/ UnsuspendItem(r, i)
           \/ AdminRemoveItem(r, i)
    PROVE  Good
<1>1. users' = users /\ Arrive(r, NoJob)
  BY DEF RemoveItem, SuspendItem, UnsuspendItem, AdminRemoveItem
<1>2. KeepsJobs
  BY <1>1, SameRows, ArriveKeeps, NoJobKnown
<1>3. RestTyped
  BY RestSame DEF RemoveItem, SuspendItem, UnsuspendItem, AdminRemoveItem, RestTyped
<1>4. items \in [Items -> Item]
  BY DEF IInv, TypeOK
<1>5. \E row \in Item : /\ items' = [items EXCEPT ![i] = row]
                        /\ row.held = "owner" => items[i].held = "owner" /\ row.owner = items[i].owner
  <2>1. CASE RemoveItem(r, i)
    <3>1. [items[i] EXCEPT !.state = "archived"] \in Item /\ NoItem \in Item
      BY <1>4, NoJobKnown DEF Item
    <3> QED
      BY <1>4, <2>1, <3>1 DEF RemoveItem, Item, NoItem
  <2>2. CASE SuspendItem(r, i)
    <3>1. PICK period \in {"timed", "indefinite"} : items' = [items EXCEPT ![i].held = period]
      BY <2>2 DEF SuspendItem
    <3>2. [items[i] EXCEPT !.held = period] \in Item
      BY <1>4 DEF Item, Timed
    <3> QED
      BY <1>4, <3>1, <3>2 DEF Item
  <2>3. CASE UnsuspendItem(r, i)
    <3>1. [items[i] EXCEPT !.held = "no"] \in Item
      BY <1>4 DEF Item, Timed
    <3> QED
      BY <1>4, <2>3, <3>1 DEF UnsuspendItem, Item
  <2>4. CASE AdminRemoveItem(r, i)
    BY <2>4, NoJobKnown DEF AdminRemoveItem, NoItem
  <2> QED
    BY <2>1, <2>2, <2>3, <2>4
<1>6. NoNewHold
  BY <1>4, <1>5 DEF NoNewHold
<1> QED
  BY <1>1, <1>2, <1>3, <1>6, ItemsGood

LEMMA InsertItemGood ==
    ASSUME IInv, NEW r \in Requests, InsertItem(r) PROVE Good
<1>1. users' = users /\ GoOn(r, NoJob)
  BY DEF InsertItem
<1>2. KeepsJobs
  BY <1>1, SameRows, GoOnKeeps, NoJobKnown
<1>3. RestTyped
  BY RestSame DEF InsertItem, RestTyped
<1>4. items \in [Items -> Item] /\ jobs[r].user \in Users
  BY JobFacts DEF IInv, TypeOK, InsertItem
<1> DEFINE row == [state |-> "live", owner |-> jobs[r].user, held |-> "no"]
<1>5. row \in Item /\ row.held = "no"
  BY <1>4 DEF Item
<1>6. \E i \in Items : items' = [items EXCEPT ![i] = row]
  BY DEF InsertItem
<1> HIDE DEF row
<1>7. NoNewHold
  BY <1>4, <1>5, <1>6 DEF NoNewHold
<1> QED
  BY <1>1, <1>2, <1>3, <1>7, ItemsGood

-----------------------------------------------------------------------------
\* Marks on a row that leave its standing alone.
LEMMA MarkGood ==
    ASSUME IInv, users' \in [Users -> User],
           \A u \in Users : /\ users'[u].state = users[u].state
                            /\ users'[u].deactivated = users[u].deactivated
                            /\ users'[u].linked = users[u].linked,
           items' = items, RestTyped, KeepsJobs
    PROVE  Good
  BY Marked, SameItems, StandingGood

\* A ban, put on or taken off.
LEMMA BannedMark ==
    ASSUME IInv, NEW u, NEW mark \in BOOLEAN, users' = [users EXCEPT ![u].banned = mark]
    PROVE  /\ users' \in [Users -> User]
           /\ \A v \in Users : /\ users'[v].state = users[v].state
                               /\ users'[v].deactivated = users[v].deactivated
                               /\ users'[v].linked = users[v].linked
<1>1. users \in [Users -> User]
  BY DEF IInv, TypeOK
<1>2. \A v \in Users : users'[v] = IF v = u THEN [users[v] EXCEPT !.banned = mark] ELSE users[v]
  BY <1>1
<1>3. \A v \in Users : [users[v] EXCEPT !.banned = mark] \in User
  BY <1>1 DEF User
<1>4. \A v \in Users : users'[v] \in User
  BY <1>1, <1>2, <1>3
<1>5. \A v \in Users : LET row == [users[v] EXCEPT !.banned = mark]
                        IN  /\ row.state = users[v].state
                            /\ row.deactivated = users[v].deactivated
                            /\ row.linked = users[v].linked
  BY <1>1 DEF User
<1> QED
  BY <1>1, <1>2, <1>4, <1>5

\* A suspension, likewise.
LEMMA SuspendedMark ==
    ASSUME IInv, NEW u, NEW mark \in {"no", "indefinite"} \cup Timed, users' = [users EXCEPT ![u].suspended = mark]
    PROVE  /\ users' \in [Users -> User]
           /\ \A v \in Users : /\ users'[v].state = users[v].state
                               /\ users'[v].deactivated = users[v].deactivated
                               /\ users'[v].linked = users[v].linked
<1>1. users \in [Users -> User]
  BY DEF IInv, TypeOK
<1>2. \A v \in Users : users'[v] = IF v = u THEN [users[v] EXCEPT !.suspended = mark] ELSE users[v]
  BY <1>1
<1>3. \A v \in Users : [users[v] EXCEPT !.suspended = mark] \in User
  BY <1>1 DEF User
<1>4. \A v \in Users : users'[v] \in User
  BY <1>1, <1>2, <1>3
<1>5. \A v \in Users : LET row == [users[v] EXCEPT !.suspended = mark]
                        IN  /\ row.state = users[v].state
                            /\ row.deactivated = users[v].deactivated
                            /\ row.linked = users[v].linked
  BY <1>1 DEF User
<1> QED
  BY <1>1, <1>2, <1>4, <1>5

LEMMA VerifyEmailGood ==
    ASSUME IInv, NEW r \in Requests, NEW u \in Users, VerifyEmail(r, u) PROVE Good
<1>1. users \in [Users -> User] /\ links \subseteq Users
  BY DEF IInv, TypeOK
<1>2. users' \in [Users -> User]
  BY <1>1 DEF VerifyEmail, User
<1>3. \A v \in Users : /\ users'[v].state = users[v].state
                       /\ users'[v].deactivated = users[v].deactivated
                       /\ users'[v].linked = users[v].linked
  BY <1>1 DEF VerifyEmail, User
<1>4. items' = items /\ RestTyped
  BY RestSame DEF VerifyEmail, RestTyped
<1>5. CASE AssertActive(users', u)
  <2>1. Known(users', AJob("issue", u))
    BY <1>5, AJobKnown DEF AssertActive, Made
  <2> QED
    BY <1>2, <1>3, <1>4, <1>5, <2>1, Marked, ArriveKeeps, MarkGood DEF VerifyEmail
<1>6. CASE ~AssertActive(users', u)
  BY <1>2, <1>3, <1>4, <1>6, NoJobKnown, Marked, ArriveKeeps, MarkGood DEF VerifyEmail
<1> QED
  BY <1>5, <1>6

LEMMA AdminMarkGood ==
    ASSUME IInv, NEW r \in Requests, NEW u \in Users,
           SuspendUser(r, u) \/ UnsuspendUser(r, u) \/ BanUser(r, u) \/ UnbanUser(r, u)
    PROVE  Good
<1>1. users \in [Users -> User] /\ Made(users, u)
  BY DEF IInv, TypeOK, SuspendUser, UnsuspendUser, BanUser, UnbanUser, Exists, Made
<1>2. /\ users' \in [Users -> User]
      /\ \A v \in Users : /\ users'[v].state = users[v].state
                          /\ users'[v].deactivated = users[v].deactivated
                          /\ users'[v].linked = users[v].linked
  <2>1. CASE SuspendUser(r, u)
    <3>1. PICK period \in {"timed", "indefinite"} : users' = [users EXCEPT ![u].suspended = period]
      BY <2>1 DEF SuspendUser
    <3> QED
      BY <3>1, SuspendedMark DEF Timed
  <2>2. CASE UnsuspendUser(r, u)
    BY <2>2, SuspendedMark DEF UnsuspendUser
  <2>3. CASE BanUser(r, u)
    BY <2>3, BannedMark DEF BanUser
  <2>4. CASE UnbanUser(r, u)
    BY <2>4, BannedMark DEF UnbanUser
  <2> QED
    BY <2>1, <2>2, <2>3, <2>4
<1>3. items' = items /\ RestTyped
  BY RestSame DEF SuspendUser, UnsuspendUser, BanUser, UnbanUser, RestTyped
<1>4. Made(users', u)
  BY <1>1, <1>2 DEF Made
<1>5. /\ Known(users', AJob("suspending", u)) /\ Known(users', AJob("unbanning", u))
      /\ Known(users', [AJob("banning", u) EXCEPT !.other = Linked(u)])
  BY <1>4, LinkedFacts, AJobKnown
<1>6. KeepsJobs
  BY <1>2, <1>5, NoJobKnown, Marked, ArriveKeeps DEF SuspendUser, UnsuspendUser, BanUser, UnbanUser
<1> QED
  BY <1>2, <1>3, <1>6, MarkGood

LEMMA BanLinkedGood ==
    ASSUME IInv, NEW r \in Requests, BanLinked(r) PROVE Good
<1>1. users \in [Users -> User]
  BY DEF IInv, TypeOK
<1>2. /\ users' \in [Users -> User]
      /\ \A v \in Users : /\ users'[v].state = users[v].state
                          /\ users'[v].deactivated = users[v].deactivated
                          /\ users'[v].linked = users[v].linked
  <2>1. users' = users \/ users' = [users EXCEPT ![jobs[r].other].banned = TRUE]
    BY DEF BanLinked
  <2> QED
    BY <1>1, <2>1, BannedMark
<1>3. items' = items /\ RestTyped
  BY RestSame DEF BanLinked, RestTyped
<1> DEFINE onward(at) == [jobs[r] EXCEPT !.at = at]
<1>4. /\ GoOn(r, onward("banningLinked")) \/ GoOn(r, onward("blocking"))
  BY DEF BanLinked
<1>5. Grow
  BY <1>2, Marked
<1>6. Known(users', onward("banningLinked")) /\ Known(users', onward("blocking"))
  BY <1>5, JobFacts DEF BanLinked, Known, Job, Grow
<1> HIDE DEF onward
<1> QED
  BY <1>2, <1>3, <1>4, <1>5, <1>6, GoOnKeeps, MarkGood

LEMMA UnbanLinkedGood ==
    ASSUME IInv, NEW r \in Requests, UnbanLinked(r) PROVE Good
<1>1. users \in [Users -> User]
  BY DEF IInv, TypeOK
<1>2. /\ users' \in [Users -> User]
      /\ \A v \in Users : /\ users'[v].state = users[v].state
                          /\ users'[v].deactivated = users[v].deactivated
                          /\ users'[v].linked = users[v].linked
  <2>1. users' = users \/ users' = [users EXCEPT ![Linked(jobs[r].user)].banned = FALSE]
    BY DEF UnbanLinked
  <2> QED
    BY <1>1, <2>1, BannedMark
<1>3. items' = items /\ RestTyped
  BY RestSame DEF UnbanLinked, RestTyped
<1> DEFINE job == [jobs[r] EXCEPT !.at = "unblocking"]
<1>4. GoOn(r, job)
  BY DEF UnbanLinked
<1>5. Grow
  BY <1>2, Marked
<1>6. Known(users', job)
  BY <1>5, JobFacts DEF UnbanLinked, Known, Job, Grow
<1> HIDE DEF job
<1> QED
  BY <1>2, <1>3, <1>4, <1>5, <1>6, GoOnKeeps, MarkGood

-----------------------------------------------------------------------------
\* Time, the sweep, and a death.
LEMMA SameJobs ==
    ASSUME IInv, Grow, jobs' = jobs \/ \E r \in Requests : jobs' = [jobs EXCEPT ![r] = NoJob],
           requests' = requests, deaths' \in 0..MaxDeaths, calm' \in BOOLEAN, sweep' \in Sweep
    PROVE  KeepsJobs
<1>1. CASE jobs' = jobs
  <2>1. \A r \in Requests : Known(users', jobs[r])
    BY DEF IInv, JobsKnown, Known, Grow
  <2> QED
    BY <1>1, <2>1 DEF KeepsJobs, IInv, TypeOK
<1>2. CASE \E r \in Requests : jobs' = [jobs EXCEPT ![r] = NoJob]
  BY <1>2, NoJobKnown, Replaces DEF KeepsJobs, IInv, TypeOK
<1> QED
  BY <1>1, <1>2

LEMMA ElapseGood ==
    ASSUME IInv, Elapse PROVE Good
<1>1. RestTyped
  BY RestSame DEF Elapse, requestVars, RestTyped
<1>2. /\ jobs' = jobs /\ requests' = requests /\ deaths' \in 0..MaxDeaths
      /\ calm' \in BOOLEAN /\ sweep' \in Sweep
  BY DEF Elapse, requestVars, IInv, TypeOK
<1>3. CASE \E u \in Users : users' = [users EXCEPT ![u].suspended = "elapsed"] /\ items' = items
  BY <1>1, <1>2, <1>3, SuspendedMark, Marked, SameJobs, MarkGood DEF Timed
<1>4. CASE \E i \in Items : /\ items[i].held = "timed" /\ users' = users
                            /\ items' = [items EXCEPT ![i].held = "elapsed"]
  <2>1. PICK i \in Items : /\ users' = users
                           /\ items' = [items EXCEPT ![i].held = "elapsed"]
    BY <1>4
  <2>2. items \in [Items -> Item] /\ [items[i] EXCEPT !.held = "elapsed"] \in Item
    BY DEF IInv, TypeOK, Item, Timed
  <2>3. NoNewHold
    BY <2>1, <2>2 DEF NoNewHold, Item
  <2> QED
    BY <1>1, <1>2, <2>1, <2>3, SameRows, SameJobs, ItemsGood
<1> QED
  BY <1>3, <1>4 DEF Elapse

LEMMA QueryGood ==
    ASSUME IInv, QueryDue PROVE Good
<1>1. RestTyped /\ users' = users /\ items' = items
  BY RestSame DEF QueryDue, requestVars, RestTyped
<1>2. sweep' \in Sweep
  <2>1. DueUsers \subseteq Users \cup Items /\ DueItems \subseteq Users \cup Items
    BY DEF DueUsers, DueItems
  <2>2. \/ sweep' = [at |-> "users", due |-> DueUsers]
        \/ sweep' = [at |-> "items", due |-> DueItems]
        \/ sweep' = [at |-> "idle", due |-> {}]
    BY DEF QueryDue, IInv, TypeOK, Sweep
  <2> QED
    BY <2>1, <2>2 DEF Sweep
<1>3. KeepsJobs
  BY <1>1, <1>2, SameRows, SameJobs DEF QueryDue, requestVars, IInv, TypeOK
<1> QED
  BY <1>1, <1>3, QuietGood

LEMMA ClearGood ==
    ASSUME IInv, ClearSuspension PROVE Good
<1>1. RestTyped
  BY RestSame DEF ClearSuspension, requestVars, RestTyped
<1>2. jobs' = jobs /\ requests' = requests /\ deaths' \in 0..MaxDeaths /\ calm' \in BOOLEAN
  BY DEF ClearSuspension, requestVars, IInv, TypeOK
<1>3. PICK x \in sweep.due :
        \/ /\ users' = [users EXCEPT ![x].suspended = "no"]
           /\ sweep' = [sweep EXCEPT !.due = @ \ {x}] /\ items' = items
        \/ /\ items' = [items EXCEPT ![x].held = "no"]
           /\ sweep' = [sweep EXCEPT !.due = @ \ {x}] /\ users' = users
        \/ sweep' = [at |-> "idle", due |-> {}] /\ users' = users /\ items' = items
  BY DEF ClearSuspension
<1>4. sweep' \in Sweep
  <2>1. [sweep EXCEPT !.due = @ \ {x}] \in Sweep /\ [at |-> "idle", due |-> {}] \in Sweep
    BY DEF IInv, TypeOK, Sweep
  <2> QED
    BY <1>3, <2>1
<1>5. CASE users' = [users EXCEPT ![x].suspended = "no"] /\ items' = items
  BY <1>1, <1>2, <1>4, <1>5, SuspendedMark, Marked, SameJobs, MarkGood
<1>6. CASE items' = [items EXCEPT ![x].held = "no"] /\ users' = users
  <2>1. items \in [Items -> Item] /\ \A i \in Items : [items[i] EXCEPT !.held = "no"] \in Item
    BY DEF IInv, TypeOK, Item
  <2>2. \A i \in Items : items'[i] = items[i] \/ items'[i] = [items[i] EXCEPT !.held = "no"]
    BY <1>6, <2>1
  <2>3. items' \in [Items -> Item]
    BY <1>6, <2>1, <2>2
  <2>4. NoNewHold
    BY <2>1, <2>2, <2>3 DEF NoNewHold, Item
  <2> QED
    BY <1>1, <1>2, <1>4, <1>6, <2>4, SameRows, SameJobs, ItemsGood
<1>7. CASE users' = users /\ items' = items
  BY <1>1, <1>2, <1>4, <1>7, SameRows, SameJobs, QuietGood
<1> QED
  BY <1>3, <1>5, <1>6, <1>7

LEMMA DieGood ==
    ASSUME IInv, Die PROVE Good
<1>1. RestTyped /\ users' = users /\ items' = items
  BY RestSame DEF Die, accountVars, RestTyped
<1>2. requests' = requests /\ deaths' \in 0..MaxDeaths /\ calm' \in BOOLEAN
  <2>1. requests' = requests /\ deaths' \in 0..MaxDeaths
    BY AccountAssumption DEF Die, IInv, TypeOK
  <2>2. calm' = calm \/ calm' = FALSE
    BY DEF Die
  <2> QED
    BY <2>1, <2>2 DEF IInv, TypeOK
<1>3. sweep' \in Sweep
  BY DEF Die, IInv, TypeOK, Sweep
<1>4. jobs' = jobs \/ \E r \in Requests : jobs' = [jobs EXCEPT ![r] = NoJob]
  BY DEF Die
<1> QED
  BY <1>1, <1>2, <1>3, <1>4, SameRows, SameJobs, QuietGood

-----------------------------------------------------------------------------
\* Deleting: a deleted row is still a row.
LEMMA AnonymizeKeeps ==
    ASSUME IInv, NEW u \in Users, Made(users, u), AnonymizeUser(u)
    PROVE  SameStanding /\ Grow /\ NoNewHold /\ RestTyped
<1>1. users \in [Users -> User] /\ items \in [Items -> Item]
  BY DEF IInv, TypeOK
<1>2. users' = [users EXCEPT ![u].state = "deleted"]
  BY DEF AnonymizeUser
<1>3. users' \in [Users -> User]
  BY <1>1, <1>2 DEF User
<1>4. SameStanding
  BY <1>1, <1>2, <1>3 DEF SameStanding, Made, User
<1>5. Grow
  BY <1>4, SamePeople
<1>6. PICK dealt \in SUBSET Items :
        items' = [i \in Items |->
            IF i \in dealt THEN [items[i] EXCEPT !.state = "archived"]
            ELSE IF items[i].owner = u /\ items[i].state = "live" THEN NoItem
            ELSE items[i]]
  BY DEF AnonymizeUser
<1>7. \A i \in Items : [items[i] EXCEPT !.state = "archived"] \in Item
  BY <1>1 DEF Item
<1>8. items' \in [Items -> Item]
  BY <1>1, <1>6, <1>7, NoJobKnown
<1>9. NoNewHold
  BY <1>1, <1>6, <1>8 DEF NoNewHold, Item, NoItem
<1>10. RestTyped
  BY RestSame DEF AnonymizeUser, RestTyped
<1> QED
  BY <1>4, <1>5, <1>9, <1>10

LEMMA DeleteGood ==
    ASSUME IInv, NEW r \in Requests, NEW u \in Users, DeleteMyAccount(r, u) \/ DeleteUser(r, u)
    PROVE  Good
<1>1. Made(users, u) /\ AnonymizeUser(u) /\ Arrive(r, AJob("deleting", u))
  BY CurrentExists DEF DeleteMyAccount, DeleteUser, Live, Made
<1>2. SameStanding /\ Grow /\ NoNewHold /\ RestTyped
  BY <1>1, AnonymizeKeeps
<1>3. Known(users', AJob("deleting", u))
  BY <1>1, <1>2, AJobKnown DEF Grow
<1> QED
  BY <1>1, <1>2, <1>3, ArriveKeeps, StandingGood

LEMMA DeleteLinkedGood ==
    ASSUME IInv, NEW r \in Requests, DeleteLinked(r) PROVE Good
<1> DEFINE v == Linked(jobs[r].user)
           both == [jobs[r] EXCEPT !.at = "deleted", !.other = v]
           alone == [jobs[r] EXCEPT !.at = "deleted"]
<1>1. jobs[r].user \in Users /\ Made(users, jobs[r].user) /\ jobs[r] \in Job
  BY JobFacts DEF DeleteLinked
<1>2. v \in {None} \cup Users
  BY <1>1, LinkedFacts
<1>3. \A rows : Made(rows, jobs[r].user) => Known(rows, both) /\ Known(rows, alone)
  BY <1>1, <1>2 DEF Known, Job
<1>4. CASE Live(v)
  <2>1. v \in Users /\ Made(users, v) /\ AnonymizeUser(v) /\ GoOn(r, both)
    BY <1>4 DEF Live, Made, DeleteLinked
  <2>2. SameStanding /\ Grow /\ NoNewHold /\ RestTyped
    BY <2>1, AnonymizeKeeps
  <2>3. Known(users', both)
    BY <1>1, <1>3, <2>2 DEF Grow
  <2> QED
    BY <2>1, <2>2, <2>3, GoOnKeeps, StandingGood
<1>5. CASE ~Live(v)
  <2>1. users' = users /\ items' = items /\ GoOn(r, alone)
    BY <1>5 DEF DeleteLinked, accountVars
  <2>2. RestTyped
    BY <1>5, RestSame DEF DeleteLinked, accountVars, RestTyped
  <2>3. Known(users', alone)
    BY <1>1, <1>3, <2>1
  <2> QED
    BY <2>1, <2>2, <2>3, SameRows, GoOnKeeps, QuietGood
<1> QED
  BY <1>4, <1>5

-----------------------------------------------------------------------------
\* Pausing and coming back.
LEMMA PausedGood ==
    ASSUME IInv, users' \in [Users -> User],
           \A u \in Users : users'[u].state = users[u].state /\ users'[u].linked = users[u].linked,
           \A u \in Users : users'[u].deactivated => Made(users, u),
           items' \in [Items -> Item],
           \A i \in Items : items'[i].held = "owner" =>
               items'[i].owner \in Users /\ users'[items'[i].owner].deactivated,
           \A i \in Items : items[i].held \in Timed \cup {"indefinite"} => items'[i] = items[i],
           RestTyped, KeepsJobs
    PROVE  Good
<1>1. TypeOK'
  BY DEF KeepsJobs, RestTyped, TypeOK
<1>2. PeopleOK'
  <2>1. \A u \in Users : Made(users', u) = Made(users, u)
    BY DEF Made
  <2>2. \A u \in Users : users[u].linked \in {None} \cup Users
    BY DEF IInv, TypeOK, User
  <2> QED
    BY <2>1, <2>2 DEF IInv, PeopleOK
<1>3. HoldsOwned' /\ JobsKnown'
  BY DEF HoldsOwned, JobsKnown, KeepsJobs
<1>4. AdminHoldSurvives
  BY DEF AdminHoldSurvives
<1> QED
  BY <1>1, <1>2, <1>3, <1>4 DEF Good, IInv

\* A pause of one row, put on or taken off.
LEMMA PausedOnly ==
    ASSUME IInv, NEW u \in Users, NEW mark \in BOOLEAN,
           NEW row, row = [users[u] EXCEPT !.deactivated = mark]
    PROVE  /\ row \in User /\ row.state = users[u].state /\ row.linked = users[u].linked
           /\ row.deactivated = mark
<1>1. users[u] \in User
  BY DEF IInv, TypeOK
<1> QED
  BY <1>1 DEF User

\* What a sign-in does to the rows and the listings of those who come back.
LEMMA ReturnKeeps ==
    ASSUME IInv, NEW returning, ShowItems(returning),
           \A u \in Users : users'[u].deactivated <=> users[u].deactivated /\ u \notin returning
    PROVE  /\ items' \in [Items -> Item]
           /\ \A i \in Items : items'[i].held = "owner" =>
                  items'[i].owner \in Users /\ users'[items'[i].owner].deactivated
           /\ \A i \in Items : items[i].held \in Timed \cup {"indefinite"} => items'[i] = items[i]
<1>1. items \in [Items -> Item] /\ \A i \in Items : [items[i] EXCEPT !.held = "no"] \in Item
  BY DEF IInv, TypeOK, Item
<1>2. items' \in [Items -> Item]
  BY <1>1 DEF ShowItems
<1>3. \A i \in Items : items'[i].held = "owner" =>
          items'[i].owner \in Users /\ users'[items'[i].owner].deactivated
  <2> SUFFICES ASSUME NEW i \in Items, items'[i].held = "owner"
               PROVE  items'[i].owner \in Users /\ users'[items'[i].owner].deactivated
    OBVIOUS
  <2>1. items'[i] = items[i] /\ ~(items[i].owner \in returning /\ items[i].held = "owner")
    BY <1>1 DEF ShowItems, Item
  <2>2. items[i].owner \in Users /\ users[items[i].owner].deactivated /\ items[i].owner \notin returning
    BY <2>1 DEF IInv, HoldsOwned
  <2> QED
    BY <2>1, <2>2
<1>4. \A i \in Items : items[i].held \in Timed \cup {"indefinite"} => items'[i] = items[i]
  BY DEF ShowItems, Timed
<1> QED
  BY <1>2, <1>3, <1>4

LEMMA IssueKeeps ==
    ASSUME IInv, Grow, NEW r \in Requests, NEW u \in Users, Made(users, u),
           Arrive(r, AJob("issue", u)) \/ Arrive(r, NoJob)
    PROVE  KeepsJobs
  BY AJobKnown, NoJobKnown, ArriveKeeps DEF Grow

LEMMA LoginGood ==
    ASSUME IInv, NEW r \in Requests, Login(r) PROVE Good
<1> DEFINE u == FindByEmail
           returning == IF users[u].deactivated THEN ReactivateCascade(u) ELSE {}
<1>1. u \in Users /\ Made(users, u)
  BY FoundLives DEF Login
<1>2. users \in [Users -> User]
  BY DEF IInv, TypeOK
<1>3. users' = [v \in Users |-> IF v \in returning
                                THEN [users[v] EXCEPT !.deactivated = FALSE] ELSE users[v]]
  BY DEF Login
<1>4. ShowItems(returning) /\ (Arrive(r, AJob("issue", u)) \/ Arrive(r, NoJob))
  BY DEF Login
<1> HIDE DEF u, returning
<1>5. users' \in [Users -> User]
  <2>1. \A v \in Users : [users[v] EXCEPT !.deactivated = FALSE] \in User
    BY PausedOnly
  <2> QED
    BY <1>2, <1>3, <2>1
<1>6. \A v \in Users : /\ users'[v].state = users[v].state /\ users'[v].linked = users[v].linked
                       /\ users'[v].deactivated <=> users[v].deactivated /\ v \notin returning
  <2> TAKE v \in Users
  <2>1. CASE v \in returning
    BY <1>3, <2>1, PausedOnly
  <2>2. CASE v \notin returning
    BY <1>3, <2>2
  <2> QED
    BY <2>1, <2>2
<1>7. Grow
  BY <1>6 DEF Grow, Made
<1>8. KeepsJobs
  BY <1>1, <1>4, <1>7, IssueKeeps
<1>9. RestTyped
  BY RestSame DEF Login, RestTyped
<1>10. \A v \in Users : users'[v].deactivated => Made(users, v)
  BY <1>6 DEF IInv, PeopleOK
<1> QED
  BY <1>4, <1>5, <1>6, <1>8, <1>9, <1>10, ReturnKeeps, PausedGood

LEMMA PauseKeeps ==
    ASSUME IInv, NEW u \in Users, Made(users, u), DeactivateUser(u), KeepsJobs
    PROVE  Good
<1>1. users \in [Users -> User] /\ items \in [Items -> Item]
  BY DEF IInv, TypeOK
<1>2. users' = [users EXCEPT ![u].deactivated = TRUE]
  BY DEF DeactivateUser
<1>3. users' \in [Users -> User]
  BY <1>1, <1>2 DEF User
<1>4. \A v \in Users : /\ users'[v].state = users[v].state /\ users'[v].linked = users[v].linked
                       /\ users'[v].deactivated <=> users[v].deactivated \/ v = u
  <2> TAKE v \in Users
  <2>1. users'[v] = IF v = u THEN [users[v] EXCEPT !.deactivated = TRUE] ELSE users[v]
    BY <1>1, <1>2
  <2>2. CASE v = u
    BY <2>1, <2>2, PausedOnly
  <2>3. CASE v # u
    BY <2>1, <2>3
  <2> QED
    BY <2>2, <2>3
<1>5. \A v \in Users : users'[v].deactivated => Made(users, v)
  BY <1>4 DEF IInv, PeopleOK
<1>6. \A i \in Items : [items[i] EXCEPT !.held = "owner"] \in Item
  BY <1>1 DEF Item
<1>7. items' = [i \in Items |-> IF items[i].owner = u /\ items[i].held = "no"
                                THEN [items[i] EXCEPT !.held = "owner"] ELSE items[i]]
  BY DEF DeactivateUser, HideItems
<1>8. items' \in [Items -> Item]
  BY <1>1, <1>6, <1>7
<1>9. \A i \in Items : items'[i].held = "owner" =>
          items'[i].owner \in Users /\ users'[items'[i].owner].deactivated
  <2> TAKE i \in Items
  <2>1. CASE items[i].owner = u /\ items[i].held = "no"
    BY <1>1, <1>4, <1>7, <2>1 DEF Item
  <2>2. CASE ~(items[i].owner = u /\ items[i].held = "no")
    BY <1>4, <1>7, <2>2 DEF IInv, HoldsOwned
  <2> QED
    BY <2>1, <2>2
<1>10. \A i \in Items : items[i].held \in Timed \cup {"indefinite"} => items'[i] = items[i]
  BY <1>7 DEF Timed
<1>11. RestTyped
  BY RestSame DEF DeactivateUser, RestTyped
<1> QED
  BY <1>3, <1>4, <1>5, <1>8, <1>9, <1>10, <1>11, PausedGood

LEMMA PauseGrows ==
    ASSUME IInv, NEW u \in Users, DeactivateUser(u) PROVE Grow
  BY DEF IInv, TypeOK, User, DeactivateUser, Grow, Made

LEMMA DeactivateGood ==
    ASSUME IInv, NEW r \in Requests, NEW u \in Users, Deactivate(r, u) PROVE Good
<1>1. Made(users, u) /\ DeactivateUser(u) /\ Arrive(r, AJob("deactivating", u))
  BY CurrentExists DEF Deactivate
<1>2. Grow
  BY <1>1, PauseGrows
<1>3. Known(users', AJob("deactivating", u))
  BY <1>1, <1>2, AJobKnown DEF Grow
<1> QED
  BY <1>1, <1>2, <1>3, ArriveKeeps, PauseKeeps

LEMMA DeactivateLinkedGood ==
    ASSUME IInv, NEW r \in Requests, DeactivateLinked(r) PROVE Good
<1> DEFINE v == Linked(jobs[r].user)
<1>1. v \in {None} \cup Users /\ (v # None => Made(users, v))
  BY JobFacts, LinkedFacts DEF DeactivateLinked
<1>2. GoOn(r, NoJob)
  BY DEF DeactivateLinked
<1>3. CASE v # None /\ ~users[v].deactivated
  <2>1. DeactivateUser(v)
    BY <1>3 DEF DeactivateLinked
  <2> QED
    BY <1>1, <1>2, <1>3, <2>1, PauseGrows, NoJobKnown, GoOnKeeps, PauseKeeps
<1>4. CASE ~(v # None /\ ~users[v].deactivated)
  <2>1. UNCHANGED accountVars
    BY <1>4 DEF DeactivateLinked
  <2>2. users' = users /\ items' = items /\ RestTyped
    BY <2>1, RestSame DEF accountVars, RestTyped
  <2> QED
    BY <1>2, <2>2, SameRows, NoJobKnown, GoOnKeeps, QuietGood
<1> QED
  BY <1>3, <1>4

\* What coming through Google does to a row.
LEMMA GoogleMarks ==
    ASSUME IInv, NEW r \in Requests, GoogleCallback(r), NEW u, u = GoogleRow, NEW returning,
           returning = IF users[u].deactivated THEN ReactivateCascade(u) ELSE {}
    PROVE  \A v \in Users : /\ users'[v] \in User
                            /\ users'[v].state = users[v].state
                            /\ users'[v].linked = users[v].linked
                            /\ users'[v].banned = users[v].banned
                            /\ users'[v].suspended = users[v].suspended
                            /\ users'[v].deactivated <=> users[v].deactivated /\ v \notin returning
                            /\ users'[v].verified <=> users[v].verified \/ v = u
<1> TAKE v \in Users
<1>1. PICK mark \in BOOLEAN : mark <=> users[v].deactivated /\ v \notin returning
  OBVIOUS
<1>2. PICK verified \in BOOLEAN : verified <=> users[v].verified \/ v = u
  OBVIOUS
<1>3. users'[v] = [users[v] EXCEPT !.deactivated = users[v].deactivated /\ v \notin returning,
                                   !.verified = users[v].verified \/ v = u]
  <2>1. users' = [w \in Users |-> [users[w] EXCEPT !.deactivated = @ /\ w \notin returning,
                                                  !.verified = @ \/ w = u]]
    BY DEF GoogleCallback
  <2> QED
    BY <2>1 DEF IInv, TypeOK, User
<1>4. /\ (users[v].deactivated /\ v \notin returning) = mark
      /\ (users[v].verified \/ v = u) = verified
  BY <1>1, <1>2
<1>5. users'[v] = [users[v] EXCEPT !.deactivated = mark, !.verified = verified]
  BY <1>3, <1>4
<1>6. /\ users'[v] \in User /\ users'[v].state = users[v].state
      /\ users'[v].linked = users[v].linked /\ users'[v].banned = users[v].banned
      /\ users'[v].suspended = users[v].suspended
      /\ users'[v].deactivated = mark /\ users'[v].verified = verified
  <2>1. users[v] \in User
    BY DEF IInv, TypeOK
  <2> QED
    BY <1>5, <2>1 DEF User
<1> QED
  BY <1>1, <1>2, <1>6

LEMMA GoogleCallbackGood ==
    ASSUME IInv, NEW r \in Requests, GoogleCallback(r) PROVE Good
<1> DEFINE u == GoogleRow
           returning == IF users[u].deactivated THEN ReactivateCascade(u) ELSE {}
<1>1. u \in Users
  BY FoundLives DEF GoogleCallback, GoogleRow, IInv, TypeOK
<1>2. ShowItems(returning)
  BY DEF GoogleCallback
<1>3. Arrive(r, IF AssertActive(users', u) THEN AJob("issue", u) ELSE NoJob)
  BY DEF GoogleCallback
<1>4. RestTyped
  BY <1>1, RestSame DEF GoogleCallback, RestTyped
<1>5. u = GoogleRow /\ returning = IF users[u].deactivated THEN ReactivateCascade(u) ELSE {}
  OBVIOUS
<1> HIDE DEF u, returning
<1>6. \A v \in Users : /\ users'[v] \in User
                       /\ users'[v].state = users[v].state /\ users'[v].linked = users[v].linked
                       /\ users'[v].deactivated <=> users[v].deactivated /\ v \notin returning
  BY <1>5, GoogleMarks
<1>7. users' \in [Users -> User]
  BY <1>6 DEF GoogleCallback
<1>8. Grow
  BY <1>6 DEF Grow, Made
<1>9. Known(users', IF AssertActive(users', u) THEN AJob("issue", u) ELSE NoJob)
  <2>1. CASE AssertActive(users', u)
    BY <1>1, <2>1, AJobKnown DEF AssertActive, Made
  <2>2. CASE ~AssertActive(users', u)
    BY <2>2, NoJobKnown
  <2> QED
    BY <2>1, <2>2
<1>10. KeepsJobs
  BY <1>3, <1>8, <1>9, ArriveKeeps
<1>11. \A v \in Users : users'[v].deactivated => Made(users, v)
  BY <1>6 DEF IInv, PeopleOK
<1> QED
  BY <1>2, <1>4, <1>6, <1>7, <1>10, <1>11, ReturnKeeps, PausedGood

-----------------------------------------------------------------------------
\* New rows: they are the next in number, and nobody's listings are theirs.
LEMMA NewRowsGood ==
    ASSUME IInv, NEW new \in SUBSET Users, users' \in [Users -> User], items' = items,
           \A u \in new : /\ ~Made(users, u) /\ Made(users', u) /\ ~users'[u].deactivated
                          /\ \A v \in Users : v < u => Made(users', v),
           \A u \in Users \ new : /\ users'[u].state = users[u].state
                                  /\ users'[u].deactivated <=> users[u].deactivated,
           \A u \in Users : \/ users'[u].linked \in {None, users[u].linked}
                             \/ Made(users', users'[u].linked),
           RestTyped, KeepsJobs
    PROVE  Good
<1>1. TypeOK'
  BY DEF IInv, KeepsJobs, RestTyped, TypeOK
<1>2. \A u \in Users : /\ Made(users, u) => Made(users', u) /\ u \notin new
                       /\ Made(users', u) => Made(users, u) \/ u \in new
  BY DEF Made
<1>3. PeopleOK'
  <2>1. \A u \in Users : ~Made(users', u) => ~users'[u].deactivated
    BY <1>2 DEF IInv, PeopleOK
  <2>2. \A u \in Users : users'[u].linked # None => Made(users', users'[u].linked)
    <3>1. \A u \in Users : users[u].linked \in {None} \cup Users
      BY DEF IInv, TypeOK, User
    <3> QED
      BY <1>2, <3>1 DEF IInv, PeopleOK
  <2>3. \A u, v \in Users : u < v /\ Made(users', v) => Made(users', u)
    BY <1>2 DEF IInv, PeopleOK
  <2> QED
    BY <2>1, <2>2, <2>3 DEF PeopleOK
<1>4. HoldsOwned'
  BY <1>2 DEF IInv, HoldsOwned, PeopleOK
<1>5. JobsKnown' /\ AdminHoldSurvives
  BY DEF KeepsJobs, JobsKnown, AdminHoldSurvives
<1> QED
  BY <1>1, <1>3, <1>4, <1>5 DEF Good, IInv

LEMMA FirstFresh ==
    ASSUME IInv, Fresh # {}
    PROVE  /\ Min(Fresh) \in Users /\ ~Made(users, Min(Fresh))
           /\ \A u \in Users : IF u < Min(Fresh) THEN Made(users, u) ELSE ~Made(users, u)
<1>1. Fresh \subseteq Users
  BY DEF Fresh
<1>2. Min(Fresh) \in Fresh /\ \A u \in Fresh : Min(Fresh) <= u
  BY <1>1, MinIn
<1> DEFINE first == Min(Fresh)
<1>3. first \in Users /\ ~Made(users, first) /\ \A u \in Users : ~Made(users, u) => first <= u
  BY <1>2 DEF Fresh, Exists, Made
<1> HIDE DEF first
<1>4. \A u \in Users : u < first => Made(users, u)
  BY <1>3, AccountAssumption DEF Users
<1>5. \A u \in Users : ~(u < first) => ~Made(users, u)
  <2> TAKE u \in Users
  <2>1. ~(u < first) => u = first \/ first < u
    BY <1>3, AccountAssumption DEF Users
  <2> QED
    BY <1>3, <2>1 DEF IInv, PeopleOK
<1> QED
  BY <1>3, <1>4, <1>5 DEF first

LEMMA FreshFinite == IsFiniteSet(Fresh) /\ Cardinality(Fresh) \in Nat
<1>1. IsFiniteSet(Users) /\ Fresh \in SUBSET Users
  BY FS_Interval, AccountAssumption DEF Users, Fresh
<1> QED
  BY <1>1, FS_Subset, FS_CardinalityType

LEMMA TwoRoles == IsFiniteSet(Roles) /\ Cardinality(Roles) = 2
<1>1. IsFiniteSet({"business"}) /\ Cardinality({"business"}) = 1 /\ "owner" \notin {"business"}
  BY FS_Singleton
<1>2. Roles = {"business"} \cup {"owner"}
  BY DEF Roles
<1> QED
  BY <1>1, <1>2, FS_AddElement

LEMMA RoomForOne ==
    ASSUME NEW roles \in SUBSET Roles, roles # {}, Cardinality(Fresh) >= Cardinality(roles)
    PROVE  Fresh # {}
<1>1. IsFiniteSet(Roles)
  BY TwoRoles
<1>2. IsFiniteSet(roles) /\ Cardinality(roles) \in Nat
  BY <1>1, FS_Subset, FS_CardinalityType
<1>3. Cardinality(roles) # 0
  BY <1>2, FS_EmptySet
<1> QED
  BY <1>2, <1>3, FS_EmptySet, FreshFinite

LEMMA RoomForTwo ==
    ASSUME IInv, Cardinality(Fresh) >= Cardinality(Roles), Fresh # {}
    PROVE  Min(Fresh) + 1 \in Users
<1> DEFINE first == Min(Fresh)
<1>1. first \in Users /\ \A u \in Users : u < first => Made(users, u)
  BY FirstFresh
<1>2. Cardinality(Fresh) \in Nat /\ Cardinality(Fresh) >= 2
  BY TwoRoles, FreshFinite
<1>3. IsFiniteSet({first}) /\ Cardinality({first}) = 1
  BY FS_Singleton
<1> HIDE DEF first
<1>4. SUFFICES ASSUME first + 1 \notin Users PROVE Fresh \in SUBSET {first}
  <2>1. Fresh \in SUBSET {first} => Cardinality(Fresh) <= 1
    BY <1>3, FS_Subset
  <2> QED
    BY <1>2, <2>1 DEF first
<1>5. \A u \in Users : u = first \/ u < first
  BY <1>1, <1>4, AccountAssumption DEF Users
<1>6. \A u \in Fresh : u \in Users /\ ~Made(users, u)
  BY DEF Fresh, Exists, Made
<1> QED
  BY <1>1, <1>5, <1>6

LEMMA InsertGood ==
    ASSUME IInv, NEW r \in Requests, Insert(r) PROVE Good
<1> DEFINE job == jobs[r]
           first == Min(Fresh)
           signing == job.at = "signing"
           next == AJob(IF signing THEN "mailing" ELSE "issue", first)
<1>1. job \in Job /\ job.roles \in SUBSET Roles /\ job.roles # {}
  BY DEF IInv, JobsKnown, Known, Job, Insert
<1>2. Fresh # {}
  BY <1>1, RoomForOne DEF Insert
<1>3. CASE GoOn(r, NoJob) /\ UNCHANGED <<users, google, pending>>
  <2>1. users' = users /\ items' = items /\ RestTyped
    BY <1>3, RestSame DEF Insert, RestTyped
  <2> QED
    BY <1>3, <2>1, SameRows, NoJobKnown, GoOnKeeps, QuietGood
<1>4. CASE /\ CreateRows(first, first + 1, job.roles, ~signing)
           /\ google' = IF signing THEN google ELSE first
           /\ pending' = (pending /\ signing)
           /\ GoOn(r, next)
  <2>1. /\ first \in Users /\ ~Made(users, first)
        /\ \A u \in Users : IF u < first THEN Made(users, u) ELSE ~Made(users, u)
    BY <1>2, FirstFresh
  <2>2. job.roles = Roles => first + 1 \in Users
    BY <1>2, RoomForTwo DEF Insert
  <2>3. RestTyped /\ items' = items
    BY <1>4, <2>1, RestSame DEF Insert, RestTyped
  <2>4. PICK verified \in BOOLEAN : CreateRows(first, first + 1, job.roles, verified)
    BY <1>4
  <2> DEFINE new == IF job.roles = Roles THEN {first, first + 1} ELSE {first}
             role == IF "business" \in job.roles THEN "business" ELSE "owner"
             linked == IF job.roles = Roles THEN first + 1 ELSE None
             one == [NoUser EXCEPT !.state = "live", !.verified = verified, !.role = role,
                                   !.linked = linked]
             two == [NoUser EXCEPT !.state = "live", !.verified = verified, !.role = "owner",
                                   !.linked = first]
  <2>5. role \in Roles /\ linked \in {None} \cup Users
    BY <2>2 DEF Roles
  <2>6. users' = [u \in Users |-> IF u = first THEN one
                                  ELSE IF u = first + 1 /\ job.roles = Roles THEN two ELSE users[u]]
    BY <2>4 DEF CreateRows
  <2>7. GoOn(r, next)
    BY <1>4
  <2>8. new \in SUBSET Users /\ first \in new /\ linked \in {None} \cup new
        /\ (job.roles = Roles <=> first + 1 \in new)
    BY <2>1, <2>2, AccountAssumption DEF Users
  <2>9. \A u \in new : u = first \/ (u = first + 1 /\ job.roles = Roles)
    OBVIOUS
  <2>10. NoUser \in User
    BY NoJobKnown
  <2> HIDE DEF role, linked, first, new
  <2>11. /\ one \in User /\ one.state = "live" /\ one.deactivated = FALSE /\ one.linked = linked
         /\ two \in User /\ two.state = "live" /\ two.deactivated = FALSE /\ two.linked = first
    BY <2>1, <2>5, <2>10 DEF User, NoUser, Roles
  <2> HIDE DEF one, two
  <2>12. /\ users'[first] = one
         /\ \A u \in Users : u \notin new => users'[u] = users[u]
         /\ \A u \in new : u # first => users'[u] = two
    BY <2>1, <2>6, <2>8, <2>9, AccountAssumption DEF Users
  <2>13. users' \in [Users -> User]
    BY <2>6, <2>11 DEF IInv, TypeOK
  <2>14. \A u \in new : Made(users', u) /\ ~users'[u].deactivated /\ users'[u].linked \in {None} \cup new
    BY <2>8, <2>11, <2>12 DEF Made
  <2>15. \A u \in new : ~Made(users, u) /\ \A v \in Users : v < u => Made(users', v)
    <3>1. \A u \in new : ~(u < first)
      BY <2>1, <2>9, AccountAssumption DEF Users
    <3>2. \A u \in new : \A v \in Users : v < u => v = first \/ v < first
      BY <2>1, <2>9, AccountAssumption DEF Users
    <3>3. \A v \in Users : v < first => Made(users', v)
      BY <2>1, <2>12, <3>1 DEF Made
    <3> QED
      BY <2>1, <2>8, <2>14, <3>1, <3>2, <3>3
  <2>16. Grow
    BY <2>12, <2>15 DEF Grow, Made
  <2>17. Known(users', next)
    BY <2>1, <2>8, <2>14, AJobKnown
  <2>18. KeepsJobs
    BY <2>7, <2>16, <2>17, GoOnKeeps
  <2>19. \A u \in Users : \/ users'[u].linked \in {None, users[u].linked}
                            \/ Made(users', users'[u].linked)
    BY <2>12, <2>14
  <2> QED
    BY <2>3, <2>8, <2>12, <2>13, <2>14, <2>15, <2>18, <2>19, NewRowsGood
<1> QED
  BY <1>3, <1>4 DEF Insert

LEMMA InsertLinkedGood ==
    ASSUME IInv, NEW r \in Requests, InsertLinked(r) PROVE Good
<1> DEFINE u == jobs[r].user
           role == CHOOSE other \in Roles : other # users[u].role
           second == Min(Fresh)
           next == [AJob("issue", second) EXCEPT !.other = u]
<1>1. u \in Users /\ Made(users, u)
  BY JobFacts DEF InsertLinked
<1>2. RestTyped /\ items' = items
  BY RestSame DEF InsertLinked, RestTyped
<1>3. CASE GoOn(r, NoJob) /\ users' = users
  BY <1>2, <1>3, SameRows, NoJobKnown, GoOnKeeps, QuietGood
<1>4. CASE /\ users' = [users EXCEPT ![u].linked = second,
                            ![second] = [NoUser EXCEPT !.state = "live", !.role = role,
                                                       !.verified = TRUE, !.linked = u]]
           /\ GoOn(r, next)
  <2>1. /\ second \in Users /\ ~Made(users, second)
        /\ \A v \in Users : v < second => Made(users, v)
    BY FirstFresh DEF InsertLinked
  <2>2. role \in Roles
    <3>1. \E other \in Roles : other # users[u].role
      BY DEF Roles
    <3> QED
      BY <3>1
  <2> DEFINE row == [NoUser EXCEPT !.state = "live", !.role = role, !.verified = TRUE, !.linked = u]
  <2>3. GoOn(r, next) /\ users' = [users EXCEPT ![u].linked = second, ![second] = row]
    BY <1>4
  <2>4. NoUser \in User /\ users \in [Users -> User]
    BY NoJobKnown DEF IInv, TypeOK
  <2> HIDE DEF second, role, u
  <2>5. row \in User /\ row.state = "live" /\ row.deactivated = FALSE /\ row.linked = u
    BY <1>1, <2>2, <2>4 DEF User, NoUser
  <2> HIDE DEF row
  <2>6. u # second
    BY <1>1, <2>1
  <2>7. /\ users'[second] = row
        /\ users'[u] = [users[u] EXCEPT !.linked = second]
        /\ \A v \in Users \ {u, second} : users'[v] = users[v]
    BY <1>1, <2>1, <2>3, <2>4, <2>6
  <2>8. LET linked == [users[u] EXCEPT !.linked = second]
        IN  /\ linked \in User /\ linked.state = users[u].state
            /\ linked.deactivated = users[u].deactivated /\ linked.linked = second
    BY <1>1, <2>1, <2>4 DEF User
  <2>9. users' \in [Users -> User]
    BY <1>1, <2>1, <2>3, <2>4, <2>5, <2>7, <2>8
  <2>10. \A v \in Users : v # second => /\ users'[v].state = users[v].state
                                        /\ users'[v].deactivated <=> users[v].deactivated
                                        /\ users'[v].linked \in {users[v].linked, second}
    BY <2>7, <2>8
  <2>11. Grow
    BY <2>1, <2>10 DEF Grow, Made
  <2>12. Made(users', second) /\ ~users'[second].deactivated /\ users'[second].linked = u
    BY <2>5, <2>7 DEF Made
  <2>13. Known(users', next)
    BY <1>1, <2>1, <2>12, AJobKnown
  <2>14. KeepsJobs
    BY <2>3, <2>11, <2>13, GoOnKeeps
  <2>15. Made(users', u) /\ \A v \in Users : v < second => Made(users', v)
    BY <1>1, <2>1, <2>11 DEF Grow
  <2>16. {second} \in SUBSET Users /\ \A v \in Users \ {second} : v # second
    BY <2>1
  <2> DEFINE new == {second}
  <2>17. \A v \in new : /\ ~Made(users, v) /\ Made(users', v) /\ ~users'[v].deactivated
                        /\ \A w \in Users : w < v => Made(users', w)
    BY <2>1, <2>12, <2>15
  <2>18. \A v \in Users \ new : /\ users'[v].state = users[v].state
                                /\ users'[v].deactivated <=> users[v].deactivated
    BY <2>10
  <2>19. \A v \in Users : \/ users'[v].linked \in {None, users[v].linked}
                            \/ Made(users', users'[v].linked)
    BY <2>10, <2>12, <2>15
  <2> QED
    BY <1>2, <2>9, <2>14, <2>16, <2>17, <2>18, <2>19, NewRowsGood
<1> QED
  BY <1>3, <1>4 DEF InsertLinked

-----------------------------------------------------------------------------
LEMMA NextGood == IInv /\ [Next]_vars => Good
<1> SUFFICES ASSUME IInv, [Next]_vars PROVE Good
  OBVIOUS
<1>1. ASSUME NEW r \in Requests, Resume(r) PROVE Good
  BY <1>1, InsertGood, InsertLinkedGood, DeactivateLinkedGood, DeleteLinkedGood, LaterGood,
     RevokeBannedGood, BanLinkedGood, UnbanLinkedGood, InsertItemGood DEF Resume
<1>2. ASSUME NEW r \in Requests, ByVisitor(r) PROVE Good
  BY <1>2, SignupGood, VisitGood, LoginGood, GoogleCallbackGood DEF ByVisitor
<1>3. ASSUME NEW r \in Requests, ByUser(r) PROVE Good
  BY <1>3, VerifyEmailGood, AskGood, LogoutGood, DeactivateGood, DeleteGood DEF ByUser
<1>4. ASSUME NEW r \in Requests, ByAdmin(r) PROVE Good
  BY <1>4, DeleteGood, AdminMarkGood DEF ByAdmin
<1>5. ASSUME NEW r \in Requests, OnItem(r) PROVE Good
  BY <1>5, OnItemGood DEF OnItem
<1>6. CASE Next
  <2>1. CASE \E r \in Requests :
            Resume(r) \/ ByVisitor(r) \/ ByUser(r) \/ ByAdmin(r) \/ OnItem(r)
    BY <2>1, <1>1, <1>2, <1>3, <1>4, <1>5
  <2>2. CASE Elapse \/ QueryDue \/ ClearSuspension \/ Die
    BY <2>2, ElapseGood, QueryGood, ClearGood, DieGood
  <2> QED
    BY <1>6, <2>1, <2>2 DEF Next
<1>7. CASE UNCHANGED vars
  <2>1. users' = users /\ items' = items /\ RestTyped
    BY <1>7, RestSame DEF vars, accountVars, RestTyped
  <2>2. KeepsJobs
    BY <1>7, <2>1, SameRows, SameJobs DEF vars, IInv, TypeOK
  <2> QED
    BY <2>1, <2>2, QuietGood
<1> QED
  BY <1>6, <1>7

\* The inductive invariant: rows are numbered as they are made, what a request
\* carries is a row that exists, and an owner's hold is on the listing of a row
\* that exists and is paused.
THEOREM AccountInvariance == Spec => []IInv
<1>1. IInv /\ [Next]_vars => IInv'
  BY NextGood DEF Good
<1> QED
  BY <1>1, InitGood, PTL DEF Spec

\* Every reachable state is well typed, however many identities, listings,
\* requests and deaths there are.
THEOREM AccountTypes == Spec => []TypeOK
<1>1. IInv => TypeOK
  BY DEF IInv
<1> QED
  BY <1>1, AccountInvariance, PTL

\* A listing its owner's pause hid shows again the moment the owner is back,
\* and no pause or return touches a hold a Super-Admin put on a listing,
\* whatever requests overlap or die.
THEOREM HoldsKept == Spec => HoldsAreKeptApart
<1>1. IInv /\ [Next]_vars => [OwnerHoldEndsOnReturn' /\ AdminHoldSurvives]_vars
  <2>1. IInv' => OwnerHoldEndsOnReturn'
    BY DEF IInv, HoldsOwned, OwnerHoldEndsOnReturn
  <2> QED
    BY <2>1, NextGood DEF Good
<1> QED
  BY <1>1, AccountInvariance, PTL DEF Spec, HoldsAreKeptApart

-----------------------------------------------------------------------------
\* The identities us and the sessions ss while one request has come this far:
\* one person, whose two identities are alike but for what the request has
\* done to one of them so far, and signed in where they may be.
OnePerson(us) ==
    \A u, v \in Users : us[u].state = "live" /\ us[v].state = "live" /\ u # v => us[u].linked = v

HalfDone(job, ats, u, v) == job.at \in ats /\ job.user \in {u, v}

Together(job, us) ==
    \A u, v \in Users : us[u].linked = v =>
        /\ us[v].linked = u
        /\ us[u].state = us[v].state \/ HalfDone(job, {"deleting"}, u, v)
        /\ (us[u].banned <=> us[v].banned)
               \/ HalfDone(job, {"banning", "banned", "unbanning"}, u, v)
        /\ (us[u].deactivated <=> us[v].deactivated) \/ HalfDone(job, {"deactivating"}, u, v)

SignedIn(job, us, ss) ==
    \A u \in ss : \/ AssertActive(us, u)
                  \/ job.at \in {"suspending", "banning"} /\ job.user = u
                  \/ job.at = "banningLinked" /\ job.other = u

Progress(job, us) ==
    /\ job.at \in {"issue", "linking"} => AssertActive(us, job.user)
    /\ job.at = "linking" => us[job.user].linked = None
    /\ job.at \in {"signing", "completing"} => \A u \in Users : us[u].state # "live"
    /\ job.at = "deleting" => us[job.user].state = "deleted"
    /\ job.at = "deactivating" => us[job.user].deactivated
    /\ job.at \in {"banning", "banned"} =>
          us[job.user].banned /\ job.other = us[job.user].linked
    /\ job.at = "unbanning" => ~us[job.user].banned

Settled(job, us, ss) ==
    OnePerson(us) /\ Together(job, us) /\ SignedIn(job, us, ss) /\ Progress(job, us)

\* While all is calm, one request is under way.
OneJob == \A q, r \in Requests : jobs[q].at # "idle" /\ jobs[r].at # "idle" => q = r
Ordered ==
    calm => /\ OneJob
            /\ (\A r \in Requests : jobs[r].at = "idle") => Settled(NoJob, users, sessions)
            /\ \A r \in Requests : jobs[r].at # "idle" => Settled(jobs[r], users, sessions)

-----------------------------------------------------------------------------
\* At these stages a request has left nothing half done.
Plain == {"idle", "mailing", "creating", "deleted", "blocking", "unblocking"}

LEMMA FromPlain ==
    ASSUME NEW us, NEW ss, NEW ss2 \in SUBSET ss, NEW job, job.at \in Plain \cup {"issue", "linking"},
           Settled(job, us, ss), NEW next, Progress(next, us)
    PROVE  Settled(next, us, ss2)
<1>1. Together(next, us)
  BY DEF Settled, Together, HalfDone, Plain
<1>2. SignedIn(next, us, ss2)
  BY DEF Settled, SignedIn, Plain
<1> QED
  BY <1>1, <1>2 DEF Settled

LEMMA PlainProgress ==
    ASSUME NEW us, NEW job, job.at \in Plain PROVE Progress(job, us)
  BY DEF Plain, Progress

LEMMA NoJobPlain == NoJob.at = "idle" /\ NoJob.at \in Plain
  BY DEF NoJob, Plain

LEMMA AJobFields ==
    ASSUME NEW at, NEW u, NEW other, NEW roles
    PROVE  /\ AJob(at, u).at = at /\ AJob(at, u).user = u
           /\ [AJob(at, u) EXCEPT !.other = other].at = at
           /\ [AJob(at, u) EXCEPT !.other = other].user = u
           /\ [AJob(at, u) EXCEPT !.other = other].other = other
           /\ [AJob(at, u) EXCEPT !.roles = roles].at = at
  BY DEF AJob, NoJob

\* A step that only makes standings better leaves all in order.
LEMMA Better ==
    ASSUME NEW us, NEW us2, NEW ss \in SUBSET Users, NEW ss2 \in SUBSET ss, NEW job,
           Settled(job, us, ss), job.at \notin {"idle", "signing", "completing"} => job.user \in Users,
           \A u \in Users : /\ us2[u].state = us[u].state /\ us2[u].linked = us[u].linked
                            /\ us2[u].banned <=> us[u].banned
                            /\ us2[u].deactivated <=> us[u].deactivated
                            /\ AssertActive(us, u) => AssertActive(us2, u)
    PROVE  Settled(job, us2, ss2)
<1>1. OnePerson(us2)
  BY DEF Settled, OnePerson
<1>2. Together(job, us2)
  BY DEF Settled, Together
<1>3. SignedIn(job, us2, ss2)
  BY DEF Settled, SignedIn
<1>4. Progress(job, us2)
  BY DEF Settled, Progress
<1> QED
  BY <1>1, <1>2, <1>3, <1>4 DEF Settled

\* A request marks one identity, before it comes to the other.
LEMMA StartMark ==
    ASSUME NEW us, NEW us2, NEW ss \in SUBSET Users, NEW ss2 \in SUBSET ss, NEW job, NEW u \in Users,
           Settled(NoJob, us, ss), Progress(job, us2), job.user = u,
           \A v \in Users : v # u => us2[v] = us[v],
           us2[u].linked = us[u].linked,
           us2[u].state = us[u].state \/ (job.at = "deleting" /\ us2[u].state # "live"),
           (us2[u].banned <=> us[u].banned) \/ job.at \in {"banning", "unbanning"},
           (us2[u].deactivated <=> us[u].deactivated) \/ job.at = "deactivating",
           u \in ss2 => \/ job.at \in {"suspending", "banning"}
                        \/ AssertActive(us, u) => AssertActive(us2, u)
    PROVE  Settled(job, us2, ss2)
<1>1. OnePerson(us2)
  BY DEF Settled, OnePerson
<1>2. Together(job, us2)
  <2> SUFFICES ASSUME NEW v \in Users, NEW w \in Users, us2[v].linked = w
               PROVE  /\ us2[w].linked = v
                      /\ us2[v].state = us2[w].state \/ HalfDone(job, {"deleting"}, v, w)
                      /\ (us2[v].banned <=> us2[w].banned)
                             \/ HalfDone(job, {"banning", "banned", "unbanning"}, v, w)
                      /\ (us2[v].deactivated <=> us2[w].deactivated)
                             \/ HalfDone(job, {"deactivating"}, v, w)
    BY DEF Together
  <2>1. us[v].linked = w
    OBVIOUS
  <2>2. /\ us[w].linked = v /\ us[v].state = us[w].state
        /\ us[v].banned <=> us[w].banned
        /\ us[v].deactivated <=> us[w].deactivated
    BY <2>1, NoJobPlain DEF Settled, Together, HalfDone
  <2>3. CASE u \in {v, w}
    BY <2>2, <2>3 DEF HalfDone
  <2>4. CASE u \notin {v, w}
    BY <2>2, <2>4
  <2> QED
    BY <2>3, <2>4
<1>3. SignedIn(job, us2, ss2)
  <2>1. \A v \in ss2 : AssertActive(us, v)
    BY NoJobPlain DEF Settled, SignedIn
  <2>2. \A v \in ss2 : v # u => AssertActive(us2, v)
    BY <2>1 DEF AssertActive
  <2> QED
    BY <2>1, <2>2 DEF SignedIn
<1> QED
  BY <1>1, <1>2, <1>3 DEF Settled

\* A request has done to the other identity what it did to the first.
LEMMA PairDone ==
    ASSUME NEW us, NEW us2, NEW job, NEW u \in Users, NEW v \in {None} \cup Users,
           OnePerson(us), Together(job, us), job.user = u, us[u].linked = v,
           \A w \in Users : w # v => us2[w] = us[w],
           v \in Users => /\ us2[v].linked = us[v].linked
                          /\ us2[v].state = "live" => us[v].state = "live"
                          /\ us2[v].state = us2[u].state
                          /\ us2[v].banned <=> us2[u].banned
                          /\ us2[v].deactivated <=> us2[u].deactivated,
           NEW next
    PROVE  OnePerson(us2) /\ Together(next, us2)
<1>1. OnePerson(us2)
  BY DEF OnePerson
<1>2. \A w, x \in Users : us2[w].linked = x =>
          /\ us2[x].linked = w /\ us2[w].state = us2[x].state
          /\ us2[w].banned <=> us2[x].banned
          /\ us2[w].deactivated <=> us2[x].deactivated
  <2> SUFFICES ASSUME NEW w \in Users, NEW x \in Users, us2[w].linked = x
               PROVE  /\ us2[x].linked = w /\ us2[w].state = us2[x].state
                      /\ us2[w].banned <=> us2[x].banned
                      /\ us2[w].deactivated <=> us2[x].deactivated
    OBVIOUS
  <2>1. us[w].linked = x /\ us[x].linked = w
    BY DEF Together
  <2>2. CASE u \in {w, x}
    <3>1. v \in Users /\ {w, x} = {u, v}
      BY <2>1, <2>2
    <3> QED
      BY <2>1, <2>2, <3>1
  <2>3. CASE u \notin {w, x}
    <3>1. w # v /\ x # v
      BY <2>1, <2>3, AccountAssumption DEF Together, Users
    <3> QED
      BY <2>1, <2>3, <3>1 DEF Together, HalfDone
  <2> QED
    BY <2>2, <2>3
<1>3. Together(next, us2)
  BY <1>2 DEF Together
<1> QED
  BY <1>1, <1>3

-----------------------------------------------------------------------------
\* What a request finds when all is calm, and when it leaves all in order.
Finds(job, next) == calm /\ Settled(job, users, sessions) => Settled(next, users', sessions')

LEMMA Alone ==
    ASSUME TypeOK, NEW r \in Requests, NEW next, jobs' = [jobs EXCEPT ![r] = next],
           calm' => /\ \A q \in Requests : q # r => jobs[q].at = "idle"
                    /\ Settled(next, users', sessions')
    PROVE  Ordered'
<1> SUFFICES ASSUME calm' PROVE /\ OneJob'
                                /\ (\A q \in Requests : jobs'[q].at = "idle") => Settled(NoJob, users', sessions')
                                /\ \A q \in Requests : jobs'[q].at # "idle" => Settled(jobs'[q], users', sessions')
  BY DEF Ordered
<1>1. jobs'[r] = next /\ \A q \in Requests : q # r => jobs'[q].at = "idle"
  BY DEF TypeOK
<1>2. next.at = "idle" => Settled(NoJob, users', sessions')
  <2>1. Progress(NoJob, users')
    BY NoJobPlain, PlainProgress
  <2> QED
    BY <2>1, FromPlain DEF Plain
<1> QED
  BY <1>1, <1>2 DEF OneJob

LEMMA Arrived ==
    ASSUME TypeOK, Ordered, NEW r \in Requests, NEW next, Arrive(r, next), Finds(NoJob, next)
    PROVE  Ordered'
<1>1. jobs' = [jobs EXCEPT ![r] = next]
  BY DEF Arrive
<1>2. ASSUME calm' PROVE /\ \A q \in Requests : q # r => jobs[q].at = "idle"
                         /\ Settled(next, users', sessions')
  <2>1. calm /\ \A q \in Requests : jobs[q] = NoJob
    BY <1>2 DEF Arrive
  <2>2. \A q \in Requests : jobs[q].at = "idle"
    BY <2>1, NoJobPlain
  <2> QED
    BY <2>1, <2>2 DEF Ordered, Finds
<1> QED
  BY <1>1, <1>2, Alone

LEMMA WentOn ==
    ASSUME TypeOK, Ordered, NEW r \in Requests, NEW next, GoOn(r, next), jobs[r].at # "idle",
           Finds(jobs[r], next)
    PROVE  Ordered'
<1>1. jobs' = [jobs EXCEPT ![r] = next]
  BY DEF GoOn
<1>2. ASSUME calm' PROVE /\ \A q \in Requests : q # r => jobs[q].at = "idle"
                         /\ Settled(next, users', sessions')
  <2>1. calm
    BY <1>2 DEF GoOn
  <2> QED
    BY <2>1 DEF Ordered, OneJob, Finds
<1> QED
  BY <1>1, <1>2, Alone

LEMMA InitOrdered == Init => Ordered
<1> SUFFICES ASSUME Init PROVE Ordered
  OBVIOUS
<1>1. \A r \in Requests : jobs[r].at = "idle"
  BY NoJobPlain DEF Init
<1>2. Progress(NoJob, users)
  BY NoJobPlain, PlainProgress
<1>3. CASE users = [u \in Users |-> NoUser] /\ sessions = {}
  <2>1. \A u \in Users : users[u].state # "live" /\ users[u].linked \notin Users
    BY <1>3, AccountAssumption DEF NoUser, Users
  <2>2. Settled(NoJob, users, sessions)
    BY <1>2, <1>3, <2>1 DEF Settled, OnePerson, Together, SignedIn
  <2> QED
    BY <1>1, <2>2 DEF Ordered, OneJob
<1>4. CASE /\ {1, 2} \subseteq Users /\ sessions = {1}
           /\ users = [u \in Users |-> IF u \in {1, 2} THEN Person(u) ELSE NoUser]
  <2>1. /\ Person(1).linked = 2 /\ Person(2).linked = 1
        /\ \A u \in {1, 2} : /\ Person(u).state = "live" /\ Person(u).verified = TRUE
                             /\ Person(u).banned = FALSE /\ Person(u).deactivated = FALSE
                             /\ Person(u).suspended = "no"
    BY DEF Person, NoUser
  <2>2. NoUser.state # "live" /\ NoUser.linked \notin Users
    BY AccountAssumption DEF NoUser, Users
  <2>3. \A u \in Users : IF u \in {1, 2} THEN users[u] = Person(u) ELSE users[u] = NoUser
    BY <1>4
  <2>4. OnePerson(users)
    BY <2>1, <2>2, <2>3 DEF OnePerson
  <2>5. Together(NoJob, users)
    BY <2>1, <2>2, <2>3 DEF Together
  <2>6. SignedIn(NoJob, users, sessions)
    BY <1>4, <2>1, <2>3 DEF SignedIn, AssertActive
  <2> QED
    BY <1>1, <1>2, <2>4, <2>5, <2>6 DEF Ordered, OneJob, Settled
<1> QED
  BY <1>3, <1>4 DEF Init

\* The steps that leave the rows alone and sign nobody in.
LEMMA NobodyLives ==
    ASSUME FindByEmail = None PROVE \A u \in Users : users[u].state # "live"
<1> DEFINE found == {u \in Users : Live(u)}
<1>1. FindByEmail = IF found = {} THEN None ELSE Min(found)
  BY DEF FindByEmail
<1>2. found # {} => Min(found) \in Users
  BY MinIn
<1>3. found = {}
  BY <1>1, <1>2, AccountAssumption DEF Users
<1> QED
  BY <1>3 DEF Live

LEMMA AskOrdered ==
    ASSUME IInv, Ordered, NEW r \in Requests, NEW next, Arrive(r, next), users' = users,
           sessions' \subseteq sessions, Progress(next, users)
    PROVE  Ordered'
<1>1. Finds(NoJob, next)
  BY NoJobPlain, FromPlain DEF Finds
<1> QED
  BY <1>1, Arrived DEF IInv

LEMMA NoProgress == Progress(NoJob, users)
  BY NoJobPlain, PlainProgress

LEMMA VisitorOrdered ==
    ASSUME IInv, Ordered, NEW r \in Requests, NEW roles,
           \/ Signup(r, roles) \/ CompleteGoogleSignup(r, roles)
           \/ ResendVerification(r) \/ GoogleNewcomer(r) \/ ResetPassword(r)
    PROVE  Ordered'
<1>1. users' = users /\ sessions' \subseteq sessions
  BY DEF Signup, CompleteGoogleSignup, ResendVerification, GoogleNewcomer, ResetPassword, accountVars
<1>2. CASE Arrive(r, NoJob)
  BY <1>1, <1>2, NoProgress, AskOrdered
<1>3. CASE FindByEmail = None /\ \E at \in {"signing", "completing"} :
             Arrive(r, [AJob(at, None) EXCEPT !.roles = roles])
  <2>1. PICK at \in {"signing", "completing"} : Arrive(r, [AJob(at, None) EXCEPT !.roles = roles])
    BY <1>3
  <2> DEFINE next == [AJob(at, None) EXCEPT !.roles = roles]
  <2>2. next.at = at
    BY AJobFields
  <2>3. Arrive(r, next)
    BY <2>1
  <2> HIDE DEF next
  <2>4. Progress(next, users)
    BY <1>3, <2>2, NobodyLives DEF Progress
  <2> QED
    BY <1>1, <2>3, <2>4, AskOrdered
<1> QED
  BY <1>2, <1>3 DEF Signup, CompleteGoogleSignup, ResendVerification, GoogleNewcomer, ResetPassword

LEMMA UserOrdered ==
    ASSUME IInv, Ordered, NEW r \in Requests, NEW u \in Users,
           SwitchAccount(r, u) \/ LinkProfile(r, u) \/ Logout(r, u) \/ CreateItem(r, u)
    PROVE  Ordered'
<1>1. users' = users /\ sessions' \subseteq sessions
  BY DEF SwitchAccount, LinkProfile, Logout, CreateItem, accountVars
<1>2. CASE SwitchAccount(r, u)
  <2> DEFINE next == [AJob("issue", Linked(u)) EXCEPT !.other = u]
  <2>1. next.at = "issue" /\ next.user = Linked(u) /\ Arrive(r, next)
    BY <1>2, AJobFields DEF SwitchAccount
  <2> HIDE DEF next
  <2>2. Progress(next, users)
    BY <1>2, <2>1 DEF Progress, SwitchAccount
  <2> QED
    BY <1>1, <2>1, <2>2, AskOrdered
<1>3. CASE LinkProfile(r, u)
  <2> DEFINE next == AJob("linking", u)
  <2>1. next.at = "linking" /\ next.user = u /\ Arrive(r, next)
    BY <1>3, AJobFields DEF LinkProfile
  <2> HIDE DEF next
  <2>2. Progress(next, users)
    BY <1>3, <2>1, LinkedFacts DEF Progress, LinkProfile, CurrentUser
  <2> QED
    BY <1>1, <2>1, <2>2, AskOrdered
<1>4. CASE Logout(r, u)
  BY <1>1, <1>4, NoProgress, AskOrdered DEF Logout
<1>5. CASE CreateItem(r, u)
  <2> DEFINE next == AJob("creating", u)
  <2>1. next.at = "creating" /\ Arrive(r, next)
    BY <1>5, AJobFields DEF CreateItem
  <2> HIDE DEF next
  <2>2. Progress(next, users)
    BY <2>1, PlainProgress DEF Plain
  <2> QED
    BY <1>1, <2>1, <2>2, AskOrdered
<1> QED
  BY <1>2, <1>3, <1>4, <1>5

LEMMA OnItemOrdered ==
    ASSUME IInv, Ordered, NEW r \in Requests, OnItem(r) PROVE Ordered'
<1>1. users' = users /\ sessions' = sessions /\ Arrive(r, NoJob)
  BY DEF OnItem, RemoveItem, SuspendItem, UnsuspendItem, AdminRemoveItem
<1> QED
  BY <1>1, NoProgress, AskOrdered

\* The last steps, which leave the rows alone.
LEMMA LastOrdered ==
    ASSUME IInv, Ordered, NEW r \in Requests,
           \/ MailLink(r) \/ RecordDeletion(r) \/ RecordBannedEmail(r)
           \/ ClearBannedEmail(r) \/ InsertItem(r)
    PROVE  Ordered'
<1>1. /\ users' = users /\ sessions' = sessions /\ GoOn(r, NoJob)
      /\ jobs[r].at \in Plain \ {"idle"}
  BY DEF MailLink, RecordDeletion, RecordBannedEmail, ClearBannedEmail, InsertItem, Plain
<1>2. Finds(jobs[r], NoJob)
  BY <1>1, NoProgress, FromPlain DEF Finds
<1> QED
  BY <1>1, <1>2, WentOn DEF IInv

LEMMA IssueOrdered ==
    ASSUME IInv, Ordered, NEW r \in Requests, IssueSession(r) PROVE Ordered'
<1>1. /\ users' = users /\ sessions' \subseteq sessions \cup {jobs[r].user} /\ GoOn(r, NoJob)
      /\ jobs[r].at = "issue"
  BY DEF IssueSession
<1>2. Finds(jobs[r], NoJob)
  <2> SUFFICES ASSUME Settled(jobs[r], users, sessions) PROVE Settled(NoJob, users, sessions')
    BY <1>1 DEF Finds
  <2>1. Settled(NoJob, users, sessions)
    BY <1>1, NoProgress, FromPlain
  <2>2. AssertActive(users, jobs[r].user)
    BY <1>1 DEF Settled, Progress
  <2>3. SignedIn(NoJob, users, sessions')
    BY <1>1, <2>1, <2>2, NoJobPlain DEF Settled, SignedIn
  <2> QED
    BY <2>1, <2>3 DEF Settled
<1> QED
  BY <1>1, <1>2, WentOn DEF IInv

-----------------------------------------------------------------------------
\* The steps that mark one identity.
LEMMA UserFields ==
    ASSUME IInv
    PROVE  /\ users \in [Users -> User] /\ sessions \in SUBSET Users
           /\ \A u \in Users : /\ users[u].banned \in BOOLEAN /\ users[u].deactivated \in BOOLEAN
                               /\ users[u].state \in {"absent", "live", "deleted"}
                               /\ users[u].linked \in {None} \cup Users
  BY DEF IInv, TypeOK, User

LEMMA SuspendOrdered ==
    ASSUME IInv, Ordered, NEW r \in Requests, NEW u \in Users, SuspendUser(r, u) PROVE Ordered'
<1> DEFINE next == AJob("suspending", u)
<1>1. next.at = "suspending" /\ next.user = u /\ Arrive(r, next) /\ sessions' = sessions
  BY AJobFields DEF SuspendUser
<1>2. PICK period \in {"timed", "indefinite"} : users' = [users EXCEPT ![u].suspended = period]
  BY DEF SuspendUser
<1> HIDE DEF next
<1>3. /\ users'[u].linked = users[u].linked /\ users'[u].state = users[u].state
      /\ users'[u].banned <=> users[u].banned
      /\ users'[u].deactivated <=> users[u].deactivated
      /\ \A v \in Users : v # u => users'[v] = users[v]
  BY <1>2, UserFields DEF User
<1>4. Progress(next, users')
  BY <1>1 DEF Progress
<1>5. Finds(NoJob, next)
  BY <1>1, <1>3, <1>4, UserFields, StartMark DEF Finds
<1> QED
  BY <1>1, <1>5, Arrived DEF IInv

LEMMA UnsuspendOrdered ==
    ASSUME IInv, Ordered, NEW r \in Requests, NEW u \in Users, UnsuspendUser(r, u) PROVE Ordered'
<1>1. /\ users' = [users EXCEPT ![u].suspended = "no"] /\ sessions' = sessions
      /\ Arrive(r, NoJob)
  BY DEF UnsuspendUser
<1>2. \A v \in Users : /\ users'[v].state = users[v].state /\ users'[v].linked = users[v].linked
                       /\ users'[v].banned <=> users[v].banned
                       /\ users'[v].deactivated <=> users[v].deactivated
                       /\ AssertActive(users, v) => AssertActive(users', v)
  BY <1>1, UserFields DEF User, AssertActive
<1>3. Finds(NoJob, NoJob)
  BY <1>1, <1>2, UserFields, NoJobPlain, Better DEF Finds
<1> QED
  BY <1>1, <1>3, Arrived DEF IInv

LEMMA BanOrdered ==
    ASSUME IInv, Ordered, NEW r \in Requests, NEW u \in Users, BanUser(r, u) PROVE Ordered'
<1> DEFINE next == [AJob("banning", u) EXCEPT !.other = Linked(u)]
<1>1. /\ next.at = "banning" /\ next.user = u /\ next.other = users[u].linked
      /\ Arrive(r, next) /\ sessions' = sessions
  BY AJobFields, LinkedFacts DEF BanUser
<1>2. users' = [users EXCEPT ![u].banned = TRUE]
  BY DEF BanUser
<1> HIDE DEF next
<1>3. /\ users'[u].banned /\ users'[u].linked = users[u].linked /\ users'[u].state = users[u].state
      /\ users'[u].deactivated <=> users[u].deactivated
      /\ \A v \in Users : v # u => users'[v] = users[v]
  BY <1>2, UserFields DEF User
<1>4. Progress(next, users')
  BY <1>1, <1>3 DEF Progress
<1>5. Finds(NoJob, next)
  BY <1>1, <1>3, <1>4, UserFields, StartMark DEF Finds
<1> QED
  BY <1>1, <1>5, Arrived DEF IInv

LEMMA UnbanOrdered ==
    ASSUME IInv, Ordered, NEW r \in Requests, NEW u \in Users, UnbanUser(r, u) PROVE Ordered'
<1> DEFINE next == AJob("unbanning", u)
<1>1. next.at = "unbanning" /\ next.user = u /\ Arrive(r, next) /\ sessions' = sessions
  BY AJobFields DEF UnbanUser
<1>2. users' = [users EXCEPT ![u].banned = FALSE]
  BY DEF UnbanUser
<1> HIDE DEF next
<1>3. /\ ~users'[u].banned /\ users'[u].linked = users[u].linked /\ users'[u].state = users[u].state
      /\ users'[u].deactivated <=> users[u].deactivated
      /\ AssertActive(users, u) => AssertActive(users', u)
      /\ \A v \in Users : v # u => users'[v] = users[v]
  BY <1>2, UserFields DEF User, AssertActive
<1>4. Progress(next, users')
  BY <1>1, <1>3 DEF Progress
<1>5. Finds(NoJob, next)
  BY <1>1, <1>3, <1>4, UserFields, StartMark DEF Finds
<1> QED
  BY <1>1, <1>5, Arrived DEF IInv

LEMMA DeactivateOrdered ==
    ASSUME IInv, Ordered, NEW r \in Requests, NEW u \in Users, Deactivate(r, u) PROVE Ordered'
<1> DEFINE next == AJob("deactivating", u)
<1>1. /\ next.at = "deactivating" /\ next.user = u /\ Arrive(r, next)
      /\ sessions' = sessions \ {u} /\ users' = [users EXCEPT ![u].deactivated = TRUE]
  BY AJobFields DEF Deactivate, DeactivateUser
<1> HIDE DEF next
<1>2. /\ users'[u].deactivated /\ users'[u].linked = users[u].linked
      /\ users'[u].state = users[u].state /\ (users'[u].banned <=> users[u].banned)
      /\ \A v \in Users : v # u => users'[v] = users[v]
  BY <1>1, UserFields DEF User
<1>3. Progress(next, users')
  BY <1>1, <1>2 DEF Progress
<1>4. sessions' \in SUBSET sessions /\ u \notin sessions'
  BY <1>1
<1>5. Finds(NoJob, next)
  <2> SUFFICES ASSUME Settled(NoJob, users, sessions) PROVE Settled(next, users', sessions')
    BY DEF Finds
  <2>1. next.at = "deactivating" /\ next.user = u /\ sessions \in SUBSET Users
    BY <1>1, UserFields
  <2> QED
    BY <1>2, <1>3, <1>4, <2>1, StartMark
<1> QED
  BY <1>1, <1>5, Arrived DEF IInv

LEMMA DeleteOrdered ==
    ASSUME IInv, Ordered, NEW r \in Requests, NEW u \in Users,
           DeleteMyAccount(r, u) \/ DeleteUser(r, u)
    PROVE  Ordered'
<1> DEFINE next == AJob("deleting", u)
<1>1. /\ next.at = "deleting" /\ next.user = u /\ Arrive(r, next)
      /\ sessions' = sessions \ {u} /\ users' = [users EXCEPT ![u].state = "deleted"]
  BY AJobFields DEF DeleteMyAccount, DeleteUser, AnonymizeUser
<1> HIDE DEF next
<1>2. /\ users'[u].state = "deleted" /\ users'[u].linked = users[u].linked
      /\ users'[u].banned <=> users[u].banned
      /\ users'[u].deactivated <=> users[u].deactivated
      /\ \A v \in Users : v # u => users'[v] = users[v]
  BY <1>1, UserFields DEF User
<1>3. Progress(next, users')
  BY <1>1, <1>2 DEF Progress
<1>4. sessions' \in SUBSET sessions /\ u \notin sessions'
  BY <1>1
<1>5. Finds(NoJob, next)
  <2> SUFFICES ASSUME Settled(NoJob, users, sessions) PROVE Settled(next, users', sessions')
    BY DEF Finds
  <2>1. next.at = "deleting" /\ next.user = u /\ sessions \in SUBSET Users
    BY <1>1, UserFields
  <2> QED
    BY <1>2, <1>3, <1>4, <2>1, StartMark
<1> QED
  BY <1>1, <1>5, Arrived DEF IInv

-----------------------------------------------------------------------------
\* The steps that come to the linked identity.
LEMMA RevokeOrdered ==
    ASSUME IInv, Ordered, NEW r \in Requests, RevokeSessions(r) PROVE Ordered'
<1>1. /\ users' = users /\ sessions' = sessions \ {jobs[r].user} /\ GoOn(r, NoJob)
      /\ jobs[r].at = "suspending"
  BY DEF RevokeSessions
<1>2. Finds(jobs[r], NoJob)
  <2> SUFFICES ASSUME Settled(jobs[r], users, sessions) PROVE Settled(NoJob, users, sessions')
    BY <1>1 DEF Finds
  <2>1. Together(NoJob, users)
    BY <1>1 DEF Settled, Together, HalfDone
  <2>2. SignedIn(NoJob, users, sessions')
    BY <1>1 DEF Settled, SignedIn
  <2> QED
    BY <2>1, <2>2, NoProgress DEF Settled
<1> QED
  BY <1>1, <1>2, WentOn DEF IInv

LEMMA RevokeBannedOrdered ==
    ASSUME IInv, Ordered, NEW r \in Requests, RevokeBanned(r) PROVE Ordered'
<1> DEFINE next(at) == [jobs[r] EXCEPT !.at = at]
<1>1. /\ users' = users /\ jobs[r] \in Job
      /\ \/ /\ jobs[r].at = "banning" /\ sessions' = sessions \ {jobs[r].user}
            /\ GoOn(r, next("banned"))
         \/ /\ jobs[r].at = "banningLinked" /\ sessions' = sessions \ {jobs[r].other}
            /\ GoOn(r, next("blocking"))
  BY JobFacts DEF RevokeBanned
<1>2. \A at : next(at).at = at /\ next(at).user = jobs[r].user /\ next(at).other = jobs[r].other
  BY <1>1 DEF Job
<1> HIDE DEF next
<1>3. CASE /\ jobs[r].at = "banning" /\ sessions' = sessions \ {jobs[r].user}
           /\ GoOn(r, next("banned"))
  <2>1. Finds(jobs[r], next("banned"))
    <3> SUFFICES ASSUME Settled(jobs[r], users, sessions)
                 PROVE  Settled(next("banned"), users, sessions')
      BY <1>1 DEF Finds
    <3>1. Together(next("banned"), users)
      BY <1>2, <1>3 DEF Settled, Together, HalfDone
    <3>2. SignedIn(next("banned"), users, sessions')
      BY <1>2, <1>3 DEF Settled, SignedIn
    <3>3. Progress(next("banned"), users)
      BY <1>2, <1>3 DEF Settled, Progress
    <3> QED
      BY <3>1, <3>2, <3>3 DEF Settled
  <2> QED
    BY <1>3, <2>1, WentOn DEF IInv
<1>4. CASE /\ jobs[r].at = "banningLinked" /\ sessions' = sessions \ {jobs[r].other}
           /\ GoOn(r, next("blocking"))
  <2>1. Finds(jobs[r], next("blocking"))
    <3> SUFFICES ASSUME Settled(jobs[r], users, sessions)
                 PROVE  Settled(next("blocking"), users, sessions')
      BY <1>1 DEF Finds
    <3>1. Together(next("blocking"), users)
      BY <1>2, <1>4 DEF Settled, Together, HalfDone
    <3>2. SignedIn(next("blocking"), users, sessions')
      BY <1>2, <1>4 DEF Settled, SignedIn
    <3>3. Progress(next("blocking"), users)
      BY <1>2, PlainProgress DEF Plain
    <3> QED
      BY <3>1, <3>2, <3>3 DEF Settled
  <2> QED
    BY <1>4, <2>1, WentOn DEF IInv
<1> QED
  BY <1>1, <1>3, <1>4

LEMMA BanLinkedOrdered ==
    ASSUME IInv, Ordered, NEW r \in Requests, BanLinked(r) PROVE Ordered'
<1> DEFINE next(at) == [jobs[r] EXCEPT !.at = at]
           u == jobs[r].user
           v == jobs[r].other
<1>1. jobs[r] \in Job /\ u \in Users /\ v \in {None} \cup Users /\ jobs[r].at = "banned"
  BY JobFacts DEF BanLinked
<1>2. \A at : next(at).at = at /\ next(at).user = u /\ next(at).other = v
  BY <1>1 DEF Job
<1>3. /\ sessions' = sessions
      /\ \/ /\ v # None /\ users' = [users EXCEPT ![v].banned = TRUE]
            /\ GoOn(r, next("banningLinked"))
         \/ (v = None \/ users[v].banned) /\ users' = users /\ GoOn(r, next("blocking"))
  BY DEF BanLinked
<1> HIDE DEF next, u, v
<1>4. ASSUME NEW at, Settled(jobs[r], users, sessions),
             \A w \in Users : w # v => users'[w] = users[w],
             v \in Users => /\ users'[v].linked = users[v].linked
                            /\ users'[v].state = users[v].state /\ users'[v].banned
                            /\ users'[v].deactivated <=> users[v].deactivated
      PROVE  OnePerson(users') /\ Together(next(at), users')
  <2>1. /\ OnePerson(users) /\ Together(jobs[r], users) /\ users[u].linked = v /\ users[u].banned
        /\ jobs[r].user = u
    BY <1>1, <1>4 DEF Settled, Progress, u, v
  <2>2. v \in Users => /\ users[v].linked = u /\ users[v].state = users[u].state
                       /\ users[v].deactivated <=> users[u].deactivated
    BY <1>1, <2>1 DEF Together, HalfDone
  <2>3. u # v => users'[u] = users[u]
    BY <1>1, <1>4
  <2>4. v \in Users => /\ users'[v].state = users'[u].state
                       /\ users'[v].banned <=> users'[u].banned
                       /\ users'[v].deactivated <=> users'[u].deactivated
    BY <1>4, <2>1, <2>2, <2>3
  <2>5. v \in Users => (users'[v].state = "live" => users[v].state = "live")
    BY <1>4
  <2> QED
    BY <1>1, <1>4, <2>1, <2>4, <2>5, PairDone
<1>5. CASE /\ v # None /\ users' = [users EXCEPT ![v].banned = TRUE]
           /\ GoOn(r, next("banningLinked"))
  <2>1. v \in Users /\ \A w \in Users : w # v => users'[w] = users[w]
    BY <1>1, <1>5, UserFields
  <2>2. /\ users'[v].linked = users[v].linked /\ users'[v].state = users[v].state
        /\ users'[v].banned /\ (users'[v].deactivated <=> users[v].deactivated)
    BY <1>5, <2>1, UserFields DEF User
  <2>3. Finds(jobs[r], next("banningLinked"))
    <3> SUFFICES ASSUME Settled(jobs[r], users, sessions)
                 PROVE  Settled(next("banningLinked"), users', sessions')
      BY DEF Finds
    <3>1. OnePerson(users') /\ Together(next("banningLinked"), users')
      BY <1>4, <2>1, <2>2
    <3>2. \A w \in sessions : AssertActive(users, w)
      BY <1>1 DEF Settled, SignedIn
    <3>3. SignedIn(next("banningLinked"), users', sessions')
      BY <1>2, <1>3, <2>1, <3>2, UserFields DEF SignedIn, AssertActive
    <3>4. Progress(next("banningLinked"), users')
      BY <1>2 DEF Progress
    <3> QED
      BY <3>1, <3>3, <3>4 DEF Settled
  <2> QED
    BY <1>1, <1>5, <2>3, WentOn DEF IInv
<1>6. CASE (v = None \/ users[v].banned) /\ users' = users /\ GoOn(r, next("blocking"))
  <2>1. Finds(jobs[r], next("blocking"))
    <3> SUFFICES ASSUME Settled(jobs[r], users, sessions)
                 PROVE  Settled(next("blocking"), users', sessions')
      BY DEF Finds
    <3>1. OnePerson(users') /\ Together(next("blocking"), users')
      BY <1>4, <1>6, AccountAssumption DEF Users
    <3>2. SignedIn(next("blocking"), users', sessions')
      BY <1>1, <1>3, <1>6 DEF Settled, SignedIn
    <3>3. Progress(next("blocking"), users')
      BY <1>2, PlainProgress DEF Plain
    <3> QED
      BY <3>1, <3>2, <3>3 DEF Settled
  <2> QED
    BY <1>1, <1>6, <2>1, WentOn DEF IInv
<1> QED
  BY <1>3, <1>5, <1>6

LEMMA UnbanLinkedOrdered ==
    ASSUME IInv, Ordered, NEW r \in Requests, UnbanLinked(r) PROVE Ordered'
<1> DEFINE next == [jobs[r] EXCEPT !.at = "unblocking"]
           u == jobs[r].user
           v == Linked(u)
<1>1. u \in Users /\ v = users[u].linked /\ v \in {None} \cup Users
  BY JobFacts, LinkedFacts DEF UnbanLinked
<1>2. next.at = "unblocking" /\ jobs[r].at = "unbanning" /\ GoOn(r, next) /\ sessions' = sessions
  BY JobFacts DEF UnbanLinked, Job
<1>3. users' = IF v = None THEN users ELSE [users EXCEPT ![v].banned = FALSE]
  BY DEF UnbanLinked
<1> HIDE DEF next, v
<1>4. /\ \A w \in Users : w # v => users'[w] = users[w]
      /\ v \in Users => /\ users'[v].linked = users[v].linked
                        /\ users'[v].state = users[v].state /\ ~users'[v].banned
                        /\ users'[v].deactivated <=> users[v].deactivated
                        /\ AssertActive(users, v) => AssertActive(users', v)
  <2>1. None \notin Users
    BY AccountAssumption DEF Users
  <2> QED
    BY <1>1, <1>3, <2>1, UserFields DEF User, AssertActive
<1>5. Finds(jobs[r], next)
  <2> SUFFICES ASSUME Settled(jobs[r], users, sessions) PROVE Settled(next, users', sessions')
    BY DEF Finds
  <2>1. /\ OnePerson(users) /\ Together(jobs[r], users) /\ ~users[u].banned
        /\ \A w \in sessions : AssertActive(users, w)
    BY <1>2 DEF Settled, Progress, SignedIn
  <2>2. v \in Users => /\ users[v].linked = u /\ users[v].state = users[u].state
                       /\ users[v].deactivated <=> users[u].deactivated
    BY <1>1, <1>2, <2>1 DEF Together, HalfDone
  <2>3. u # v => users'[u] = users[u]
    BY <1>1, <1>4
  <2>4. v \in Users => /\ users'[v].linked = users[v].linked
                       /\ users'[v].state = "live" => users[v].state = "live"
                       /\ users'[v].state = users'[u].state
                       /\ users'[v].banned <=> users'[u].banned
                       /\ users'[v].deactivated <=> users'[u].deactivated
    BY <1>4, <2>1, <2>2, <2>3
  <2>5. OnePerson(users') /\ Together(next, users')
    BY <1>1, <1>4, <2>1, <2>4, PairDone
  <2>6. SignedIn(next, users', sessions')
    BY <1>2, <1>4, <2>1, UserFields DEF SignedIn, AssertActive
  <2>7. Progress(next, users')
    BY <1>2, PlainProgress DEF Plain
  <2> QED
    BY <2>5, <2>6, <2>7 DEF Settled
<1> QED
  BY <1>2, <1>5, WentOn DEF IInv

LEMMA DeactivateLinkedOrdered ==
    ASSUME IInv, Ordered, NEW r \in Requests, DeactivateLinked(r) PROVE Ordered'
<1> DEFINE u == jobs[r].user
           v == Linked(u)
<1>1. u \in Users /\ v = users[u].linked /\ v \in {None} \cup Users
  BY JobFacts, LinkedFacts DEF DeactivateLinked
<1>2. jobs[r].at = "deactivating" /\ GoOn(r, NoJob)
  BY DEF DeactivateLinked
<1>3. \/ /\ v # None /\ users' = [users EXCEPT ![v].deactivated = TRUE]
         /\ sessions' = sessions \ {v}
      \/ (v = None \/ users[v].deactivated) /\ users' = users /\ sessions' = sessions
  BY DEF DeactivateLinked, DeactivateUser, accountVars
<1> HIDE DEF v
<1>4. /\ \A w \in Users : w # v => users'[w] = users[w]
      /\ v \in Users => /\ users'[v].linked = users[v].linked
                        /\ users'[v].state = users[v].state /\ users'[v].deactivated
                        /\ users'[v].banned <=> users[v].banned
      /\ \A w \in sessions' : w \in sessions /\ (w # v \/ users' = users)
  <2>1. None \notin Users
    BY AccountAssumption DEF Users
  <2> QED
    BY <1>1, <1>3, <2>1, UserFields DEF User
<1>5. Finds(jobs[r], NoJob)
  <2> SUFFICES ASSUME Settled(jobs[r], users, sessions) PROVE Settled(NoJob, users', sessions')
    BY DEF Finds
  <2>1. /\ OnePerson(users) /\ Together(jobs[r], users) /\ users[u].deactivated
        /\ \A w \in sessions : AssertActive(users, w)
    BY <1>2 DEF Settled, Progress, SignedIn
  <2>2. v \in Users => /\ users[v].linked = u /\ users[v].state = users[u].state
                       /\ users[v].banned <=> users[u].banned
    BY <1>1, <1>2, <2>1 DEF Together, HalfDone
  <2>3. u # v => users'[u] = users[u]
    BY <1>1, <1>4
  <2>4. v \in Users => /\ users'[v].linked = users[v].linked
                       /\ users'[v].state = "live" => users[v].state = "live"
                       /\ users'[v].state = users'[u].state
                       /\ users'[v].banned <=> users'[u].banned
                       /\ users'[v].deactivated <=> users'[u].deactivated
    BY <1>4, <2>1, <2>2, <2>3
  <2>5. OnePerson(users') /\ Together(NoJob, users')
    BY <1>1, <1>4, <2>1, <2>4, PairDone
  <2>6. SignedIn(NoJob, users', sessions')
    BY <1>4, <2>1, UserFields DEF SignedIn, AssertActive
  <2>7. Progress(NoJob, users')
    BY NoJobPlain, PlainProgress
  <2> QED
    BY <2>5, <2>6, <2>7 DEF Settled
<1> QED
  BY <1>2, <1>5, WentOn DEF IInv

LEMMA DeleteLinkedOrdered ==
    ASSUME IInv, Ordered, NEW r \in Requests, DeleteLinked(r) PROVE Ordered'
<1> DEFINE u == jobs[r].user
           v == Linked(u)
           both == [jobs[r] EXCEPT !.at = "deleted", !.other = v]
           alone == [jobs[r] EXCEPT !.at = "deleted"]
<1>1. u \in Users /\ v = users[u].linked /\ v \in {None} \cup Users /\ (v \in Users => Made(users, v))
  BY JobFacts, LinkedFacts, AccountAssumption DEF DeleteLinked, Users
<1>2. jobs[r].at = "deleting"
  BY DEF DeleteLinked
<1>3. PICK next \in {both, alone} :
        /\ GoOn(r, next)
        /\ \/ /\ v \in Users /\ users' = [users EXCEPT ![v].state = "deleted"]
              /\ sessions' = sessions \ {v}
           \/ ~Live(v) /\ users' = users /\ sessions' = sessions
  BY DEF DeleteLinked, AnonymizeUser, accountVars, Live
<1>4. next.at = "deleted"
  BY JobFacts, <1>2, <1>3 DEF Job
<1> HIDE DEF v, both, alone
<1>5. /\ \A w \in Users : w # v => users'[w] = users[w]
      /\ v \in Users => /\ users'[v].linked = users[v].linked
                        /\ users'[v].state = "deleted"
                        /\ users'[v].banned <=> users[v].banned
                        /\ users'[v].deactivated <=> users[v].deactivated
      /\ \A w \in sessions' : w \in sessions /\ (w # v \/ users' = users)
  BY <1>1, <1>3, UserFields DEF User, Live, Made
<1>6. Finds(jobs[r], next)
  <2> SUFFICES ASSUME Settled(jobs[r], users, sessions) PROVE Settled(next, users', sessions')
    BY DEF Finds
  <2>1. /\ OnePerson(users) /\ Together(jobs[r], users) /\ users[u].state = "deleted"
        /\ \A w \in sessions : AssertActive(users, w)
    BY <1>2 DEF Settled, Progress, SignedIn
  <2>2. v \in Users => /\ users[v].linked = u
                       /\ users[v].banned <=> users[u].banned
                       /\ users[v].deactivated <=> users[u].deactivated
    BY <1>1, <1>2, <2>1 DEF Together, HalfDone
  <2>3. u # v => users'[u] = users[u]
    BY <1>1, <1>5
  <2>4. v \in Users => /\ users'[v].linked = users[v].linked
                       /\ users'[v].state = "live" => users[v].state = "live"
                       /\ users'[v].state = users'[u].state
                       /\ users'[v].banned <=> users'[u].banned
                       /\ users'[v].deactivated <=> users'[u].deactivated
    BY <1>5, <2>1, <2>2, <2>3
  <2>5. OnePerson(users') /\ Together(next, users')
    BY <1>1, <1>5, <2>1, <2>4, PairDone
  <2>6. SignedIn(next, users', sessions')
    BY <1>5, <2>1, UserFields DEF SignedIn, AssertActive
  <2>7. Progress(next, users')
    BY <1>4, PlainProgress DEF Plain
  <2> QED
    BY <2>5, <2>6, <2>7 DEF Settled
<1> QED
  BY <1>2, <1>3, <1>6, WentOn DEF IInv

-----------------------------------------------------------------------------
\* Signing in: whoever was away comes back with the linked identity.
LEMMA SignedInOrdered ==
    ASSUME IInv, Ordered, NEW r \in Requests, NEW u \in Users, Finds(NoJob, NoJob),
           Arrive(r, IF AssertActive(users', u) THEN AJob("issue", u) ELSE NoJob)
    PROVE  Ordered'
<1>1. CASE ~AssertActive(users', u)
  BY <1>1, Arrived DEF IInv
<1>2. CASE AssertActive(users', u)
  <2> DEFINE next == AJob("issue", u)
  <2>1. next.at = "issue" /\ next.user = u /\ Arrive(r, next)
    BY <1>2, AJobFields
  <2> HIDE DEF next
  <2>2. Progress(next, users')
    BY <1>2, <2>1 DEF Progress
  <2>3. Finds(NoJob, next)
    BY <2>2, NoJobPlain, FromPlain DEF Finds
  <2> QED
    BY <2>1, <2>3, Arrived DEF IInv
<1> QED
  BY <1>1, <1>2

LEMMA Returned ==
    ASSUME IInv, NEW u \in Users, NEW returning, sessions' = sessions,
           returning = IF users[u].deactivated THEN ReactivateCascade(u) ELSE {},
           \A v \in Users : /\ users'[v].state = users[v].state
                            /\ users'[v].linked = users[v].linked
                            /\ users'[v].banned <=> users[v].banned
                            /\ users'[v].deactivated <=> users[v].deactivated /\ v \notin returning
                            /\ AssertActive(users, v) => AssertActive(users', v)
    PROVE  Finds(NoJob, NoJob)
<1> SUFFICES ASSUME Settled(NoJob, users, sessions) PROVE Settled(NoJob, users', sessions')
  BY DEF Finds
<1>1. OnePerson(users')
  BY DEF Settled, OnePerson
<1>2. ASSUME NEW v \in Users, NEW w \in Users, users[v].linked = w
      PROVE  /\ users[w].linked = v /\ users[v].state = users[w].state
             /\ users[v].banned <=> users[w].banned
             /\ users[v].deactivated <=> users[w].deactivated
  BY <1>2, NoJobPlain DEF Settled, Together, HalfDone
<1>3. Linked(u) = users[u].linked
  BY LinkedFacts
<1>4. ASSUME NEW v \in Users, NEW w \in Users, users[v].linked = w
      PROVE  v \in {u, Linked(u)} <=> w \in {u, Linked(u)}
  BY <1>2, <1>3, <1>4
<1>5. Together(NoJob, users')
  <2> SUFFICES ASSUME NEW v \in Users, NEW w \in Users, users[v].linked = w
               PROVE  users'[v].deactivated <=> users'[w].deactivated
    BY <1>2 DEF Together
  <2>1. /\ users[v].deactivated <=> users[w].deactivated
        /\ v \in {u, Linked(u)} <=> w \in {u, Linked(u)}
    BY <1>2, <1>4
  <2> QED
    BY <2>1 DEF ReactivateCascade
<1>6. SignedIn(NoJob, users', sessions')
  BY NoJobPlain, UserFields DEF Settled, SignedIn
<1>7. Progress(NoJob, users')
  BY NoJobPlain, PlainProgress
<1> QED
  BY <1>1, <1>5, <1>6, <1>7 DEF Settled

LEMMA LoginOrdered ==
    ASSUME IInv, Ordered, NEW r \in Requests, Login(r) PROVE Ordered'
<1> DEFINE u == FindByEmail
           returning == IF users[u].deactivated THEN ReactivateCascade(u) ELSE {}
<1>1. u \in Users
  BY FoundLives DEF Login
<1>2. /\ users' = [v \in Users |-> IF v \in returning
                                   THEN [users[v] EXCEPT !.deactivated = FALSE] ELSE users[v]]
      /\ sessions' = sessions
      /\ Arrive(r, IF AssertActive(users', u) THEN AJob("issue", u) ELSE NoJob)
  BY DEF Login
<1>3. returning = IF users[u].deactivated THEN ReactivateCascade(u) ELSE {}
  OBVIOUS
<1> HIDE DEF returning, u
<1>4. \A v \in Users : /\ users'[v].state = users[v].state
                       /\ users'[v].linked = users[v].linked
                       /\ users'[v].banned <=> users[v].banned
                       /\ users'[v].deactivated <=> users[v].deactivated /\ v \notin returning
                       /\ AssertActive(users, v) => AssertActive(users', v)
  BY <1>2, UserFields DEF User, AssertActive
<1>5. Finds(NoJob, NoJob)
  BY <1>1, <1>2, <1>3, <1>4, Returned
<1> QED
  BY <1>1, <1>2, <1>5, SignedInOrdered

LEMMA GoogleOrdered ==
    ASSUME IInv, Ordered, NEW r \in Requests, GoogleCallback(r) PROVE Ordered'
<1> DEFINE u == GoogleRow
           returning == IF users[u].deactivated THEN ReactivateCascade(u) ELSE {}
<1>1. u \in Users
  BY FoundLives DEF GoogleCallback, GoogleRow, IInv, TypeOK
<1>2. /\ sessions' = sessions
      /\ Arrive(r, IF AssertActive(users', u) THEN AJob("issue", u) ELSE NoJob)
  BY DEF GoogleCallback
<1>3. u = GoogleRow /\ returning = IF users[u].deactivated THEN ReactivateCascade(u) ELSE {}
  OBVIOUS
<1> HIDE DEF returning, u
<1>4. \A v \in Users : /\ users'[v].state = users[v].state
                       /\ users'[v].linked = users[v].linked
                       /\ users'[v].banned <=> users[v].banned
                       /\ users'[v].deactivated <=> users[v].deactivated /\ v \notin returning
                       /\ AssertActive(users, v) => AssertActive(users', v)
  BY <1>3, GoogleMarks DEF AssertActive
<1>5. Finds(NoJob, NoJob)
  BY <1>1, <1>2, <1>3, <1>4, Returned
<1> QED
  BY <1>1, <1>2, <1>5, SignedInOrdered

LEMMA VerifyOrdered ==
    ASSUME IInv, Ordered, NEW r \in Requests, NEW u \in Users, VerifyEmail(r, u) PROVE Ordered'
<1>1. /\ users' = [v \in Users |-> IF v \in {u, Linked(u)} /\ ~users[u].verified
                                   THEN [users[v] EXCEPT !.verified = TRUE] ELSE users[v]]
      /\ sessions' = sessions
      /\ Arrive(r, IF AssertActive(users', u) THEN AJob("issue", u) ELSE NoJob)
  BY DEF VerifyEmail
<1>2. \A v \in Users : /\ users'[v].state = users[v].state
                       /\ users'[v].linked = users[v].linked
                       /\ users'[v].banned <=> users[v].banned
                       /\ users'[v].deactivated <=> users[v].deactivated
                       /\ AssertActive(users, v) => AssertActive(users', v)
  BY <1>1, UserFields DEF User, AssertActive
<1>3. Finds(NoJob, NoJob)
  BY <1>1, <1>2, UserFields, NoJobPlain, Better DEF Finds
<1> QED
  BY <1>1, <1>3, SignedInOrdered

-----------------------------------------------------------------------------
\* Time, the sweep and a death.
LEMMA TimeOrdered ==
    ASSUME IInv, Ordered, jobs' = jobs, calm' = calm, sessions' = sessions,
           \/ users' = users
           \/ \E u \in Users : \/ /\ users' = [users EXCEPT ![u].suspended = "elapsed"]
                                  /\ users[u].suspended # "no"
                               \/ users' = [users EXCEPT ![u].suspended = "no"]
    PROVE  Ordered'
<1>1. \A v \in Users : /\ users'[v].state = users[v].state
                       /\ users'[v].linked = users[v].linked
                       /\ users'[v].banned <=> users[v].banned
                       /\ users'[v].deactivated <=> users[v].deactivated
                       /\ AssertActive(users, v) => AssertActive(users', v)
  BY UserFields DEF User, AssertActive
<1>2. ASSUME Settled(NoJob, users, sessions) PROVE Settled(NoJob, users', sessions')
  BY <1>1, <1>2, UserFields, NoJobPlain, Better
<1>3. ASSUME NEW r \in Requests, Settled(jobs[r], users, sessions)
      PROVE  Settled(jobs[r], users', sessions')
  BY <1>1, <1>3, UserFields, JobFacts, Better
<1> QED
  BY <1>2, <1>3 DEF Ordered, OneJob

LEMMA SweepOrdered ==
    ASSUME IInv, Ordered, Elapse \/ QueryDue \/ ClearSuspension PROVE Ordered'
<1>1. jobs' = jobs /\ calm' = calm /\ sessions' = sessions
  BY DEF Elapse, QueryDue, ClearSuspension, requestVars
<1>2. CASE Elapse \/ QueryDue
  BY <1>1, <1>2, TimeOrdered DEF Elapse, QueryDue
<1>3. CASE ClearSuspension
  <2>1. PICK x \in sweep.due : users' = users \/ users' = [users EXCEPT ![x].suspended = "no"]
    BY <1>3 DEF ClearSuspension
  <2>2. x \in Users \/ users' = users
    BY <2>1, UserFields
  <2> QED
    BY <1>1, <2>1, <2>2, TimeOrdered
<1> QED
  BY <1>2, <1>3

LEMMA DieOrdered ==
    ASSUME IInv, Ordered, Die PROVE Ordered'
<1>1. users' = users /\ sessions' = sessions
  BY DEF Die, accountVars
<1>2. ~calm' \/ (jobs' = jobs /\ calm' = calm)
  BY DEF Die
<1> QED
  BY <1>1, <1>2, TimeOrdered DEF Ordered

-----------------------------------------------------------------------------
\* The rows a signup makes: one, or two linked to each other.
Newborn(u, linked) ==
    /\ u \in Users /\ ~Made(users, u)
    /\ users'[u].state = "live" /\ users'[u].linked = linked
    /\ ~users'[u].banned /\ ~users'[u].deactivated /\ users'[u].suspended = "no"

LEMMA InsertRows ==
    ASSUME IInv, NEW r \in Requests, Insert(r)
    PROVE  \/ users' = users /\ GoOn(r, NoJob)
           \/ \E first \in Users, second \in {None} \cup Users, at \in {"mailing", "issue"} :
                 /\ GoOn(r, AJob(at, first))
                 /\ Newborn(first, second) /\ (second \in Users => Newborn(second, first))
                 /\ at = "issue" => users'[first].verified
                 /\ \A u \in Users : u \notin {first, second} => users'[u] = users[u]
<1> DEFINE job == jobs[r]
           first == Min(Fresh)
           signing == job.at = "signing"
           at == IF signing THEN "mailing" ELSE "issue"
<1>1. job.roles \in SUBSET Roles /\ job.roles # {}
  BY DEF IInv, JobsKnown, Known, Job, Insert
<1>2. Fresh # {}
  BY <1>1, RoomForOne DEF Insert
<1> SUFFICES ASSUME CreateRows(first, first + 1, job.roles, ~signing), GoOn(r, AJob(at, first))
             PROVE  \E two \in {None} \cup Users :
                       /\ Newborn(first, two) /\ (two \in Users => Newborn(two, first))
                       /\ at = "issue" => users'[first].verified
                       /\ first \in Users
                       /\ \A u \in Users : u \notin {first, two} => users'[u] = users[u]
  BY DEF Insert
<1>3. /\ first \in Users /\ ~Made(users, first)
      /\ \A u \in Users : ~(u < first) => ~Made(users, u)
  BY <1>2, FirstFresh
<1>4. job.roles = Roles => first + 1 \in Users
  BY <1>2, RoomForTwo DEF Insert
<1>5. PICK verified \in BOOLEAN : /\ CreateRows(first, first + 1, job.roles, verified)
                                  /\ at = "issue" => verified
  BY DEF Insert
<1> DEFINE role == IF "business" \in job.roles THEN "business" ELSE "owner"
           second == IF job.roles = Roles THEN first + 1 ELSE None
           one == [NoUser EXCEPT !.state = "live", !.verified = verified, !.role = role,
                                 !.linked = second]
           two == [NoUser EXCEPT !.state = "live", !.verified = verified, !.role = "owner",
                                 !.linked = first]
<1>6. users' = [u \in Users |-> IF u = first THEN one
                                ELSE IF u = first + 1 /\ job.roles = Roles THEN two ELSE users[u]]
  BY <1>5 DEF CreateRows
<1>7. /\ second \in {None} \cup Users /\ second # first
      /\ second \in Users => second = first + 1 /\ job.roles = Roles /\ ~(second < first)
      /\ \A u \in Users : u # second => ~(u = first + 1 /\ job.roles = Roles)
  BY <1>3, <1>4, AccountAssumption DEF Users
<1> HIDE DEF first, role, second, at
<1>8. /\ one.state = "live" /\ one.banned = FALSE /\ one.deactivated = FALSE
      /\ one.suspended = "no" /\ one.verified = verified /\ one.linked = second
      /\ two.state = "live" /\ two.banned = FALSE /\ two.deactivated = FALSE
      /\ two.suspended = "no" /\ two.linked = first
  BY DEF NoUser
<1> HIDE DEF one, two
<1>9. users'[first] = one /\ (second \in Users => users'[second] = two)
  BY <1>3, <1>6, <1>7
<1>10. Newborn(first, second)
  BY <1>3, <1>8, <1>9 DEF Newborn
<1>11. second \in Users => Newborn(second, first)
  BY <1>3, <1>7, <1>8, <1>9 DEF Newborn
<1>12. \A u \in Users : u \notin {first, second} => users'[u] = users[u]
  BY <1>6, <1>7
<1>13. at = "issue" => users'[first].verified
  BY <1>5, <1>8, <1>9
<1> QED
  BY <1>3, <1>7, <1>10, <1>11, <1>12, <1>13

LEMMA InsertOrdered ==
    ASSUME IInv, Ordered, NEW r \in Requests, Insert(r) PROVE Ordered'
<1>1. jobs[r].at \in {"signing", "completing"} /\ sessions' = sessions
  BY DEF Insert
<1>2. ASSUME Settled(jobs[r], users, sessions)
      PROVE  /\ \A u \in Users : users[u].state # "live"
             /\ sessions = {} /\ Settled(NoJob, users, sessions)
  <2>1. \A u \in Users : users[u].state # "live"
    BY <1>1, <1>2 DEF Settled, Progress
  <2>2. sessions = {}
    BY <1>1, <1>2, <2>1, UserFields DEF Settled, SignedIn, AssertActive
  <2>3. Together(NoJob, users)
    BY <1>1, <1>2 DEF Settled, Together, HalfDone
  <2> QED
    BY <1>2, <2>1, <2>2, <2>3, NoProgress DEF Settled, SignedIn
<1>3. CASE users' = users /\ GoOn(r, NoJob)
  <2>1. Finds(jobs[r], NoJob)
    BY <1>1, <1>2, <1>3 DEF Finds
  <2> QED
    BY <1>1, <1>3, <2>1, WentOn DEF IInv
<1>4. ASSUME NEW first \in Users, NEW second \in {None} \cup Users, NEW at \in {"mailing", "issue"},
             GoOn(r, AJob(at, first)), Newborn(first, second),
             second \in Users => Newborn(second, first),
             at = "issue" => users'[first].verified,
             \A u \in Users : u \notin {first, second} => users'[u] = users[u]
      PROVE  Ordered'
  <2> DEFINE next == AJob(at, first)
  <2>1. next.at = at /\ next.user = first
    BY AJobFields
  <2>2. GoOn(r, next)
    BY <1>4
  <2> HIDE DEF next
  <2>3. Finds(jobs[r], next)
    <3> SUFFICES ASSUME Settled(jobs[r], users, sessions) PROVE Settled(next, users', sessions')
      BY DEF Finds
    <3>1. \A u \in Users : users[u].state # "live"
      BY <1>2
    <3>2. OnePerson(users')
      BY <1>4, <3>1 DEF OnePerson, Newborn
    <3>3. \A u \in Users : \A v \in Users : users[u].linked = v =>
             /\ users[v].linked = u /\ users[u].state = users[v].state
             /\ users[u].banned <=> users[v].banned
             /\ users[u].deactivated <=> users[v].deactivated
      BY <1>2, NoJobPlain DEF Settled, Together, HalfDone
    <3>4. \A u \in Users : u \notin {first, second} /\ users[u].linked # None =>
                              users[u].linked \notin {first, second}
      BY <1>4, LinkedFacts DEF Newborn
    <3>5. Together(next, users')
      <4> SUFFICES ASSUME NEW u \in Users, NEW v \in Users, users'[u].linked = v
                   PROVE  /\ users'[v].linked = u /\ users'[u].state = users'[v].state
                          /\ users'[u].banned <=> users'[v].banned
                          /\ users'[u].deactivated <=> users'[v].deactivated
        BY DEF Together
      <4>1. CASE u \in {first, second}
        BY <1>4, <4>1 DEF Newborn
      <4>2. CASE u \notin {first, second}
        <5>1. users[u].linked = v /\ v \notin {first, second}
          BY <1>4, <3>4, <4>2, AccountAssumption DEF Users
        <5> QED
          BY <1>4, <3>3, <4>2, <5>1
      <4> QED
        BY <4>1, <4>2
    <3>6. SignedIn(next, users', sessions')
      BY <1>1, <1>2 DEF SignedIn
    <3>7. Progress(next, users')
      BY <1>4, <2>1 DEF Progress, Newborn, AssertActive
    <3> QED
      BY <3>2, <3>5, <3>6, <3>7 DEF Settled
  <2> QED
    BY <1>1, <2>2, <2>3, WentOn DEF IInv
<1> QED
  BY <1>3, <1>4, InsertRows

LEMMA InsertLinkedOrdered ==
    ASSUME IInv, Ordered, NEW r \in Requests, InsertLinked(r) PROVE Ordered'
<1> DEFINE u == jobs[r].user
           role == CHOOSE other \in Roles : other # users[u].role
           second == Min(Fresh)
           row == [NoUser EXCEPT !.state = "live", !.role = role, !.verified = TRUE, !.linked = u]
           next == [AJob("issue", second) EXCEPT !.other = u]
<1>1. jobs[r].at = "linking" /\ sessions' = sessions /\ u \in Users /\ Made(users, u)
  BY JobFacts DEF InsertLinked
<1>2. CASE users' = users /\ GoOn(r, NoJob)
  <2>1. Finds(jobs[r], NoJob)
    BY <1>1, <1>2, NoProgress, FromPlain DEF Finds
  <2> QED
    BY <1>1, <1>2, <2>1, WentOn DEF IInv
<1>3. CASE users' = [users EXCEPT ![u].linked = second, ![second] = row] /\ GoOn(r, next)
  <2>1. second \in Users /\ ~Made(users, second)
    BY FirstFresh DEF InsertLinked
  <2>2. next.at = "issue" /\ next.user = second /\ GoOn(r, next)
    BY <1>3, AJobFields
  <2>3. /\ row.state = "live" /\ row.verified = TRUE /\ row.linked = u /\ row.banned = FALSE
        /\ row.deactivated = FALSE /\ row.suspended = "no"
    BY DEF NoUser
  <2>4. users' = [users EXCEPT ![u].linked = second, ![second] = row]
    BY <1>3
  <2> HIDE DEF u, role, second, row, next
  <2>5. u # second
    BY <1>1, <2>1
  <2>6. /\ users'[second] = row
        /\ users'[u] = [users[u] EXCEPT !.linked = second]
        /\ \A v \in Users : v \notin {u, second} => users'[v] = users[v]
    BY <1>1, <2>1, <2>4, <2>5, UserFields
  <2>7. /\ users'[second].state = "live" /\ users'[second].linked = u
        /\ users'[second].banned = FALSE /\ users'[second].deactivated = FALSE
        /\ AssertActive(users', second)
    BY <2>3, <2>6 DEF AssertActive
  <2>8. /\ users'[u].linked = second /\ users'[u].state = users[u].state
        /\ users'[u].banned = users[u].banned /\ users'[u].deactivated = users[u].deactivated
        /\ users'[u].suspended = users[u].suspended /\ users'[u].verified = users[u].verified
    <3>1. users[u] \in User
      BY <1>1, UserFields
    <3> QED
      BY <2>6, <3>1 DEF User
  <2>9. Finds(jobs[r], next)
    <3> SUFFICES ASSUME Settled(jobs[r], users, sessions) PROVE Settled(next, users', sessions')
      BY DEF Finds
    <3>1. /\ AssertActive(users, u) /\ users[u].linked = None /\ OnePerson(users)
          /\ \A w \in sessions : AssertActive(users, w)
          /\ \A v \in Users : \A w \in Users : users[v].linked = w =>
                /\ users[w].linked = v /\ users[v].state = users[w].state
                /\ users[v].banned <=> users[w].banned
                /\ users[v].deactivated <=> users[w].deactivated
      BY <1>1 DEF Settled, Progress, SignedIn, Together, HalfDone, u
    <3>2. None \notin Users
      BY AccountAssumption DEF Users
    <3>3. \A v \in Users : v # u => users[v].state # "live"
      BY <1>1, <3>1, <3>2 DEF OnePerson, AssertActive
    <3>4. OnePerson(users')
      BY <2>6, <2>7, <2>8, <3>3 DEF OnePerson
    <3>5. Together(next, users')
      <4> SUFFICES ASSUME NEW v \in Users, NEW w \in Users, users'[v].linked = w
                   PROVE  /\ users'[w].linked = v /\ users'[v].state = users'[w].state
                          /\ users'[v].banned <=> users'[w].banned
                          /\ users'[v].deactivated <=> users'[w].deactivated
        BY DEF Together
      <4>1. CASE v \in {u, second}
        BY <2>7, <2>8, <3>1, <4>1 DEF AssertActive
      <4>2. CASE v \notin {u, second}
        <5>1. users[v].linked = w /\ w # u /\ Made(users, w)
          BY <2>6, <3>1, <3>2, <4>2, LinkedFacts
        <5> QED
          BY <2>1, <2>6, <3>1, <4>2, <5>1
      <4> QED
        BY <4>1, <4>2
    <3>6. AssertActive(users', u)
      BY <2>8, <3>1 DEF AssertActive
    <3>7. SignedIn(next, users', sessions')
      <4>1. \A w \in Users : AssertActive(users, w) => AssertActive(users', w)
        BY <2>6, <2>7, <3>6 DEF AssertActive
      <4> QED
        BY <1>1, <3>1, <4>1, UserFields DEF SignedIn
    <3>8. Progress(next, users')
      BY <2>2, <2>7 DEF Progress
    <3> QED
      BY <3>4, <3>5, <3>7, <3>8 DEF Settled
  <2> QED
    BY <1>1, <2>2, <2>9, WentOn DEF IInv
<1> QED
  BY <1>2, <1>3 DEF InsertLinked

-----------------------------------------------------------------------------
LEMMA NextOrdered == IInv /\ Ordered /\ [Next]_vars => Ordered'
<1> SUFFICES ASSUME IInv, Ordered, [Next]_vars PROVE Ordered'
  OBVIOUS
<1>1. ASSUME NEW r \in Requests, Resume(r) PROVE Ordered'
  BY <1>1, InsertOrdered, InsertLinkedOrdered, LastOrdered, IssueOrdered,
     DeactivateLinkedOrdered, DeleteLinkedOrdered, RevokeOrdered, RevokeBannedOrdered,
     BanLinkedOrdered, UnbanLinkedOrdered DEF Resume
<1>2. ASSUME NEW r \in Requests, ByVisitor(r) PROVE Ordered'
  BY <1>2, VisitorOrdered, LoginOrdered, GoogleOrdered DEF ByVisitor
<1>3. ASSUME NEW r \in Requests, ByUser(r) PROVE Ordered'
  BY <1>3, UserOrdered, VerifyOrdered, DeactivateOrdered, DeleteOrdered DEF ByUser
<1>4. ASSUME NEW r \in Requests, ByAdmin(r) PROVE Ordered'
  BY <1>4, DeleteOrdered, SuspendOrdered, UnsuspendOrdered, BanOrdered, UnbanOrdered DEF ByAdmin
<1>5. CASE Next
  BY <1>1, <1>2, <1>3, <1>4, <1>5, OnItemOrdered, SweepOrdered, DieOrdered DEF Next
<1>6. CASE UNCHANGED vars
  BY <1>6, TimeOrdered DEF vars, accountVars
<1> QED
  BY <1>5, <1>6

\* While requests come one after the other, the identities of the mailbox are
\* in the order the request under way is leaving them in.
THEOREM AccountOrder == Spec => [](IInv /\ Ordered)
<1>1. Init => IInv /\ Ordered
  BY InitGood, InitOrdered
<1>2. IInv /\ Ordered /\ [Next]_vars => (IInv /\ Ordered)'
  BY NextGood, NextOrdered DEF Good
<1> QED
  BY <1>1, <1>2, PTL DEF Spec

LEMMA RestsInOrder ==
    ASSUME IInv, Ordered, calm, Idle
    PROVE  /\ OnePerson(users)
           /\ \A u \in sessions : AssertActive(users, u)
           /\ \A u, v \in Users : users[u].linked = v =>
                 /\ users[v].linked = u /\ users[u].state = users[v].state
                 /\ users[u].banned <=> users[v].banned
                 /\ users[u].deactivated <=> users[v].deactivated
<1>1. \A r \in Requests : jobs[r].at = "idle"
  BY NoJobPlain DEF Idle
<1>2. Settled(NoJob, users, sessions)
  BY <1>1 DEF Ordered
<1> QED
  BY <1>2, NoJobPlain DEF Settled, SignedIn, Together, HalfDone

\* Requests that come one after the other leave the two identities of a person
\* alike: both paused or neither, both banned or neither, both deleted or neither.
THEOREM PairTogether == Spec => []PairMovesTogether
<1>1. IInv /\ Ordered => PairMovesTogether
  <2> SUFFICES ASSUME IInv, Ordered, calm, Idle, NEW u \in Users, Linked(u) # None
               PROVE  /\ users[Linked(u)].linked = u
                      /\ users[u].state = users[Linked(u)].state
                      /\ users[u].banned = users[Linked(u)].banned
                      /\ users[u].deactivated = users[Linked(u)].deactivated
    BY DEF PairMovesTogether
  <2>1. Linked(u) \in Users /\ users[u].linked = Linked(u)
    BY LinkedFacts
  <2>2. /\ users[Linked(u)].linked = u /\ users[u].state = users[Linked(u)].state
        /\ users[u].banned <=> users[Linked(u)].banned
        /\ users[u].deactivated <=> users[Linked(u)].deactivated
    BY <2>1, RestsInOrder
  <2> QED
    BY <2>1, <2>2, UserFields
<1> QED
  BY <1>1, AccountOrder, PTL

\* Requests that come one after the other leave nobody signed in who was
\* suspended, banned, paused or deleted.
THEOREM SessionsRevoked == Spec => []RevokedEverywhere
<1>1. IInv /\ Ordered => RevokedEverywhere
  BY RestsInOrder DEF RevokedEverywhere
<1> QED
  BY <1>1, AccountOrder, PTL

\* Requests that come one after the other leave one person to a mailbox,
\* through whichever of the doors its rows were made.
THEOREM MailboxIsOnePerson == Spec => []OnePersonPerMailbox
<1>1. IInv /\ Ordered => OnePersonPerMailbox
  BY RestsInOrder, LinkedFacts DEF OnePersonPerMailbox, OnePerson, Live
<1> QED
  BY <1>1, AccountOrder, PTL
=============================================================================

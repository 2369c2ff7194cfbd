-------------------------------- MODULE Desk --------------------------------
(***************************************************************************)
(* The reviewers' shared queues: support tickets, which one reviewer at a  *)
(* time owns and answers by mail, and payment disputes, which are claimed  *)
(* in the same way; and the mail that customers send in answer.            *)
(*                                                                         *)
(* The reviewers' requests are threads.  The mail webhook is a coroutine   *)
(* that awaits nothing once it has the body, so one mail at most is being  *)
(* handled; the requests come between its commits and its fetch.           *)
(***************************************************************************)
EXTENDS Integers, FiniteSets, Sequences

CONSTANTS
    Tickets, Disputes,
    Members,        \* tickets whose submitter has an account
    Reviewers,
    Mails,          \* mails that customers send
    Handlers,       \* requests handled at a time
    None,
    MaxCalls,       \* bound on the reviewers' requests
    MaxFailures     \* bound on handlers that die and mails that cannot be fetched

Cases == Tickets \cup Disputes
SupportIds == 1..2      \* ids a PromoSlot Support account may get
Fetched == Tickets \cup {"wordless"}        \* mail to a ticket, of which the text is fetched
Addresses == Fetched \cup {"elsewhere"}

VARIABLES
    owner,          \* assigned_to_id of each ticket and dispute
    claimed,        \* reviewers whose claim is on the timeline of a case
    handled,        \* tickets marked as handled
    log,            \* ticket -> the customer-facing events of its timeline
    emailed,        \* ticket -> answers the mail provider has accepted
    support,        \* the PromoSlot Support accounts
    threads,        \* ticket -> account -> threads that answers are copied to
    messages,       \* ticket -> answers copied to a thread
    inbox,          \* mail -> the ticket it is addressed to, once sent; "wordless" if
                    \* its body is empty, as of one that is only a picture
    processed,      \* mails acknowledged
    jobs,           \* handler -> what is left of its request
    inbound,        \* the mail being handled
    calls, failures,
    calm            \* (history) nothing overlapped, died or failed

deskVars == <<owner, claimed, handled, log, emailed, support, threads, messages,
              inbox, processed>>
vars == <<deskVars, jobs, inbound, calls, failures, calm>>

ASSUME DeskAssumption ==
    /\ Members \subseteq Tickets /\ Tickets \cap (Disputes \cup {"elsewhere", "wordless"}) = {}
    /\ None \notin Addresses \cup Disputes \cup Reviewers \cup Mails /\ None \notin SupportIds
    /\ "reply" \notin Mails /\ MaxCalls \in Nat /\ MaxFailures \in Nat

Job == [at: {"idle", "claiming", "transferring", "sending", "recording", "naming",
             "threading", "opening", "messaging"},
        case: {None} \cup Cases, by: {None} \cup Reviewers, to: {None} \cup Reviewers,
        handled: BOOLEAN, logged: BOOLEAN, account: {None} \cup SupportIds]
Inbound == [mail: {None} \cup Mails, handled: BOOLEAN]

TypeOK ==
    /\ owner \in [Cases -> {None} \cup Reviewers]
    /\ claimed \in [Cases -> SUBSET Reviewers]
    /\ handled \subseteq Tickets
    /\ log \in [Tickets -> Seq({"reply"} \cup Mails)]
    /\ emailed \in [Tickets -> Nat]
    /\ support \subseteq SupportIds
    /\ threads \in [Tickets -> [SupportIds -> Nat]]
    /\ messages \in [Tickets -> Nat]
    /\ inbox \in [Mails -> {None} \cup Addresses]
    /\ processed \subseteq Mails
    /\ jobs \in [Handlers -> Job]
    /\ inbound \in Inbound
    /\ inbound.mail # None => inbox[inbound.mail] \in Fetched
    /\ calls \in 0..MaxCalls /\ failures \in 0..MaxFailures /\ calm \in BOOLEAN

NoJob == [at |-> "idle", case |-> None, by |-> None, to |-> None, handled |-> FALSE,
          logged |-> FALSE, account |-> None]
NoMail == [mail |-> None, handled |-> FALSE]

Arrive(h, job) ==
    /\ jobs[h] = NoJob /\ calls < MaxCalls
    /\ calls' = calls + 1
    /\ jobs' = [jobs EXCEPT ![h] = job]
    /\ calm' = (calm /\ inbound = NoMail /\ \A other \in Handlers \ {h} : jobs[other] = NoJob)
    /\ UNCHANGED <<inbound, failures>>

GoOn(h, job) ==
    /\ jobs' = [jobs EXCEPT ![h] = job]
    /\ UNCHANGED <<inbound, calls, failures, calm>>

(***************************************************************************)
(* Ownership.  A claim is one conditional UPDATE, and goes on the timeline *)
(* in a commit of its own.                                                 *)
(***************************************************************************)

\* Mutant of Claim: the handler checks the row, then writes it.
ClaimUnguarded(h, c, r) ==
    /\ owner[c] = None
    /\ Arrive(h, [NoJob EXCEPT !.at = "transferring", !.case = c, !.to = r])
    /\ UNCHANGED deskVars

Claim(h, c, r) ==
    /\ owner[c] = None
    /\ owner' = [owner EXCEPT ![c] = r]
    /\ Arrive(h, [NoJob EXCEPT !.at = "claiming", !.case = c, !.by = r])
    /\ UNCHANGED <<claimed, handled, log, emailed, support, threads, messages, inbox, processed>>

LogClaim(h) ==
    /\ jobs[h].at = "claiming"
    /\ claimed' = [claimed EXCEPT ![jobs[h].case] = @ \cup {jobs[h].by}]
    /\ GoOn(h, NoJob)
    /\ UNCHANGED <<owner, handled, log, emailed, support, threads, messages, inbox, processed>>

\* Any reviewer may hand a ticket on; the owner may have changed since it was read.
Transfer(h, t, to) ==
    /\ owner[t] # to
    /\ Arrive(h, [NoJob EXCEPT !.at = "transferring", !.case = t, !.to = to])
    /\ UNCHANGED deskVars

CommitTransfer(h) ==
    /\ jobs[h].at = "transferring"
    /\ owner' = [owner EXCEPT ![jobs[h].case] = jobs[h].to]
    /\ GoOn(h, NoJob)
    /\ UNCHANGED <<claimed, handled, log, emailed, support, threads, messages, inbox, processed>>

(***************************************************************************)
(* The answer: the owner's, mailed first and recorded if the provider took *)
(* it.  For a member it is copied to a thread with the support account,    *)
(* and what is found missing on the way is created and committed, together *)
(* with the record of the answer.                                          *)
(***************************************************************************)
Reply(h, t, r) ==
    /\ owner[t] = r
    /\ Arrive(h, [NoJob EXCEPT !.at = "sending", !.case = t, !.handled = t \in handled])
    /\ UNCHANGED deskVars

Email(h) == emailed' = [emailed EXCEPT ![jobs[h].case] = @ + 1]
NotTheMail == UNCHANGED <<owner, claimed, handled, log, support, threads, messages, inbox, processed>>

\* Mutant of EmailReply: an answer the provider refused is recorded all the same.
EmailReplyUnchecked(h) ==
    /\ jobs[h].at = "sending"
    /\ Email(h) \/ UNCHANGED emailed
    /\ GoOn(h, [jobs[h] EXCEPT !.at = "recording"])
    /\ NotTheMail

EmailReply(h) ==
    /\ jobs[h].at = "sending"
    /\ Email(h)
    /\ GoOn(h, [jobs[h] EXCEPT !.at = "recording"])
    /\ NotTheMail

\* Refused, or accepted and not heard of within the timeout.
EmailFails(h) ==
    /\ jobs[h].at = "sending" /\ failures < MaxFailures
    /\ Email(h) \/ UNCHANGED emailed
    /\ jobs' = [jobs EXCEPT ![h] = NoJob]
    /\ failures' = failures + 1 /\ calm' = FALSE
    /\ NotTheMail /\ UNCHANGED <<inbound, calls>>

\* What the session holds: the event, and the flag if it differs from the one read.
RecordReply(h) ==
    LET t == jobs[h].case
    IN  IF jobs[h].logged THEN UNCHANGED <<log, handled>>
        ELSE /\ log' = [log EXCEPT ![t] = Append(@, "reply")]
             /\ handled' = IF jobs[h].handled THEN handled ELSE handled \cup {t}

FinishReply(h) ==
    /\ jobs[h].at = "recording" /\ jobs[h].case \notin Members
    /\ RecordReply(h)
    /\ GoOn(h, NoJob)
    /\ UNCHANGED <<owner, claimed, emailed, support, threads, messages, inbox, processed>>

FindSupport(h) ==
    /\ jobs[h].at = "recording" /\ jobs[h].case \in Members
    /\ IF support = {}
       THEN GoOn(h, [jobs[h] EXCEPT !.at = "naming"])
       ELSE \E a \in support : GoOn(h, [jobs[h] EXCEPT !.at = "threading", !.account = a])
    /\ UNCHANGED deskVars

\* No index keeps the account's address unique: it has neither role.
CreateSupport(h) ==
    /\ jobs[h].at = "naming"
    /\ \E a \in SupportIds \ support :
          /\ \A b \in SupportIds : b < a => b \in support
          /\ support' = support \cup {a}
          /\ GoOn(h, [jobs[h] EXCEPT !.at = "threading", !.account = a, !.logged = TRUE])
    /\ RecordReply(h)
    /\ UNCHANGED <<owner, claimed, emailed, threads, messages, inbox, processed>>

FindThread(h) ==
    /\ jobs[h].at = "threading"
    /\ LET found == threads[jobs[h].case][jobs[h].account] > 0
       IN  GoOn(h, [jobs[h] EXCEPT !.at = IF found THEN "messaging" ELSE "opening"])
    /\ UNCHANGED deskVars

OpenThread(h) ==
    /\ jobs[h].at = "opening"
    /\ threads' = [threads EXCEPT ![jobs[h].case][jobs[h].account] = @ + 1]
    /\ RecordReply(h)
    /\ GoOn(h, [jobs[h] EXCEPT !.at = "messaging", !.logged = TRUE])
    /\ UNCHANGED <<owner, claimed, emailed, support, messages, inbox, processed>>

SendMessage(h) ==
    /\ jobs[h].at = "messaging"
    /\ messages' = [messages EXCEPT ![jobs[h].case] = @ + 1]
    /\ RecordReply(h)
    /\ GoOn(h, NoJob)
    /\ UNCHANGED <<owner, claimed, emailed, support, threads, inbox, processed>>

(***************************************************************************)
(* A customer answers an answer; the provider calls the webhook until the  *)
(* mail is acknowledged.  The notice is metadata: the text is fetched.     *)
(***************************************************************************)
CustomerWrites(m, to) ==
    /\ inbox[m] = None
    /\ to \in Tickets => emailed[to] > 0
    /\ to = "wordless" => \E t \in Tickets : emailed[t] > 0
    /\ inbox' = [inbox EXCEPT ![m] = to]
    /\ UNCHANGED <<owner, claimed, handled, log, emailed, support, threads, messages, processed,
                   jobs, inbound, calls, failures, calm>>

NotTheInbox == UNCHANGED <<owner, claimed, emailed, support, threads, messages, inbox, jobs, calls>>

Ignore(m) ==
    /\ inbox[m] = "elsewhere" /\ m \notin processed /\ inbound = NoMail
    /\ processed' = processed \cup {m}
    /\ NotTheInbox /\ UNCHANGED <<handled, log, inbound, failures, calm>>

\* Mutant of Receive: the mail is marked as processed when it is first seen.
ReceiveMarked(m) ==
    /\ inbox[m] \in Fetched /\ m \notin processed /\ inbound = NoMail
    /\ inbound' = [mail |-> m, handled |-> inbox[m] \in handled]
    /\ processed' = processed \cup {m}
    /\ calm' = (calm /\ \A h \in Handlers : jobs[h] = NoJob)
    /\ NotTheInbox /\ UNCHANGED <<handled, log, failures>>

Receive(m) ==
    /\ inbox[m] \in Fetched /\ m \notin processed /\ inbound = NoMail
    /\ inbound' = [mail |-> m, handled |-> inbox[m] \in handled]
    /\ calm' = (calm /\ \A h \in Handlers : jobs[h] = NoJob)
    /\ NotTheInbox /\ UNCHANGED <<handled, log, processed, failures>>

\* Mutant of RecordMail: the flag stays as it is.
RecordMailHandled ==
    LET m == inbound.mail
    IN  /\ m # None /\ inbox[m] \in Tickets
        /\ log' = [log EXCEPT ![inbox[m]] = Append(@, m)]
        /\ processed' = processed \cup {m}
        /\ inbound' = NoMail
        /\ NotTheInbox /\ UNCHANGED <<handled, failures, calm>>

RecordMail ==
    LET m == inbound.mail
    IN  /\ m # None /\ inbox[m] \in Tickets
        /\ log' = [log EXCEPT ![inbox[m]] = Append(@, m)]
        /\ handled' = IF inbound.handled THEN handled \ {inbox[m]} ELSE handled
        /\ processed' = processed \cup {m}
        /\ inbound' = NoMail
        /\ NotTheInbox /\ UNCHANGED <<failures, calm>>

\* The mail has no readable body: it is acknowledged, and nothing is recorded.
DropMail ==
    LET m == inbound.mail
    IN  /\ m # None /\ inbox[m] = "wordless"
        /\ processed' = processed \cup {m}
        /\ inbound' = NoMail
        /\ NotTheInbox /\ UNCHANGED <<handled, log, failures, calm>>

\* The text could not be fetched (the provider is asked to call again), or the
\* process died.
ReceiveFails ==
    /\ inbound # NoMail /\ failures < MaxFailures
    /\ inbound' = NoMail
    /\ failures' = failures + 1 /\ calm' = FALSE
    /\ NotTheInbox /\ UNCHANGED <<handled, log, processed>>

Die(h) ==
    /\ jobs[h] # NoJob /\ failures < MaxFailures
    /\ jobs' = [jobs EXCEPT ![h] = NoJob]
    /\ failures' = failures + 1 /\ calm' = FALSE
    /\ UNCHANGED <<deskVars, inbound, calls>>

(***************************************************************************)
(* The specification.                                                      *)
(***************************************************************************)
Init ==
    /\ owner = [c \in Cases |-> None] /\ claimed = [c \in Cases |-> {}]
    /\ handled = {} /\ log = [t \in Tickets |-> <<>>]
    /\ emailed = [t \in Tickets |-> 0] /\ messages = [t \in Tickets |-> 0]
    /\ support = {} /\ threads = [t \in Tickets |-> [a \in SupportIds |-> 0]]
    /\ inbox = [m \in Mails |-> None] /\ processed = {}
    /\ jobs = [h \in Handlers |-> NoJob] /\ inbound = NoMail
    /\ calls = 0 /\ failures = 0 /\ calm = TRUE

Resume(h) ==
    \/ LogClaim(h) \/ CommitTransfer(h) \/ EmailReply(h) \/ EmailFails(h) \/ FinishReply(h)
    \/ FindSupport(h) \/ CreateSupport(h) \/ FindThread(h) \/ OpenThread(h) \/ SendMessage(h)

Next ==
    \/ \E h \in Handlers :
          \/ \E r \in Reviewers :
                \/ \E c \in Cases : Claim(h, c, r)
                \/ \E t \in Tickets : Reply(h, t, r) \/ Transfer(h, t, r)
          \/ Resume(h) \/ Die(h)
    \/ \E m \in Mails :
          \/ \E to \in Addresses : CustomerWrites(m, to)
          \/ Ignore(m) \/ Receive(m)
    \/ RecordMail \/ DropMail \/ ReceiveFails

Spec == Init /\ [][Next]_vars

\* The provider calls again until it has its acknowledgement, and a mail cannot
\* be fetched only so often.
FairSpec ==
    /\ Spec
    /\ \A m \in Mails : WF_vars(Receive(m))
    /\ WF_vars(RecordMail) /\ WF_vars(DropMail)

(***************************************************************************)
(* What it promises.                                                       *)
(***************************************************************************)
Idle == inbound = NoMail /\ \A h \in Handlers : jobs[h] = NoJob
Replies(t) == Cardinality({i \in DOMAIN log[t] : log[t][i] = "reply"})

\* However requests overlap or die, whoever owns a ticket or dispute loses it
\* only to a transfer: of two claims at once, one wins.  (claim_ticket,
\* claim_dispute)
ClaimsAreExclusive ==
    [][\A c \in Cases : owner[c] # None /\ owner'[c] # owner[c] =>
          \E h \in Handlers : jobs[h].at = "transferring" /\ jobs[h].case = c
                              /\ jobs[h].to = owner'[c] /\ c \in Tickets]_vars

\* However requests overlap or die, no more answers are recorded, or shown in
\* the member's thread, than the mail provider has accepted; and one after the
\* other, a member finds every answer in one thread with the one support
\* account.  (reply_to_ticket, the PromoSlot Support account)
RecordedMeansSent ==
    /\ \A t \in Tickets : Replies(t) <= emailed[t] /\ messages[t] <= Replies(t)
    /\ calm /\ Idle => \A t \in Members :
          /\ Cardinality(support) <= 1
          /\ messages[t] = Replies(t)
          /\ messages[t] > 0 => \E a \in support : threads[t][a] = 1

OnTimeline(m) == UNION {{<<t, i>> : i \in {j \in DOMAIN log[t] : log[t][j] = m}} : t \in Tickets}

\* A mail to a ticket that has a readable body reaches the ticket's timeline in
\* the end, and once, though its notice is repeated, its text cannot be fetched
\* at first, or the process dies; any other never does.
\* (resend_inbound)
MailArrives ==
    /\ \A m \in Mails : inbox[m] \in Tickets ~> OnTimeline(m) # {}
    /\ [](\A m \in Mails :
             /\ Cardinality(OnTimeline(m)) <= 1
             /\ OnTimeline(m) # {} => inbox[m] \in Tickets)

\* One after the other, a ticket whose last word is the customer's counts as
\* open, one whose last word is ours as handled.
LastWordDecides ==
    calm /\ Idle => \A t \in Tickets : log[t] # <<>> =>
        (t \in handled <=> log[t][Len(log[t])] = "reply")
=============================================================================

----------------------------- MODULE DeskProofs -----------------------------
(***************************************************************************)
(* What module Desk promises of ownership, of recorded answers and of the  *)
(* last word, for every number of tickets, disputes, reviewers, mails,     *)
(* requests, deaths and failures.                                          *)
(*                                                                         *)
(* A claim only writes where nobody owns the case, so all that could take  *)
(* a case from its owner is a request that is about to commit another one; *)
(* the invariant says that every such request is the transfer of a ticket, *)
(* and that the requests at each other stage hold what the stage needs.    *)
(*                                                                         *)
(* That what is recorded was sent is a matter of counting: SentFirst       *)
(* compares the mails the provider took with the answers on the timeline   *)
(* and those on their way there, whatever overlaps or dies.  InTurn says   *)
(* what is so while requests come one after the other.                     *)
(***************************************************************************)
EXTENDS Desk, FiniteSetTheorems, TLAPS

Complete(job) ==
    /\ job \in Job
    /\ job.at = "claiming" => job.case \in Cases /\ job.by \in Reviewers
    /\ job.at = "transferring" => job.case \in Tickets /\ job.to \in Reviewers
    /\ job.at \in {"sending", "recording", "naming", "threading", "opening", "messaging"}
          => job.case \in Tickets
    /\ job.at \in {"threading", "opening", "messaging"} => job.account \in SupportIds

IInv == TypeOK /\ \A h \in Handlers : Complete(jobs[h])

\* A case's owner changes by a claim of an unowned case or by a transfer.
OwnerMove ==
    \A c \in Cases : owner[c] # None /\ owner'[c] # owner[c] =>
        \E h \in Handlers : jobs[h].at = "transferring" /\ jobs[h].case = c
                            /\ jobs[h].to = owner'[c] /\ c \in Tickets

Good == IInv' /\ OwnerMove

LEMMA NoJobComplete == Complete(NoJob)
  BY DEF Complete, NoJob, Job

\* The first state has no owner and no request.
LEMMA InitGood == Init => IInv
<1> SUFFICES ASSUME Init PROVE IInv
  OBVIOUS
<1>1. \A h \in Handlers : Complete(jobs[h]) /\ jobs[h] \in Job
  BY NoJobComplete DEF Init, Complete
<1>2. jobs \in [Handlers -> Job]
  BY NoJobComplete DEF Init, Complete
<1>3. NoMail \in Inbound /\ NoMail.mail = None
  BY DEF NoMail, Inbound
<1>4. TypeOK
  BY <1>2, <1>3, DeskAssumption DEF Init, TypeOK
<1> QED
  BY <1>1, <1>4 DEF IInv

\* Arriving, going on and dying keep the requests complete.
KeepsJobs ==
    /\ jobs' \in [Handlers -> Job] /\ \A h \in Handlers : Complete(jobs'[h])
    /\ inbound' = inbound
    /\ calls' \in 0..MaxCalls /\ failures' \in 0..MaxFailures /\ calm' \in BOOLEAN

LEMMA Replaced ==
    ASSUME NEW h \in Handlers, NEW job, Complete(job), IInv, jobs' = [jobs EXCEPT ![h] = job]
    PROVE  jobs' \in [Handlers -> Job] /\ \A i \in Handlers : Complete(jobs'[i])
<1>1. job \in Job /\ jobs \in [Handlers -> Job]
  BY DEF Complete, IInv, TypeOK
<1>2. \A i \in Handlers : jobs'[i] = job \/ jobs'[i] = jobs[i]
  BY <1>1
<1> QED
  BY <1>1, <1>2 DEF IInv

LEMMA ArriveKeeps ==
    ASSUME NEW h \in Handlers, NEW job, Complete(job), IInv, Arrive(h, job)
    PROVE  KeepsJobs
<1>1. jobs' = [jobs EXCEPT ![h] = job]
  BY DEF Arrive
<1>2. calls' \in 0..MaxCalls /\ failures' \in 0..MaxFailures
  BY DeskAssumption DEF Arrive, IInv, TypeOK
<1>3. calm' \in BOOLEAN
  BY DEF Arrive, IInv, TypeOK
<1> QED
  BY <1>1, <1>2, <1>3, Replaced DEF Arrive, KeepsJobs

LEMMA GoOnKeeps ==
    ASSUME NEW h \in Handlers, NEW job, Complete(job), IInv, GoOn(h, job)
    PROVE  KeepsJobs
  BY Replaced DEF GoOn, KeepsJobs, IInv, TypeOK

-----------------------------------------------------------------------------
\* Ownership.
LEMMA ClaimGood ==
    ASSUME NEW h \in Handlers, NEW c \in Cases, NEW r \in Reviewers, IInv, Claim(h, c, r)
    PROVE  Good
<1>1. Complete([NoJob EXCEPT !.at = "claiming", !.case = c, !.by = r])
  BY DEF Complete, NoJob, Job
<1>2. KeepsJobs
  BY <1>1, ArriveKeeps DEF Claim
<1>3. OwnerMove
  BY DEF Claim, OwnerMove, IInv, TypeOK
<1> QED
  BY <1>2, <1>3 DEF Claim, KeepsJobs, Good, IInv, TypeOK

LEMMA LogClaimGood ==
    ASSUME NEW h \in Handlers, IInv, LogClaim(h)
    PROVE  Good
<1>1. KeepsJobs
  BY NoJobComplete, GoOnKeeps DEF LogClaim
<1>2. claimed' \in [Cases -> SUBSET Reviewers]
  BY DEF LogClaim, Complete, IInv, TypeOK
<1> QED
  BY <1>1, <1>2 DEF LogClaim, KeepsJobs, Good, OwnerMove, IInv, TypeOK

LEMMA TransferGood ==
    ASSUME NEW h \in Handlers, NEW t \in Tickets, NEW r \in Reviewers, IInv, Transfer(h, t, r)
    PROVE  Good
<1>1. Complete([NoJob EXCEPT !.at = "transferring", !.case = t, !.to = r])
  BY DEF Complete, NoJob, Job, Cases
<1>2. KeepsJobs
  BY <1>1, ArriveKeeps DEF Transfer
<1> QED
  BY <1>2 DEF Transfer, deskVars, KeepsJobs, Good, OwnerMove, IInv, TypeOK

LEMMA CommitTransferGood ==
    ASSUME NEW h \in Handlers, IInv, CommitTransfer(h)
    PROVE  Good
<1>1. KeepsJobs
  BY NoJobComplete, GoOnKeeps DEF CommitTransfer
<1>2. jobs[h].at = "transferring" /\ jobs[h].case \in Tickets /\ jobs[h].to \in Reviewers
  BY DEF CommitTransfer, Complete, IInv
<1>3. owner' \in [Cases -> {None} \cup Reviewers] /\ OwnerMove
  BY <1>2 DEF CommitTransfer, OwnerMove, IInv, TypeOK, Cases
<1> QED
  BY <1>1, <1>3 DEF CommitTransfer, KeepsJobs, Good, IInv, TypeOK

-----------------------------------------------------------------------------
\* The answer.
LEMMA ReplyGood ==
    ASSUME NEW h \in Handlers, NEW t \in Tickets, NEW r \in Reviewers, IInv, Reply(h, t, r)
    PROVE  Good
<1> DEFINE was == t \in handled
<1>1. was \in BOOLEAN
  OBVIOUS
<1>2. Arrive(h, [NoJob EXCEPT !.at = "sending", !.case = t, !.handled = was])
  BY DEF Reply
<1> HIDE DEF was
<1>3. Complete([NoJob EXCEPT !.at = "sending", !.case = t, !.handled = was])
  BY <1>1 DEF Complete, NoJob, Job, Cases
<1>4. KeepsJobs
  BY <1>2, <1>3, ArriveKeeps
<1> QED
  BY <1>4 DEF Reply, deskVars, KeepsJobs, Good, OwnerMove, IInv, TypeOK

\* A request that goes to a stage that needs no more than its ticket.
LEMMA StaysComplete ==
    ASSUME NEW job, Complete(job), job.case \in Tickets,
           NEW stage \in {"recording", "naming"}
    PROVE  Complete([job EXCEPT !.at = stage])
  BY DEF Complete, Job

LEMMA EmailReplyGood ==
    ASSUME NEW h \in Handlers, IInv, EmailReply(h)
    PROVE  Good
<1>1. Complete(jobs[h]) /\ jobs[h].case \in Tickets
  BY DEF EmailReply, Complete, IInv
<1>2. KeepsJobs
  BY <1>1, StaysComplete, GoOnKeeps DEF EmailReply
<1>3. emailed' \in [Tickets -> Nat]
  BY <1>1 DEF EmailReply, Email, IInv, TypeOK
<1> QED
  BY <1>2, <1>3 DEF EmailReply, NotTheMail, KeepsJobs, Good, OwnerMove, IInv, TypeOK

LEMMA EmailFailsGood ==
    ASSUME NEW h \in Handlers, IInv, EmailFails(h)
    PROVE  Good
<1>1. jobs[h].case \in Tickets
  BY DEF EmailFails, Complete, IInv
<1>2. KeepsJobs
  <2>1. jobs' \in [Handlers -> Job] /\ \A i \in Handlers : Complete(jobs'[i])
    BY NoJobComplete, Replaced DEF EmailFails
  <2>2. failures' \in 0..MaxFailures
    BY DeskAssumption DEF EmailFails, IInv, TypeOK
  <2> QED
    BY <2>1, <2>2 DEF EmailFails, KeepsJobs, IInv, TypeOK
<1>3. emailed' = emailed \/ emailed' = [emailed EXCEPT ![jobs[h].case] = @ + 1]
  BY DEF EmailFails, Email
<1>4. emailed' \in [Tickets -> Nat]
  <2>1. emailed \in [Tickets -> Nat]
    BY DEF IInv, TypeOK
  <2>2. CASE emailed' = emailed
    BY <2>1, <2>2
  <2>3. CASE emailed' = [emailed EXCEPT ![jobs[h].case] = @ + 1]
    BY <1>1, <2>1, <2>3
  <2> QED
    BY <1>3, <2>2, <2>3
<1> QED
  BY <1>2, <1>4 DEF EmailFails, NotTheMail, KeepsJobs, Good, OwnerMove, IInv, TypeOK

LEMMA RecordReplyTypes ==
    ASSUME NEW h \in Handlers, IInv, jobs[h].case \in Tickets, RecordReply(h)
    PROVE  log' \in [Tickets -> Seq({"reply"} \cup Mails)] /\ handled' \subseteq Tickets
<1>1. \A t \in Tickets : Append(log[t], "reply") \in Seq({"reply"} \cup Mails)
  BY DEF IInv, TypeOK
<1> QED
  BY <1>1 DEF RecordReply, IInv, TypeOK

LEMMA FinishReplyGood ==
    ASSUME NEW h \in Handlers, IInv, FinishReply(h)
    PROVE  Good
<1>1. jobs[h].case \in Tickets
  BY DEF FinishReply, Complete, IInv
<1>2. KeepsJobs
  BY NoJobComplete, GoOnKeeps DEF FinishReply
<1>3. log' \in [Tickets -> Seq({"reply"} \cup Mails)] /\ handled' \subseteq Tickets
  BY <1>1, RecordReplyTypes DEF FinishReply
<1> QED
  BY <1>2, <1>3 DEF FinishReply, KeepsJobs, Good, OwnerMove, IInv, TypeOK

LEMMA FindSupportGood ==
    ASSUME NEW h \in Handlers, IInv, FindSupport(h)
    PROVE  Good
<1>1. Complete(jobs[h]) /\ jobs[h].case \in Tickets
  BY DEF FindSupport, Complete, IInv
<1>2. \A a \in support : Complete([jobs[h] EXCEPT !.at = "threading", !.account = a])
  BY <1>1 DEF Complete, Job, IInv, TypeOK
<1>3. KeepsJobs
  BY <1>1, <1>2, StaysComplete, GoOnKeeps DEF FindSupport
<1> QED
  BY <1>3 DEF FindSupport, deskVars, KeepsJobs, Good, OwnerMove, IInv, TypeOK

LEMMA CreateSupportGood ==
    ASSUME NEW h \in Handlers, IInv, CreateSupport(h)
    PROVE  Good
<1>1. Complete(jobs[h]) /\ jobs[h].case \in Tickets
  BY DEF CreateSupport, Complete, IInv
<1>2. PICK a \in SupportIds \ support :
          /\ support' = support \cup {a}
          /\ GoOn(h, [jobs[h] EXCEPT !.at = "threading", !.account = a, !.logged = TRUE])
  BY DEF CreateSupport
<1>3. Complete([jobs[h] EXCEPT !.at = "threading", !.account = a, !.logged = TRUE])
  BY <1>1 DEF Complete, Job
<1>4. KeepsJobs
  BY <1>2, <1>3, GoOnKeeps
<1>5. log' \in [Tickets -> Seq({"reply"} \cup Mails)] /\ handled' \subseteq Tickets
  BY <1>1, RecordReplyTypes DEF CreateSupport
<1> QED
  BY <1>2, <1>4, <1>5 DEF CreateSupport, KeepsJobs, Good, OwnerMove, IInv, TypeOK

LEMMA FindThreadGood ==
    ASSUME NEW h \in Handlers, IInv, FindThread(h)
    PROVE  Good
<1>1. PICK stage \in {"messaging", "opening"} : GoOn(h, [jobs[h] EXCEPT !.at = stage])
  BY DEF FindThread
<1>2. Complete([jobs[h] EXCEPT !.at = stage])
  BY DEF FindThread, Complete, Job, IInv
<1>3. KeepsJobs
  BY <1>1, <1>2, GoOnKeeps
<1> QED
  BY <1>3 DEF FindThread, deskVars, KeepsJobs, Good, OwnerMove, IInv, TypeOK

LEMMA OpenThreadGood ==
    ASSUME NEW h \in Handlers, IInv, OpenThread(h)
    PROVE  Good
<1>1. Complete(jobs[h]) /\ jobs[h].case \in Tickets /\ jobs[h].account \in SupportIds
  BY DEF OpenThread, Complete, IInv
<1>2. Complete([jobs[h] EXCEPT !.at = "messaging", !.logged = TRUE])
  BY <1>1 DEF Complete, Job
<1>3. KeepsJobs
  BY <1>2, GoOnKeeps DEF OpenThread
<1>4. log' \in [Tickets -> Seq({"reply"} \cup Mails)] /\ handled' \subseteq Tickets
  BY <1>1, RecordReplyTypes DEF OpenThread
<1>5. threads' \in [Tickets -> [SupportIds -> Nat]]
  BY <1>1 DEF OpenThread, IInv, TypeOK
<1> QED
  BY <1>3, <1>4, <1>5 DEF OpenThread, KeepsJobs, Good, OwnerMove, IInv, TypeOK

LEMMA SendMessageGood ==
    ASSUME NEW h \in Handlers, IInv, SendMessage(h)
    PROVE  Good
<1>1. jobs[h].case \in Tickets
  BY DEF SendMessage, Complete, IInv
<1>2. KeepsJobs
  BY NoJobComplete, GoOnKeeps DEF SendMessage
<1>3. log' \in [Tickets -> Seq({"reply"} \cup Mails)] /\ handled' \subseteq Tickets
  BY <1>1, RecordReplyTypes DEF SendMessage
<1>4. messages' \in [Tickets -> Nat]
  BY <1>1 DEF SendMessage, IInv, TypeOK
<1> QED
  BY <1>2, <1>3, <1>4 DEF SendMessage, KeepsJobs, Good, OwnerMove, IInv, TypeOK

LEMMA DieGood ==
    ASSUME NEW h \in Handlers, IInv, Die(h)
    PROVE  Good
<1>1. KeepsJobs
  <2>1. jobs' \in [Handlers -> Job] /\ \A i \in Handlers : Complete(jobs'[i])
    BY NoJobComplete, Replaced DEF Die
  <2>2. failures' \in 0..MaxFailures
    BY DeskAssumption DEF Die, IInv, TypeOK
  <2> QED
    BY <2>1, <2>2 DEF Die, KeepsJobs, IInv, TypeOK
<1> QED
  BY <1>1 DEF Die, deskVars, KeepsJobs, Good, OwnerMove, IInv, TypeOK

-----------------------------------------------------------------------------
\* The customers' mail: it leaves owners and requests alone.
LEMMA CustomerWritesGood ==
    ASSUME NEW m \in Mails, NEW to \in Addresses, IInv, CustomerWrites(m, to)
    PROVE  Good
<1>1. inbound.mail # None => inbound.mail # m
  BY DeskAssumption DEF CustomerWrites, IInv, TypeOK, Inbound, Addresses
<1>2. inbox' \in [Mails -> {None} \cup Addresses]
  BY DEF CustomerWrites, IInv, TypeOK
<1>3. inbound.mail # None => inbox'[inbound.mail] \in Fetched
  BY <1>1 DEF CustomerWrites, IInv, TypeOK, Inbound
<1> QED
  BY <1>2, <1>3 DEF CustomerWrites, Good, OwnerMove, IInv, TypeOK

LEMMA IgnoreGood ==
    ASSUME NEW m \in Mails, IInv, Ignore(m)
    PROVE  Good
  BY DEF Ignore, NotTheInbox, Good, OwnerMove, IInv, TypeOK

LEMMA ReceiveGood ==
    ASSUME NEW m \in Mails, IInv, Receive(m)
    PROVE  Good
<1>1. inbound' \in Inbound /\ inbound'.mail = m /\ inbox[m] \in Fetched
  BY DEF Receive, Inbound
<1>2. calm' \in BOOLEAN
  BY DEF Receive, IInv, TypeOK
<1> QED
  BY <1>1, <1>2 DEF Receive, NotTheInbox, Good, OwnerMove, IInv, TypeOK

LEMMA RecordMailGood ==
    ASSUME IInv, RecordMail
    PROVE  Good
<1> DEFINE m == inbound.mail
<1>1. m \in Mails /\ inbox[m] \in Tickets
  BY DEF RecordMail, IInv, TypeOK, Inbound
<1>2. Append(log[inbox[m]], m) \in Seq({"reply"} \cup Mails)
  BY <1>1 DEF IInv, TypeOK
<1>3. log' \in [Tickets -> Seq({"reply"} \cup Mails)]
  BY <1>1, <1>2 DEF RecordMail, IInv, TypeOK
<1>4. handled' \subseteq Tickets /\ processed' \subseteq Mails
  BY <1>1 DEF RecordMail, IInv, TypeOK
<1>5. inbound' \in Inbound /\ inbound'.mail = None
  BY DEF RecordMail, NoMail, Inbound
<1> QED
  BY <1>3, <1>4, <1>5 DEF RecordMail, NotTheInbox, Good, OwnerMove, IInv, TypeOK

LEMMA DropMailGood ==
    ASSUME IInv, DropMail
    PROVE  Good
<1>1. inbound' \in Inbound /\ inbound'.mail = None
  BY DEF DropMail, NoMail, Inbound
<1>2. processed' \subseteq Mails
  BY DEF DropMail, IInv, TypeOK, Inbound
<1> QED
  BY <1>1, <1>2 DEF DropMail, NotTheInbox, Good, OwnerMove, IInv, TypeOK

LEMMA ReceiveFailsGood ==
    ASSUME IInv, ReceiveFails
    PROVE  Good
<1>1. inbound' \in Inbound /\ inbound'.mail = None
  BY DEF ReceiveFails, NoMail, Inbound
<1>2. failures' \in 0..MaxFailures
  BY DeskAssumption DEF ReceiveFails, IInv, TypeOK
<1> QED
  BY <1>1, <1>2 DEF ReceiveFails, NotTheInbox, Good, OwnerMove, IInv, TypeOK

-----------------------------------------------------------------------------
LEMMA StepGood == IInv /\ [Next]_vars => Good
<1> SUFFICES ASSUME IInv, [Next]_vars PROVE Good
  OBVIOUS
<1>1. CASE UNCHANGED vars
  BY <1>1 DEF vars, deskVars, Good, OwnerMove, IInv, TypeOK
<1>2. ASSUME NEW h \in Handlers, NEW r \in Reviewers,
             \/ \E c \in Cases : Claim(h, c, r)
             \/ \E t \in Tickets : Reply(h, t, r) \/ Transfer(h, t, r)
      PROVE Good
  BY <1>2, ClaimGood, ReplyGood, TransferGood
<1>3. ASSUME NEW h \in Handlers, Resume(h) \/ Die(h) PROVE Good
  BY <1>3, LogClaimGood, CommitTransferGood, EmailReplyGood, EmailFailsGood, FinishReplyGood,
     FindSupportGood, CreateSupportGood, FindThreadGood, OpenThreadGood, SendMessageGood,
     DieGood DEF Resume
<1>4. ASSUME NEW m \in Mails,
             \/ \E to \in Addresses : CustomerWrites(m, to)
             \/ Ignore(m) \/ Receive(m)
      PROVE Good
  BY <1>4, CustomerWritesGood, IgnoreGood, ReceiveGood
<1> QED
  BY <1>1, <1>2, <1>3, <1>4, RecordMailGood, DropMailGood, ReceiveFailsGood DEF Next

-----------------------------------------------------------------------------
\* What is recorded was sent.

\* An answer that was mailed and not recorded yet, and one that was recorded
\* and not copied to the thread yet.
Mailed(job, t) ==
    /\ job.at \in {"recording", "naming", "threading", "opening", "messaging"}
    /\ job.case = t
Waits(job, t) == Mailed(job, t) /\ ~job.logged
Shown(job, t) == Mailed(job, t) /\ job.logged
Waiting(t) == {h \in Handlers : Waits(jobs[h], t)}
Showing(t) == {h \in Handlers : Shown(jobs[h], t)}
One(p) == IF p THEN 1 ELSE 0

\* Each answer the provider took is on the timeline, on its way there or lost,
\* and each message in a thread is of an answer on the timeline.
SentFirst ==
    /\ \A h \in Handlers : jobs[h].at \in {"sending", "recording", "naming"} => ~jobs[h].logged
    /\ \A t \in Tickets :
          /\ IsFiniteSet(Waiting(t)) /\ Replies(t) + Cardinality(Waiting(t)) <= emailed[t]
          /\ IsFiniteSet(Showing(t)) /\ messages[t] + Cardinality(Showing(t)) <= Replies(t)

\* A set that changes at one element.
LEMMA OneMoves ==
    ASSUME NEW S, IsFiniteSet(S), NEW T, NEW h, NEW in \in BOOLEAN, NEW out \in BOOLEAN,
           out <=> h \in S, in <=> h \in T, T \ {h} = S \ {h}
    PROVE  /\ IsFiniteSet(T) /\ Cardinality(T) \in Nat /\ Cardinality(S) \in Nat
           /\ Cardinality(T) = Cardinality(S) + One(in) - One(out)
<1> DEFINE R == S \ {h}
<1>1. /\ IsFiniteSet(R)
      /\ Cardinality(R) = IF h \in S THEN Cardinality(S) - 1 ELSE Cardinality(S)
  BY FS_RemoveElement
<1>2. /\ IsFiniteSet(R \cup {h})
      /\ Cardinality(R \cup {h}) = IF h \in R THEN Cardinality(R) ELSE Cardinality(R) + 1
  BY <1>1, FS_AddElement
<1>3. T = IF in THEN R \cup {h} ELSE R
  OBVIOUS
<1>4. Cardinality(R) \in Nat /\ Cardinality(S) \in Nat
  BY <1>1, FS_CardinalityType
<1>5. h \notin R
  OBVIOUS
<1> HIDE DEF R
<1>6. CASE in
  BY <1>1, <1>2, <1>3, <1>4, <1>5, <1>6 DEF One
<1>7. CASE ~in
  BY <1>1, <1>3, <1>4, <1>7 DEF One
<1> QED
  BY <1>6, <1>7

\* Of a request that goes on, both sets follow.
LEMMA RequestMoves ==
    ASSUME IInv, SentFirst, NEW h \in Handlers, NEW job, jobs' = [jobs EXCEPT ![h] = job],
           NEW t \in Tickets
    PROVE  /\ IsFiniteSet(Waiting(t)') /\ IsFiniteSet(Showing(t)')
           /\ Cardinality(Waiting(t)) \in Nat /\ Cardinality(Waiting(t)') \in Nat
           /\ Cardinality(Showing(t)) \in Nat /\ Cardinality(Showing(t)') \in Nat
           /\ Cardinality(Waiting(t)') =
                 Cardinality(Waiting(t)) + One(Waits(job, t)) - One(Waits(jobs[h], t))
           /\ Cardinality(Showing(t)') =
                 Cardinality(Showing(t)) + One(Shown(job, t)) - One(Shown(jobs[h], t))
<1>1. jobs'[h] = job /\ \A i \in Handlers \ {h} : jobs'[i] = jobs[i]
  BY DEF IInv, TypeOK
<1>2. IsFiniteSet(Waiting(t)) /\ IsFiniteSet(Showing(t))
  BY DEF SentFirst
<1> DEFINE W0 == Waiting(t)  W1 == Waiting(t)'  S0 == Showing(t)  S1 == Showing(t)'
<1>3. /\ (Waits(jobs[h], t) <=> h \in W0) /\ (Waits(job, t) <=> h \in W1)
      /\ W1 \ {h} = W0 \ {h}
  BY <1>1 DEF Waiting
<1>4. /\ (Shown(jobs[h], t) <=> h \in S0) /\ (Shown(job, t) <=> h \in S1)
      /\ S1 \ {h} = S0 \ {h}
  BY <1>1 DEF Showing
<1>5. \A x \in Handlers : Waits(jobs[x], t) \in BOOLEAN /\ Shown(jobs[x], t) \in BOOLEAN
  BY DEF Waits, Shown, Mailed
<1>6. Waits(job, t) \in BOOLEAN /\ Shown(job, t) \in BOOLEAN
  BY DEF Waits, Shown, Mailed
<1> HIDE DEF W0, W1, S0, S1
<1>7. /\ IsFiniteSet(W1) /\ Cardinality(W1) \in Nat /\ Cardinality(W0) \in Nat
      /\ Cardinality(W1) = Cardinality(W0) + One(Waits(job, t)) - One(Waits(jobs[h], t))
  BY <1>2, <1>3, <1>5, <1>6, OneMoves DEF W0
<1>8. /\ IsFiniteSet(S1) /\ Cardinality(S1) \in Nat /\ Cardinality(S0) \in Nat
      /\ Cardinality(S1) = Cardinality(S0) + One(Shown(job, t)) - One(Shown(jobs[h], t))
  BY <1>2, <1>4, <1>5, <1>6, OneMoves DEF S0
<1> QED
  BY <1>7, <1>8 DEF W0, W1, S0, S1

\* A step of a request that keeps the two balances of every ticket.
LEMMA BalanceKept ==
    ASSUME IInv, IInv', SentFirst, NEW h \in Handlers, NEW job, jobs' = [jobs EXCEPT ![h] = job],
           job.at \in {"sending", "recording", "naming"} => ~job.logged,
           \A t \in Tickets : Replies(t) \in Nat /\ Replies(t)' \in Nat,
           \A t \in Tickets :
              /\ Replies(t)' + One(Waits(job, t)) + emailed[t]
                    <= Replies(t) + One(Waits(jobs[h], t)) + emailed'[t]
              /\ messages'[t] + One(Shown(job, t)) + Replies(t)
                    <= messages[t] + One(Shown(jobs[h], t)) + Replies(t)'
    PROVE  SentFirst'
<1>1. ASSUME NEW i \in Handlers, jobs'[i].at \in {"sending", "recording", "naming"}
      PROVE  ~jobs'[i].logged
  BY <1>1 DEF SentFirst, IInv, TypeOK
<1>2. ASSUME NEW t \in Tickets
      PROVE  /\ IsFiniteSet(Waiting(t)') /\ Replies(t)' + Cardinality(Waiting(t)') <= emailed'[t]
             /\ IsFiniteSet(Showing(t)') /\ messages'[t] + Cardinality(Showing(t)') <= Replies(t)'
  <2> DEFINE w0 == Cardinality(Waiting(t))  w1 == Cardinality(Waiting(t)')
             s0 == Cardinality(Showing(t))  s1 == Cardinality(Showing(t)')
             a == One(Waits(job, t))  b == One(Waits(jobs[h], t))
             c == One(Shown(job, t))  d == One(Shown(jobs[h], t))
             r0 == Replies(t)  r1 == Replies(t)'
             e0 == emailed[t]  e1 == emailed'[t]  m0 == messages[t]  m1 == messages'[t]
  <2>1. /\ IsFiniteSet(Waiting(t)') /\ IsFiniteSet(Showing(t)')
        /\ w0 \in Nat /\ w1 \in Nat /\ s0 \in Nat /\ s1 \in Nat
        /\ w1 = w0 + a - b /\ s1 = s0 + c - d
    BY RequestMoves
  <2>2. r0 \in Nat /\ r1 \in Nat /\ e0 \in Nat /\ e1 \in Nat /\ m0 \in Nat /\ m1 \in Nat
    BY DEF IInv, TypeOK
  <2>3. a \in 0..1 /\ b \in 0..1 /\ c \in 0..1 /\ d \in 0..1
    BY DEF One
  <2>4. r0 + w0 <= e0 /\ m0 + s0 <= r0
    BY DEF SentFirst
  <2>5. r1 + a + e0 <= r0 + b + e1 /\ m1 + c + r0 <= m0 + d + r1
    OBVIOUS
  <2> HIDE DEF w0, w1, s0, s1, a, b, c, d, r0, r1, e0, e1, m0, m1
  <2>6. r1 + w1 <= e1 /\ m1 + s1 <= r1
    BY <2>1, <2>2, <2>3, <2>4, <2>5
  <2> QED
    BY <2>1, <2>6 DEF w0, w1, s0, s1, r0, r1, e0, e1, m0, m1
<1> QED
  BY <1>1, <1>2 DEF SentFirst

\* The number of answers on a timeline.
Answers(s) == {i \in DOMAIN s : s[i] = "reply"}

LEMMA AnswersCounted ==
    ASSUME NEW X, NEW s \in Seq(X), NEW e \in X
    PROVE  /\ Cardinality(Answers(s)) \in Nat /\ Cardinality(Answers(Append(s, e))) \in Nat
           /\ Cardinality(Answers(Append(s, e))) = Cardinality(Answers(s)) + One(e = "reply")
<1> DEFINE n == Len(s) + 1
           A == Answers(s)
           B == Answers(Append(s, e))
<1>1. /\ Len(s) \in Nat /\ DOMAIN s = 1..Len(s) /\ DOMAIN Append(s, e) = 1..n
      /\ Append(s, e)[n] = e /\ \A i \in 1..Len(s) : Append(s, e)[i] = s[i]
  OBVIOUS
<1>2. IsFiniteSet(A)
  <2>1. A \in SUBSET (1..Len(s)) /\ IsFiniteSet(1..Len(s))
    BY <1>1, FS_Interval DEF Answers
  <2> QED
    BY <2>1, FS_Subset
<1>3. (e = "reply" <=> n \in B) /\ n \notin A /\ B \ {n} = A \ {n}
  BY <1>1 DEF Answers
<1> HIDE DEF A, B, n
<1>4. /\ Cardinality(B) \in Nat /\ Cardinality(A) \in Nat
      /\ Cardinality(B) = Cardinality(A) + One(e = "reply") - One(FALSE)
  BY <1>2, <1>3, OneMoves
<1>5. Cardinality(B) = Cardinality(A) + One(e = "reply")
  BY <1>4 DEF One
<1> QED
  BY <1>4, <1>5 DEF A, B

LEMMA AnswersOf ==
    ASSUME NEW t \in Tickets
    PROVE  Replies(t) = Cardinality(Answers(log[t])) /\ Replies(t)' = Cardinality(Answers(log'[t]))
  BY DEF Replies, Answers

LEMMA RepliesAreNat ==
    ASSUME IInv
    PROVE  \A t \in Tickets : Replies(t) \in Nat
<1> SUFFICES ASSUME NEW t \in Tickets PROVE Replies(t) \in Nat
  OBVIOUS
<1>1. log[t] \in Seq({"reply"} \cup Mails)
  BY DEF IInv, TypeOK
<1> QED
  BY <1>1, AnswersCounted, AnswersOf, DeskAssumption

\* Recording an answer adds it to its ticket's, unless that was done before.
LEMMA RecordAdds ==
    ASSUME IInv, NEW h \in Handlers, jobs[h].case \in Tickets, RecordReply(h), NEW t \in Tickets
    PROVE  Replies(t)' = Replies(t) + One(t = jobs[h].case /\ ~jobs[h].logged)
<1>1. log[t] \in Seq({"reply"} \cup Mails) /\ Replies(t) \in Nat
  BY RepliesAreNat DEF IInv, TypeOK
<1>2. CASE jobs[h].logged \/ t # jobs[h].case
  <2>1. log'[t] = log[t]
    BY <1>2 DEF RecordReply, IInv, TypeOK
  <2> QED
    BY <1>1, <1>2, <2>1 DEF Replies, One
<1>3. CASE ~jobs[h].logged /\ t = jobs[h].case
  <2>1. log'[t] = Append(log[t], "reply")
    BY <1>3 DEF RecordReply, IInv, TypeOK
  <2>2. Cardinality(Answers(Append(log[t], "reply"))) = Cardinality(Answers(log[t])) + One("reply" = "reply")
    BY <1>1, AnswersCounted
  <2>3. Replies(t)' = Replies(t) + One("reply" = "reply")
    BY <2>1, <2>2, AnswersOf
  <2> QED
    BY <1>3, <2>3 DEF One
<1> QED
  BY <1>2, <1>3

LEMMA SameLog ==
    ASSUME NEW t \in Tickets, log' = log
    PROVE  Replies(t)' = Replies(t)
  BY DEF Replies

\* A step that leaves the answers where they are.
LEMMA NothingSent ==
    ASSUME IInv, IInv', SentFirst, NEW h \in Handlers, NEW job, jobs' = [jobs EXCEPT ![h] = job],
           UNCHANGED <<log, emailed, messages>>,
           job.at \in {"sending", "recording", "naming"} => ~job.logged,
           \A t \in Tickets :
              (Waits(job, t) => Waits(jobs[h], t)) /\ (Shown(job, t) => Shown(jobs[h], t))
    PROVE  SentFirst'
<1>1. \A t \in Tickets : Replies(t) \in Nat /\ Replies(t)' = Replies(t)
  BY RepliesAreNat, SameLog
<1>2. ASSUME NEW t \in Tickets
      PROVE  /\ Replies(t)' + One(Waits(job, t)) + emailed[t]
                   <= Replies(t) + One(Waits(jobs[h], t)) + emailed'[t]
             /\ messages'[t] + One(Shown(job, t)) + Replies(t)
                   <= messages[t] + One(Shown(jobs[h], t)) + Replies(t)'
  <2>1. emailed[t] \in Nat /\ messages[t] \in Nat
    BY DEF IInv, TypeOK
  <2>2. One(Waits(job, t)) <= One(Waits(jobs[h], t)) /\ One(Shown(job, t)) <= One(Shown(jobs[h], t))
    BY DEF One
  <2>3. \A p : One(p) \in 0..1
    BY DEF One
  <2> QED
    BY <1>1, <2>1, <2>2, <2>3
<1> QED
  BY <1>1, <1>2, BalanceKept

\* Requests that begin with neither, or end.
LEMMA ArriveSent ==
    ASSUME IInv, IInv', SentFirst, NEW h \in Handlers, NEW job, jobs' = [jobs EXCEPT ![h] = job],
           job.at \in {"idle", "claiming", "transferring", "sending"}, ~job.logged,
           UNCHANGED <<log, emailed, messages>>
    PROVE  SentFirst'
<1>1. \A t \in Tickets : ~Waits(job, t) /\ ~Shown(job, t)
  BY DEF Waits, Shown, Mailed
<1> QED
  BY <1>1, NothingSent

LEMMA BeginsSent ==
    ASSUME IInv, IInv', SentFirst, NEW h \in Handlers,
           \/ \E r \in Reviewers : \/ \E c \in Cases : Claim(h, c, r)
                                   \/ \E t \in Tickets : Reply(h, t, r) \/ Transfer(h, t, r)
           \/ LogClaim(h) \/ CommitTransfer(h) \/ Die(h)
    PROVE  SentFirst'
<1>1. NoJob.at = "idle" /\ ~NoJob.logged
  BY DEF NoJob
<1>2. ASSUME NEW r \in Reviewers, NEW c \in Cases, Claim(h, c, r) PROVE SentFirst'
  <2> DEFINE job == [NoJob EXCEPT !.at = "claiming", !.case = c, !.by = r]
  <2>1. jobs' = [jobs EXCEPT ![h] = job] /\ UNCHANGED <<log, emailed, messages>>
    BY <1>2 DEF Claim, Arrive
  <2>2. job.at \in {"idle", "claiming", "transferring", "sending"} /\ ~job.logged
    BY DEF NoJob
  <2> HIDE DEF job
  <2> QED
    BY <2>1, <2>2, ArriveSent
<1>3. ASSUME NEW r \in Reviewers, NEW t \in Tickets, Reply(h, t, r) PROVE SentFirst'
  <2> DEFINE was == t \in handled
             job == [NoJob EXCEPT !.at = "sending", !.case = t, !.handled = was]
  <2>1. jobs' = [jobs EXCEPT ![h] = job] /\ UNCHANGED <<log, emailed, messages>>
    BY <1>3 DEF Reply, Arrive, deskVars
  <2> HIDE DEF was
  <2>2. job.at \in {"idle", "claiming", "transferring", "sending"} /\ ~job.logged
    BY DEF NoJob
  <2> HIDE DEF job
  <2> QED
    BY <2>1, <2>2, ArriveSent
<1>4. ASSUME NEW r \in Reviewers, NEW t \in Tickets, Transfer(h, t, r) PROVE SentFirst'
  <2> DEFINE job == [NoJob EXCEPT !.at = "transferring", !.case = t, !.to = r]
  <2>1. jobs' = [jobs EXCEPT ![h] = job] /\ UNCHANGED <<log, emailed, messages>>
    BY <1>4 DEF Transfer, Arrive, deskVars
  <2>2. job.at \in {"idle", "claiming", "transferring", "sending"} /\ ~job.logged
    BY DEF NoJob
  <2> HIDE DEF job
  <2> QED
    BY <2>1, <2>2, ArriveSent
<1>5. CASE LogClaim(h) \/ CommitTransfer(h) \/ Die(h)
  BY <1>1, <1>5, ArriveSent DEF LogClaim, CommitTransfer, Die, GoOn, deskVars
<1> QED
  BY <1>2, <1>3, <1>4, <1>5

\* The answer that is mailed waits from then on.
LEMMA EmailSent ==
    ASSUME IInv, IInv', SentFirst, NEW h \in Handlers, EmailReply(h) \/ EmailFails(h)
    PROVE  SentFirst'
<1> DEFINE c == jobs[h].case
           p == [jobs[h] EXCEPT !.at = "recording"]
<1>1. /\ jobs[h].at = "sending" /\ c \in Tickets /\ ~jobs[h].logged
      /\ jobs[h] \in Job /\ p.at = "recording" /\ ~p.logged /\ p.case = c
      /\ NoJob.at = "idle"
  BY DEF EmailReply, EmailFails, IInv, Complete, SentFirst, NoJob, Job
<1>2. \A t \in Tickets : Replies(t) \in Nat /\ Replies(t)' = Replies(t)
  BY RepliesAreNat, SameLog DEF EmailReply, EmailFails, NotTheMail
<1>3. messages' = messages
  BY DEF EmailReply, EmailFails, NotTheMail
<1>4. emailed \in [Tickets -> Nat] /\ messages \in [Tickets -> Nat]
  BY DEF IInv, TypeOK
<1>5. \A q : One(q) \in 0..1
  BY DEF One
<1>6. CASE EmailReply(h)
  <2>1. jobs' = [jobs EXCEPT ![h] = p]
    BY <1>6 DEF EmailReply, GoOn
  <2>2. ASSUME NEW t \in Tickets
        PROVE  /\ One(Waits(p, t)) + emailed[t] <= One(Waits(jobs[h], t)) + emailed'[t]
               /\ ~Shown(p, t) /\ ~Shown(jobs[h], t)
    <3>1. (Waits(p, t) <=> t = c) /\ ~Shown(p, t) /\ ~Shown(jobs[h], t) /\ ~Waits(jobs[h], t)
      BY <1>1 DEF Waits, Shown, Mailed
    <3>2. emailed'[t] = IF t = c THEN emailed[t] + 1 ELSE emailed[t]
      BY <1>4, <1>6 DEF EmailReply, Email
    <3> QED
      BY <1>4, <3>1, <3>2 DEF One
  <2> HIDE DEF p, c
  <2>3. ASSUME NEW t \in Tickets
        PROVE  /\ Replies(t)' + One(Waits(p, t)) + emailed[t]
                   <= Replies(t) + One(Waits(jobs[h], t)) + emailed'[t]
               /\ messages'[t] + One(Shown(p, t)) + Replies(t)
                   <= messages[t] + One(Shown(jobs[h], t)) + Replies(t)'
    <3>1. emailed[t] \in Nat /\ emailed'[t] \in Nat /\ messages[t] \in Nat
      BY <1>4 DEF IInv, TypeOK
    <3>2. One(Shown(p, t)) = 0 /\ One(Shown(jobs[h], t)) = 0
      BY <2>2 DEF One
    <3> QED
      BY <1>2, <1>3, <1>5, <2>2, <3>1, <3>2
  <2> QED
    BY <1>1, <1>2, <2>1, <2>3, BalanceKept
<1>7. CASE EmailFails(h)
  <2>1. jobs' = [jobs EXCEPT ![h] = NoJob]
    BY <1>7 DEF EmailFails
  <2>2. ASSUME NEW t \in Tickets
        PROVE  /\ Replies(t)' + One(Waits(NoJob, t)) + emailed[t]
                   <= Replies(t) + One(Waits(jobs[h], t)) + emailed'[t]
               /\ messages'[t] + One(Shown(NoJob, t)) + Replies(t)
                   <= messages[t] + One(Shown(jobs[h], t)) + Replies(t)'
    <3>1. ~Waits(NoJob, t) /\ ~Shown(NoJob, t) /\ ~Shown(jobs[h], t)
      BY <1>1 DEF Waits, Shown, Mailed
    <3>2. emailed'[t] = emailed[t] \/ emailed'[t] = emailed[t] + 1
      BY <1>4, <1>7 DEF EmailFails, Email
    <3>3. One(Waits(NoJob, t)) = 0 /\ One(Shown(NoJob, t)) = 0 /\ One(Shown(jobs[h], t)) = 0
      BY <3>1 DEF One
    <3>4. emailed[t] \in Nat /\ messages[t] \in Nat
      BY <1>4
    <3> QED
      BY <1>2, <1>3, <1>5, <3>2, <3>3, <3>4
  <2> QED
    BY <1>1, <1>2, <2>1, <2>2, BalanceKept
<1> QED
  BY <1>6, <1>7

\* The answer that is recorded waits no longer; it is copied, or will be.
LEMMA RecordSent ==
    ASSUME IInv, IInv', SentFirst, NEW h \in Handlers, RecordReply(h), emailed' = emailed,
           NEW job, jobs' = [jobs EXCEPT ![h] = job],
           jobs[h].at \in {"recording", "naming", "threading", "opening", "messaging"},
           \/ /\ job.at \in {"threading", "opening", "messaging"}
              /\ job.logged /\ job.case = jobs[h].case /\ messages' = messages
           \/ /\ job = NoJob
              /\ \/ messages' = messages
                 \/ messages' = [messages EXCEPT ![jobs[h].case] = @ + 1]
    PROVE  SentFirst'
<1> DEFINE c == jobs[h].case
           l == jobs[h].logged
           q == messages' # messages
<1>1. c \in Tickets /\ jobs[h] \in Job /\ l \in BOOLEAN
  BY DEF IInv, Complete, Job
<1>2. \A t \in Tickets : Replies(t) \in Nat /\ Replies(t)' = Replies(t) + One(t = c /\ ~l)
  BY <1>1, RepliesAreNat, RecordAdds
<1>3. NoJob.at = "idle"
  BY DEF NoJob
<1>4. ASSUME NEW t \in Tickets
      PROVE  /\ Replies(t)' + One(Waits(job, t)) + emailed[t]
                 <= Replies(t) + One(Waits(jobs[h], t)) + emailed'[t]
             /\ messages'[t] + One(Shown(job, t)) + Replies(t)
                 <= messages[t] + One(Shown(jobs[h], t)) + Replies(t)'
  <2>1. ~Waits(job, t) /\ (Waits(jobs[h], t) <=> t = c /\ ~l) /\ (Shown(jobs[h], t) <=> t = c /\ l)
    BY <1>1, <1>3 DEF Waits, Shown, Mailed
  <2>2. emailed[t] \in Nat /\ messages[t] \in Nat /\ messages \in [Tickets -> Nat]
    BY DEF IInv, TypeOK
  <2>3. messages'[t] + One(Shown(job, t)) <= messages[t] + One(t = c)
    <3>1. CASE job.logged /\ job.case = c /\ messages' = messages
             /\ job.at \in {"threading", "opening", "messaging"}
      BY <2>2, <3>1 DEF Shown, Mailed, One
    <3>2. CASE job = NoJob
      <4>1. ~Shown(job, t)
        BY <1>3, <3>2 DEF Shown, Mailed
      <4>2. messages'[t] <= messages[t] + One(t = c)
        BY <1>1, <2>2, <3>2, <1>3 DEF One
      <4>3. messages'[t] \in Nat
        BY DEF IInv, TypeOK
      <4> QED
        BY <4>1, <4>2, <4>3 DEF One
    <3> QED
      BY <3>1, <3>2
  <2>4. One(t = c) = One(t = c /\ ~l) + One(t = c /\ l)
    BY <1>1 DEF One
  <2>5. /\ One(Waits(job, t)) = 0 /\ One(Waits(jobs[h], t)) = One(t = c /\ ~l)
        /\ One(Shown(jobs[h], t)) = One(t = c /\ l)
    BY <2>1 DEF One
  <2>6. /\ One(t = c /\ ~l) \in Nat /\ One(t = c /\ l) \in Nat /\ One(Shown(job, t)) \in Nat
        /\ messages'[t] \in Nat
    BY DEF One, IInv, TypeOK
  <2>7. Replies(t) \in Nat /\ Replies(t)' = Replies(t) + One(t = c /\ ~l) /\ emailed'[t] = emailed[t]
    BY <1>2
  <2> HIDE DEF c, l
  <2> QED
    BY <2>2, <2>3, <2>4, <2>5, <2>6, <2>7
<1>5. \A t \in Tickets : Replies(t)' \in Nat
  BY RepliesAreNat, <1>2 DEF One
<1>6. job.at \in {"sending", "recording", "naming"} => ~job.logged
  BY <1>3
<1> QED
  BY <1>2, <1>4, <1>5, <1>6, BalanceKept

LEMMA AnswerSent ==
    ASSUME IInv, IInv', SentFirst, NEW h \in Handlers,
           FinishReply(h) \/ CreateSupport(h) \/ OpenThread(h) \/ SendMessage(h)
    PROVE  SentFirst'
<1>1. jobs[h] \in Job
  BY DEF IInv, Complete
<1>2. CASE FinishReply(h)
  BY <1>2, RecordSent DEF FinishReply, GoOn
<1>3. CASE SendMessage(h)
  BY <1>3, RecordSent DEF SendMessage, GoOn
<1>4. CASE OpenThread(h)
  <2> DEFINE job == [jobs[h] EXCEPT !.at = "messaging", !.logged = TRUE]
  <2>1. job.at = "messaging" /\ job.logged /\ job.case = jobs[h].case
    BY <1>1 DEF Job
  <2>2. /\ jobs' = [jobs EXCEPT ![h] = job] /\ jobs[h].at = "opening" /\ RecordReply(h)
        /\ emailed' = emailed /\ messages' = messages
    BY <1>4 DEF OpenThread, GoOn
  <2> HIDE DEF job
  <2> QED
    BY <2>1, <2>2, RecordSent
<1>5. CASE CreateSupport(h)
  <2>1. PICK a \in SupportIds \ support :
            GoOn(h, [jobs[h] EXCEPT !.at = "threading", !.account = a, !.logged = TRUE])
    BY <1>5 DEF CreateSupport
  <2> DEFINE job == [jobs[h] EXCEPT !.at = "threading", !.account = a, !.logged = TRUE]
  <2>2. job.at = "threading" /\ job.logged /\ job.case = jobs[h].case
    BY <1>1 DEF Job
  <2>3. /\ jobs' = [jobs EXCEPT ![h] = job] /\ jobs[h].at = "naming" /\ RecordReply(h)
        /\ emailed' = emailed /\ messages' = messages
    BY <1>5, <2>1 DEF CreateSupport, GoOn
  <2> HIDE DEF job
  <2> QED
    BY <2>2, <2>3, RecordSent
<1> QED
  BY <1>2, <1>3, <1>4, <1>5

\* Looking for the account and for the thread moves nothing.
LEMMA LookSent ==
    ASSUME IInv, IInv', SentFirst, NEW h \in Handlers, FindSupport(h) \/ FindThread(h)
    PROVE  SentFirst'
<1>1. jobs[h] \in Job
  BY DEF IInv, Complete
<1>2. PICK job :
         /\ jobs' = [jobs EXCEPT ![h] = job]
         /\ job.logged = jobs[h].logged /\ job.case = jobs[h].case
         /\ job.at \in {"naming", "threading", "opening", "messaging"}
         /\ job.at = "naming" => jobs[h].at = "recording"
  BY <1>1 DEF FindSupport, FindThread, GoOn, Job
<1>3. /\ jobs[h].at \in {"recording", "threading"}
      /\ UNCHANGED <<log, emailed, messages>>
  BY DEF FindSupport, FindThread, deskVars
<1>4. \A t \in Tickets : (Waits(job, t) => Waits(jobs[h], t)) /\ (Shown(job, t) => Shown(jobs[h], t))
  BY <1>2, <1>3 DEF Waits, Shown, Mailed
<1>5. job.at \in {"sending", "recording", "naming"} => ~job.logged
  BY <1>2 DEF SentFirst
<1> QED
  BY <1>2, <1>3, <1>4, <1>5, NothingSent

\* The customers' mail is no answer.
LEMMA MailSent ==
    ASSUME IInv, IInv', SentFirst, RecordMail
    PROVE  SentFirst'
<1> DEFINE m == inbound.mail
<1>1. m \in Mails /\ m # "reply" /\ UNCHANGED <<jobs, emailed, messages>>
  BY DeskAssumption DEF RecordMail, NotTheInbox, IInv, TypeOK, Inbound
<1>2. \A t \in Tickets : Replies(t)' = Replies(t)
  <2> SUFFICES ASSUME NEW t \in Tickets PROVE Replies(t)' = Replies(t)
    OBVIOUS
  <2>1. log[t] \in Seq({"reply"} \cup Mails) /\ Replies(t) \in Nat
    BY RepliesAreNat DEF IInv, TypeOK
  <2>2. log'[t] = log[t] \/ log'[t] = Append(log[t], m)
    BY DEF RecordMail, IInv, TypeOK
  <2>3. CASE log'[t] = log[t]
    BY <2>3, AnswersOf
  <2>4. CASE log'[t] = Append(log[t], m)
    <3>1. Cardinality(Answers(Append(log[t], m))) = Cardinality(Answers(log[t])) + One(m = "reply")
      BY <1>1, <2>1, AnswersCounted
    <3>2. Replies(t)' = Replies(t) + One(m = "reply")
      BY <2>4, <3>1, AnswersOf
    <3> QED
      BY <1>1, <2>1, <3>2 DEF One
  <2> QED
    BY <2>2, <2>3, <2>4
<1>3. \A t \in Tickets : Waiting(t)' = Waiting(t) /\ Showing(t)' = Showing(t)
  BY <1>1 DEF Waiting, Showing
<1> QED
  BY <1>1, <1>2, <1>3 DEF SentFirst

LEMMA RestSent ==
    ASSUME SentFirst, UNCHANGED <<log, emailed, messages, jobs>>
    PROVE  SentFirst'
<1>1. \A t \in Tickets : Replies(t)' = Replies(t)
  BY SameLog
<1>2. \A t \in Tickets : Waiting(t)' = Waiting(t) /\ Showing(t)' = Showing(t)
  BY DEF Waiting, Showing
<1> QED
  BY <1>1, <1>2 DEF SentFirst

LEMMA StepSent == IInv /\ SentFirst /\ [Next]_vars => SentFirst'
<1> SUFFICES ASSUME IInv, SentFirst, [Next]_vars PROVE SentFirst'
  OBVIOUS
<1>1. IInv'
  BY StepGood DEF Good
<1>2. CASE UNCHANGED vars
  BY <1>2, RestSent DEF vars, deskVars
<1>3. ASSUME NEW h \in Handlers,
             \/ \E r \in Reviewers : \/ \E c \in Cases : Claim(h, c, r)
                                     \/ \E t \in Tickets : Reply(h, t, r) \/ Transfer(h, t, r)
             \/ Resume(h) \/ Die(h)
      PROVE SentFirst'
  BY <1>1, <1>3, BeginsSent, EmailSent, AnswerSent, LookSent DEF Resume
<1>4. ASSUME NEW m \in Mails,
             \/ \E to \in Addresses : CustomerWrites(m, to)
             \/ Ignore(m) \/ Receive(m)
      PROVE SentFirst'
  BY <1>4, RestSent DEF CustomerWrites, Ignore, Receive, NotTheInbox
<1>5. CASE RecordMail \/ DropMail \/ ReceiveFails
  BY <1>1, <1>5, MailSent, RestSent DEF DropMail, ReceiveFails, NotTheInbox
<1> QED
  BY <1>2, <1>3, <1>4, <1>5 DEF Next

-----------------------------------------------------------------------------
\* One request after the other.

\* Nothing else is going on while a request or a mail is handled.
Alone ==
    /\ \A g, h \in Handlers : jobs[g] # NoJob /\ jobs[h] # NoJob => g = h
    /\ inbound # NoMail => \A h \in Handlers : jobs[h] = NoJob
\* What was read of the flag is still so.
ReadIsSo ==
    /\ inbound.mail # None => (inbound.handled <=> inbox[inbound.mail] \in handled)
    /\ \A h \in Handlers :
          (/\ jobs[h].at \in {"sending", "recording", "naming", "threading", "opening", "messaging"}
           /\ ~jobs[h].logged) => (jobs[h].handled <=> jobs[h].case \in handled)
\* The flag follows the last word.
LastWords ==
    \A t \in Tickets : log[t] # <<>> => (t \in handled <=> log[t][Len(log[t])] = "reply")
\* There is one account, and one thread of it and a member.
OneAccount ==
    /\ support \subseteq {1}
    /\ \A t \in Tickets : /\ threads[t][1] <= 1
                          /\ messages[t] > 0 => support = {1} /\ threads[t][1] = 1
KnowsAccount(job, accounts, open) ==
    /\ job.at = "naming" => accounts = {} /\ job.case \in Members
    /\ job.at \in {"threading", "opening", "messaging"} =>
          accounts = {1} /\ job.account = 1 /\ job.case \in Members
    /\ job.at = "opening" => open[job.case][1] = 0
    /\ job.at = "messaging" => open[job.case][1] = 1
\* A member's answers are in the thread, but for the one on its way there.
Copied ==
    \A t \in Members :
       Replies(t) = messages[t] + One(\E h \in Handlers : Shown(jobs[h], t))

InTurn ==
    /\ Alone /\ ReadIsSo /\ LastWords /\ OneAccount /\ Copied
    /\ \A h \in Handlers : KnowsAccount(jobs[h], support, threads)

\* Whoever has something to do is the only one.
LEMMA MyTurn ==
    ASSUME IInv, InTurn, NEW h \in Handlers, jobs[h] # NoJob
    PROVE  /\ inbound = NoMail /\ \A i \in Handlers \ {h} : jobs[i] = NoJob
           /\ \A t \in Members : Replies(t) = messages[t] + One(Shown(jobs[h], t))
<1>1. inbound = NoMail /\ \A i \in Handlers \ {h} : jobs[i] = NoJob
  BY DEF InTurn, Alone
<1>2. \A t \in Members : (\E i \in Handlers : Shown(jobs[i], t)) <=> Shown(jobs[h], t)
  <2>1. \A t : ~Shown(NoJob, t)
    BY DEF Shown, Mailed, NoJob
  <2> QED
    BY <1>1, <2>1
<1> QED
  BY <1>1, <1>2 DEF InTurn, Copied, One

\* A request in its turn goes on to job.
LEMMA TurnKept ==
    ASSUME IInv, NEW h \in Handlers, NEW job, jobs' = [jobs EXCEPT ![h] = job],
           \A i \in Handlers \ {h} : jobs[i] = NoJob, inbound = NoMail, inbound' = inbound,
           (/\ job.at \in {"sending", "recording", "naming", "threading", "opening", "messaging"}
            /\ ~job.logged) => (job.handled <=> job.case \in handled'),
           LastWords', OneAccount', KnowsAccount(job, support', threads'),
           \A t \in Members : Replies(t)' = messages'[t] + One(Shown(job, t))
    PROVE  InTurn'
<1>1. jobs'[h] = job /\ \A i \in Handlers \ {h} : jobs'[i] = NoJob
  BY DEF IInv, TypeOK
<1>2. NoJob.at = "idle" /\ NoMail.mail = None
  BY DEF NoJob, NoMail
<1>3. Alone'
  BY <1>1 DEF Alone
<1>4. ReadIsSo'
  BY <1>1, <1>2 DEF ReadIsSo
<1>5. \A i \in Handlers : KnowsAccount(jobs'[i], support', threads')
  BY <1>1, <1>2 DEF KnowsAccount
<1>6. Copied'
  <2>1. \A t \in Members : (\E i \in Handlers : Shown(jobs'[i], t)) <=> Shown(job, t)
    <3>1. \A t : ~Shown(NoJob, t)
      BY <1>2 DEF Shown, Mailed
    <3> QED
      BY <1>1, <3>1
  <2> QED
    BY <2>1 DEF Copied, One
<1> QED
  BY <1>3, <1>4, <1>5, <1>6 DEF InTurn

\* What a step leaves alone stays so.
LEMMA FlagsRest ==
    ASSUME InTurn, UNCHANGED <<log, handled, support, threads, messages>>
    PROVE  /\ LastWords' /\ OneAccount'
           /\ \A t \in Tickets : Replies(t)' = Replies(t)
  BY SameLog DEF InTurn, LastWords, OneAccount

LEMMA ArriveInTurn ==
    ASSUME IInv, calm => InTurn, calm', NEW h \in Handlers, NEW job, Arrive(h, job),
           UNCHANGED <<log, handled, support, threads, messages>>,
           job.at \in {"claiming", "transferring", "sending"},
           job.at = "sending" => (job.handled <=> job.case \in handled)
    PROVE  InTurn'
<1>1. /\ calm /\ inbound = NoMail /\ inbound' = inbound /\ \A i \in Handlers : jobs[i] = NoJob
      /\ jobs' = [jobs EXCEPT ![h] = job]
  BY DEF Arrive
<1>2. \A t : ~Shown(NoJob, t) /\ ~Shown(job, t)
  BY DEF Shown, Mailed, NoJob
<1>3. \A t \in Members : Replies(t) = messages[t] + One(Shown(job, t))
  BY <1>1, <1>2 DEF InTurn, Copied, One
<1>4. LastWords' /\ OneAccount' /\ \A t \in Members : Replies(t)' = Replies(t)
  BY <1>1, FlagsRest, DeskAssumption
<1>5. KnowsAccount(job, support', threads')
  BY DEF KnowsAccount
<1> QED
  BY <1>1, <1>3, <1>4, <1>5, TurnKept

LEMMA BeginsInTurn ==
    ASSUME IInv, calm => InTurn, calm', NEW h \in Handlers, NEW r \in Reviewers,
           \/ \E c \in Cases : Claim(h, c, r)
           \/ \E t \in Tickets : Reply(h, t, r) \/ Transfer(h, t, r)
    PROVE  InTurn'
<1>1. ASSUME NEW c \in Cases, Claim(h, c, r) PROVE InTurn'
  <2> DEFINE job == [NoJob EXCEPT !.at = "claiming", !.case = c, !.by = r]
  <2>1. Arrive(h, job) /\ UNCHANGED <<log, handled, support, threads, messages>>
    BY <1>1 DEF Claim
  <2>2. job.at = "claiming"
    BY DEF NoJob
  <2> HIDE DEF job
  <2> QED
    BY <2>1, <2>2, ArriveInTurn
<1>2. ASSUME NEW t \in Tickets, Transfer(h, t, r) PROVE InTurn'
  <2> DEFINE job == [NoJob EXCEPT !.at = "transferring", !.case = t, !.to = r]
  <2>1. Arrive(h, job) /\ UNCHANGED <<log, handled, support, threads, messages>>
    BY <1>2 DEF Transfer, deskVars
  <2>2. job.at = "transferring"
    BY DEF NoJob
  <2> HIDE DEF job
  <2> QED
    BY <2>1, <2>2, ArriveInTurn
<1>3. ASSUME NEW t \in Tickets, Reply(h, t, r) PROVE InTurn'
  <2> DEFINE was == t \in handled
             job == [NoJob EXCEPT !.at = "sending", !.case = t, !.handled = was]
  <2>1. Arrive(h, job) /\ UNCHANGED <<log, handled, support, threads, messages>>
    BY <1>3 DEF Reply, deskVars
  <2> HIDE DEF was
  <2>2. job.at = "sending" /\ job.case = t /\ (job.handled <=> was)
    BY DEF NoJob
  <2> HIDE DEF job
  <2>3. job.handled <=> job.case \in handled
    BY <2>2 DEF was
  <2> QED
    BY <2>1, <2>2, <2>3, ArriveInTurn
<1> QED
  BY <1>1, <1>2, <1>3

LEMMA BusyIsNotNoJob == \A job : job.at # "idle" => job # NoJob
  BY DEF NoJob

\* Ownership and the mail to the customer.
LEMMA EarlyInTurn ==
    ASSUME IInv, SentFirst, calm => InTurn, calm', NEW h \in Handlers,
           LogClaim(h) \/ CommitTransfer(h) \/ EmailReply(h)
    PROVE  InTurn'
<1>1. /\ calm /\ inbound' = inbound /\ jobs[h].at # "idle"
      /\ UNCHANGED <<log, handled, support, threads, messages>>
  BY DEF LogClaim, CommitTransfer, EmailReply, GoOn, NotTheMail
<1>2. /\ inbound = NoMail /\ \A i \in Handlers \ {h} : jobs[i] = NoJob
      /\ \A t \in Members : Replies(t) = messages[t] + One(Shown(jobs[h], t))
  BY <1>1, MyTurn, BusyIsNotNoJob
<1>3. LastWords' /\ OneAccount' /\ \A t \in Members : Replies(t)' = Replies(t)
  BY <1>1, FlagsRest, DeskAssumption
<1>4. CASE LogClaim(h) \/ CommitTransfer(h)
  <2>1. jobs' = [jobs EXCEPT ![h] = NoJob] /\ jobs[h].at \in {"claiming", "transferring"}
    BY <1>4 DEF LogClaim, CommitTransfer, GoOn
  <2>2. NoJob.at = "idle" /\ \A t : ~Shown(NoJob, t) /\ ~Shown(jobs[h], t)
    BY <2>1 DEF NoJob, Shown, Mailed
  <2>3. KnowsAccount(NoJob, support', threads')
    BY <2>2 DEF KnowsAccount
  <2>4. \A t \in Members : Replies(t)' = messages'[t] + One(Shown(NoJob, t))
    BY <1>1, <1>2, <1>3, <2>2 DEF One
  <2> QED
    BY <1>1, <1>2, <1>3, <2>1, <2>2, <2>3, <2>4, TurnKept
<1>5. CASE EmailReply(h)
  <2> DEFINE job == [jobs[h] EXCEPT !.at = "recording"]
  <2>1. jobs' = [jobs EXCEPT ![h] = job] /\ jobs[h].at = "sending" /\ ~jobs[h].logged
    BY <1>5 DEF EmailReply, GoOn, SentFirst
  <2>2. job.at = "recording" /\ job.case = jobs[h].case /\ job.handled = jobs[h].handled /\ ~job.logged
    BY <2>1 DEF IInv, Complete, Job
  <2> HIDE DEF job
  <2>3. job.handled <=> job.case \in handled'
    BY <1>1, <2>1, <2>2 DEF InTurn, ReadIsSo
  <2>4. KnowsAccount(job, support', threads')
    BY <2>2 DEF KnowsAccount
  <2>5. \A t \in Members : Replies(t)' = messages'[t] + One(Shown(job, t))
    <3>1. \A t : ~Shown(job, t) /\ ~Shown(jobs[h], t)
      BY <2>1, <2>2 DEF Shown, Mailed
    <3> QED
      BY <1>1, <1>2, <1>3, <3>1 DEF One
  <2> QED
    BY <1>1, <1>2, <1>3, <2>1, <2>3, <2>4, <2>5, TurnKept
<1> QED
  BY <1>4, <1>5

\* The answer recorded, the last word on its ticket is ours.
LEMMA RecordInTurn ==
    ASSUME IInv, InTurn, NEW h \in Handlers, RecordReply(h),
           jobs[h].at \in {"recording", "naming", "threading", "opening", "messaging"}
    PROVE  /\ LastWords'
           /\ \A t \in Members : Replies(t)' = messages[t] + One(t = jobs[h].case)
           /\ inbound = NoMail /\ \A i \in Handlers \ {h} : jobs[i] = NoJob
<1> DEFINE c == jobs[h].case
           l == jobs[h].logged
<1>1. c \in Tickets /\ l \in BOOLEAN /\ jobs[h].at # "idle"
  BY DEF IInv, Complete, Job
<1>2. /\ inbound = NoMail /\ \A i \in Handlers \ {h} : jobs[i] = NoJob
      /\ \A t \in Members : Replies(t) = messages[t] + One(Shown(jobs[h], t))
  BY <1>1, MyTurn, BusyIsNotNoJob
<1>3. ASSUME NEW t \in Members PROVE Replies(t)' = messages[t] + One(t = c)
  <2>1. t \in Tickets
    BY DeskAssumption
  <2>2. Replies(t)' = Replies(t) + One(t = c /\ ~l)
    BY <1>1, <2>1, RecordAdds
  <2>3. Shown(jobs[h], t) <=> t = c /\ l
    BY DEF Shown, Mailed
  <2>4. messages[t] \in Nat
    BY <2>1 DEF IInv, TypeOK
  <2>5. Replies(t) = messages[t] + One(t = c /\ l)
    BY <1>2, <2>3 DEF One
  <2> HIDE DEF c, l
  <2> QED
    BY <1>1, <2>2, <2>4, <2>5 DEF One
<1>4. LastWords'
  <2>1. CASE l
    BY <2>1 DEF RecordReply, InTurn, LastWords
  <2>2. CASE ~l
    <3>1. c \in handled' /\ \A t \in Tickets \ {c} : t \in handled' <=> t \in handled
      BY <2>2 DEF RecordReply, InTurn, ReadIsSo
    <3>2. log[c] \in Seq({"reply"} \cup Mails)
      BY <1>1 DEF IInv, TypeOK
    <3>3. log'[c] = Append(log[c], "reply") /\ \A t \in Tickets \ {c} : log'[t] = log[t]
      BY <1>1, <2>2 DEF RecordReply, IInv, TypeOK
    <3>4. log'[c][Len(log'[c])] = "reply"
      BY <3>2, <3>3
    <3> HIDE DEF c, l
    <3> QED
      BY <3>1, <3>3, <3>4 DEF InTurn, LastWords
  <2> QED
    BY <1>1, <2>1, <2>2
<1> QED
  BY <1>2, <1>3, <1>4

LEMMA FinishInTurn ==
    ASSUME IInv, calm => InTurn, calm', NEW h \in Handlers, FinishReply(h)
    PROVE  InTurn'
<1>1. /\ calm /\ inbound' = inbound /\ jobs' = [jobs EXCEPT ![h] = NoJob]
      /\ jobs[h].case \notin Members /\ UNCHANGED <<support, threads, messages>>
  BY DEF FinishReply, GoOn
<1>2. /\ LastWords' /\ \A t \in Members : Replies(t)' = messages[t] + One(t = jobs[h].case)
      /\ inbound = NoMail /\ \A i \in Handlers \ {h} : jobs[i] = NoJob
  BY <1>1, RecordInTurn DEF FinishReply
<1>3. NoJob.at = "idle" /\ \A t : ~Shown(NoJob, t)
  BY DEF NoJob, Shown, Mailed
<1>4. KnowsAccount(NoJob, support', threads') /\ OneAccount'
  BY <1>1, <1>3 DEF KnowsAccount, InTurn, OneAccount
<1>5. \A t \in Members : Replies(t)' = messages'[t] + One(Shown(NoJob, t))
  BY <1>1, <1>2, <1>3 DEF One
<1> QED
  BY <1>1, <1>2, <1>3, <1>4, <1>5, TurnKept

LEMMA SendInTurn ==
    ASSUME IInv, calm => InTurn, calm', NEW h \in Handlers, SendMessage(h)
    PROVE  InTurn'
<1> DEFINE c == jobs[h].case
<1>1. /\ calm /\ inbound' = inbound /\ jobs' = [jobs EXCEPT ![h] = NoJob]
      /\ UNCHANGED <<support, threads>> /\ messages' = [messages EXCEPT ![c] = @ + 1]
      /\ jobs[h].at = "messaging"
  BY DEF SendMessage, GoOn
<1>2. /\ LastWords' /\ \A t \in Members : Replies(t)' = messages[t] + One(t = c)
      /\ inbound = NoMail /\ \A i \in Handlers \ {h} : jobs[i] = NoJob
  BY <1>1, RecordInTurn DEF SendMessage
<1>3. NoJob.at = "idle" /\ \A t : ~Shown(NoJob, t)
  BY DEF NoJob, Shown, Mailed
<1>4. KnowsAccount(NoJob, support', threads')
  BY <1>3 DEF KnowsAccount
<1>5. messages \in [Tickets -> Nat]
  BY DEF IInv, TypeOK
<1>6. OneAccount'
  <2>1. support = {1} /\ threads[c][1] = 1
    BY <1>1 DEF InTurn, KnowsAccount
  <2>2. \A t \in Tickets : t # c => messages'[t] = messages[t]
    BY <1>1, <1>5
  <2> QED
    BY <1>1, <2>1, <2>2 DEF InTurn, OneAccount
<1>7. \A t \in Members : Replies(t)' = messages'[t] + One(Shown(NoJob, t))
  <2> SUFFICES ASSUME NEW t \in Members PROVE Replies(t)' = messages'[t] + One(Shown(NoJob, t))
    OBVIOUS
  <2>1. t \in Tickets
    BY DeskAssumption
  <2>2. messages'[t] = messages[t] + One(t = c) /\ messages'[t] \in Nat
    BY <1>1, <1>5, <2>1 DEF One
  <2> QED
    BY <1>2, <1>3, <2>2 DEF One
<1> QED
  BY <1>1, <1>2, <1>3, <1>4, <1>6, <1>7, TurnKept

LEMMA OpenInTurn ==
    ASSUME IInv, calm => InTurn, calm', NEW h \in Handlers, OpenThread(h)
    PROVE  InTurn'
<1> DEFINE c == jobs[h].case
           job == [jobs[h] EXCEPT !.at = "messaging", !.logged = TRUE]
<1>1. /\ calm /\ inbound' = inbound /\ jobs' = [jobs EXCEPT ![h] = job]
      /\ UNCHANGED <<support, messages>> /\ jobs[h].at = "opening"
      /\ threads' = [threads EXCEPT ![c][jobs[h].account] = @ + 1]
  BY DEF OpenThread, GoOn
<1>2. /\ LastWords' /\ \A t \in Members : Replies(t)' = messages[t] + One(t = c)
      /\ inbound = NoMail /\ \A i \in Handlers \ {h} : jobs[i] = NoJob
  BY <1>1, RecordInTurn DEF OpenThread
<1>3. job.at = "messaging" /\ job.logged /\ job.case = c /\ job.account = jobs[h].account
  BY DEF IInv, Complete, Job
<1>4. /\ support = {1} /\ jobs[h].account = 1 /\ c \in Members /\ threads[c][1] = 0
      /\ c \in Tickets
  BY <1>1, DeskAssumption DEF InTurn, KnowsAccount
<1>5. threads \in [Tickets -> [SupportIds -> Nat]] /\ 1 \in SupportIds
  BY DEF IInv, TypeOK, SupportIds
<1>6. threads'[c][1] = 1 /\ \A t \in Tickets \ {c} : threads'[t] = threads[t]
  BY <1>1, <1>4, <1>5
<1>7. \A t : Shown(job, t) <=> t = c
  BY <1>3 DEF Shown, Mailed
<1> HIDE DEF job
<1>8. KnowsAccount(job, support', threads')
  BY <1>1, <1>3, <1>4, <1>6 DEF KnowsAccount
<1>9. OneAccount'
  BY <1>1, <1>4, <1>6 DEF InTurn, OneAccount
<1>10. \A t \in Members : Replies(t)' = messages'[t] + One(Shown(job, t))
  BY <1>1, <1>2, <1>7 DEF One
<1> QED
  BY <1>1, <1>2, <1>3, <1>8, <1>9, <1>10, TurnKept

LEMMA CreateInTurn ==
    ASSUME IInv, calm => InTurn, calm', NEW h \in Handlers, CreateSupport(h)
    PROVE  InTurn'
<1> DEFINE c == jobs[h].case
<1>1. PICK a \in SupportIds \ support :
         /\ \A b \in SupportIds : b < a => b \in support
         /\ support' = support \cup {a}
         /\ GoOn(h, [jobs[h] EXCEPT !.at = "threading", !.account = a, !.logged = TRUE])
  BY DEF CreateSupport
<1> DEFINE job == [jobs[h] EXCEPT !.at = "threading", !.account = a, !.logged = TRUE]
<1>2. /\ calm /\ inbound' = inbound /\ jobs' = [jobs EXCEPT ![h] = job]
      /\ UNCHANGED <<threads, messages>> /\ jobs[h].at = "naming"
  BY <1>1 DEF CreateSupport, GoOn
<1>3. /\ LastWords' /\ \A t \in Members : Replies(t)' = messages[t] + One(t = c)
      /\ inbound = NoMail /\ \A i \in Handlers \ {h} : jobs[i] = NoJob
  BY <1>2, RecordInTurn DEF CreateSupport
<1>4. job.at = "threading" /\ job.logged /\ job.case = c /\ job.account = a
  BY DEF IInv, Complete, Job
<1>5. support = {} /\ c \in Members
  BY <1>2 DEF InTurn, KnowsAccount
<1>6. a = 1 /\ support' = {1}
  BY <1>1, <1>5 DEF SupportIds
<1>7. \A t : Shown(job, t) <=> t = c
  BY <1>4 DEF Shown, Mailed
<1> HIDE DEF job
<1>8. KnowsAccount(job, support', threads')
  BY <1>4, <1>5, <1>6 DEF KnowsAccount
<1>9. OneAccount'
  BY <1>2, <1>6 DEF InTurn, OneAccount
<1>10. \A t \in Members : Replies(t)' = messages'[t] + One(Shown(job, t))
  BY <1>2, <1>3, <1>7 DEF One
<1> QED
  BY <1>2, <1>3, <1>4, <1>8, <1>9, <1>10, TurnKept

\* Looking for the account and the thread.
LEMMA LookInTurn ==
    ASSUME IInv, SentFirst, calm => InTurn, calm', NEW h \in Handlers,
           FindSupport(h) \/ FindThread(h)
    PROVE  InTurn'
<1>1. jobs[h] \in Job /\ jobs[h].case \in Tickets /\ support \subseteq SupportIds
      /\ threads \in [Tickets -> [SupportIds -> Nat]] /\ 1 \in SupportIds
  <2>1. Complete(jobs[h]) /\ jobs[h].at \in {"recording", "threading"}
    BY DEF FindSupport, FindThread, IInv
  <2> QED
    BY <2>1 DEF IInv, Complete, TypeOK, SupportIds
<1>2. calm /\ inbound' = inbound /\ UNCHANGED <<log, handled, support, threads, messages>>
      /\ jobs[h].at \in {"recording", "threading"}
  BY DEF FindSupport, FindThread, GoOn, deskVars
<1>3. /\ inbound = NoMail /\ \A i \in Handlers \ {h} : jobs[i] = NoJob
      /\ \A t \in Members : Replies(t) = messages[t] + One(Shown(jobs[h], t))
  BY <1>2, MyTurn, BusyIsNotNoJob
<1>4. LastWords' /\ OneAccount' /\ \A t \in Members : Replies(t)' = Replies(t)
  BY <1>2, FlagsRest, DeskAssumption
<1>5. PICK job :
         /\ jobs' = [jobs EXCEPT ![h] = job]
         /\ job.logged = jobs[h].logged /\ job.case = jobs[h].case /\ job.handled = jobs[h].handled
         /\ job.at \in {"naming", "threading", "opening", "messaging"}
         /\ KnowsAccount(job, support, threads)
  <2>1. CASE FindSupport(h)
    <3>1. jobs[h].case \in Members /\ jobs[h].at = "recording" /\ support \subseteq {1}
      BY <1>2, <2>1 DEF FindSupport, InTurn, OneAccount
    <3>2. CASE support = {}
      <4> DEFINE job == [jobs[h] EXCEPT !.at = "naming"]
      <4>1. jobs' = [jobs EXCEPT ![h] = job]
        BY <2>1, <3>2 DEF FindSupport, GoOn
      <4>2. /\ job.logged = jobs[h].logged /\ job.case = jobs[h].case
            /\ job.handled = jobs[h].handled /\ job.at = "naming"
        BY <1>1 DEF Job
      <4> HIDE DEF job
      <4> QED
        BY <3>1, <3>2, <4>1, <4>2 DEF KnowsAccount
    <3>3. CASE support # {}
      <4>1. PICK a \in support : GoOn(h, [jobs[h] EXCEPT !.at = "threading", !.account = a])
        BY <2>1, <3>3 DEF FindSupport
      <4> DEFINE job == [jobs[h] EXCEPT !.at = "threading", !.account = a]
      <4>2. jobs' = [jobs EXCEPT ![h] = job]
        BY <4>1 DEF GoOn
      <4>3. /\ job.logged = jobs[h].logged /\ job.case = jobs[h].case
            /\ job.handled = jobs[h].handled /\ job.at = "threading" /\ job.account = a
        BY <1>1 DEF Job
      <4>4. support = {1} /\ a = 1
        BY <3>1, <4>1
      <4> HIDE DEF job
      <4> QED
        BY <3>1, <4>2, <4>3, <4>4 DEF KnowsAccount
    <3> QED
      BY <3>2, <3>3
  <2>2. CASE FindThread(h)
    <3> DEFINE found == threads[jobs[h].case][jobs[h].account] > 0
               stage == IF found THEN "messaging" ELSE "opening"
               job == [jobs[h] EXCEPT !.at = stage]
    <3>1. jobs' = [jobs EXCEPT ![h] = job]
      BY <2>2 DEF FindThread, GoOn
    <3>2. /\ jobs[h].at = "threading" /\ support = {1} /\ jobs[h].account = 1
          /\ jobs[h].case \in Members /\ threads[jobs[h].case][1] <= 1
          /\ threads[jobs[h].case][1] \in Nat
      BY <1>1, <1>2, <2>2 DEF FindThread, InTurn, OneAccount, KnowsAccount
    <3>3. /\ job.logged = jobs[h].logged /\ job.case = jobs[h].case
          /\ job.handled = jobs[h].handled /\ job.at = stage /\ job.account = jobs[h].account
      BY <1>1 DEF Job
    <3> HIDE DEF job
    <3>4. threads[job.case][1] = IF found THEN 1 ELSE 0
      BY <3>2, <3>3
    <3>5. KnowsAccount(job, support, threads)
      BY <3>2, <3>3, <3>4 DEF KnowsAccount
    <3>6. stage \in {"messaging", "opening"}
      OBVIOUS
    <3> HIDE DEF stage
    <3> QED
      BY <3>1, <3>3, <3>5, <3>6
  <2> QED
    BY <2>1, <2>2
<1>6. KnowsAccount(job, support', threads')
  BY <1>2, <1>5
<1>7. ~job.logged => (job.handled <=> job.case \in handled')
  BY <1>2, <1>5 DEF InTurn, ReadIsSo
<1>8. \A t \in Members : Replies(t)' = messages'[t] + One(Shown(job, t))
  <2>1. \A t : Shown(job, t) <=> Shown(jobs[h], t)
    BY <1>2, <1>5 DEF Shown, Mailed
  <2> QED
    BY <1>2, <1>3, <1>4, <2>1 DEF One
<1> QED
  BY <1>2, <1>3, <1>4, <1>5, <1>6, <1>7, <1>8, TurnKept

\* The customers' mail.
LEMMA MailInTurn ==
    ASSUME IInv, calm => InTurn, calm',
           \/ \E m \in Mails : \/ \E to \in Addresses : CustomerWrites(m, to)
                               \/ Ignore(m) \/ Receive(m)
           \/ RecordMail \/ DropMail
    PROVE  InTurn'
<1>1. calm /\ InTurn /\ UNCHANGED <<jobs, support, threads, messages>>
  BY DEF CustomerWrites, Ignore, Receive, RecordMail, DropMail, NotTheInbox
<1>2. NoMail.mail = None
  BY DEF NoMail
<1>3. (\A i \in Handlers : KnowsAccount(jobs'[i], support', threads')) /\ OneAccount'
  BY <1>1 DEF InTurn, OneAccount
<1>4. \A t : (\E h \in Handlers : Shown(jobs'[h], t)) <=> (\E h \in Handlers : Shown(jobs[h], t))
  BY <1>1
<1>5. ASSUME NEW m \in Mails, Ignore(m) PROVE InTurn'
  <2>1. UNCHANGED <<log, handled, inbound, inbox>>
    BY <1>5, DeskAssumption DEF Ignore, NotTheInbox
  <2>2. LastWords' /\ \A t \in Tickets : Replies(t)' = Replies(t)
    BY <1>1, <2>1, FlagsRest
  <2>3. Alone' /\ ReadIsSo'
    BY <1>1, <2>1 DEF InTurn, Alone, ReadIsSo
  <2>4. Copied'
    BY <1>1, <2>2, DeskAssumption DEF InTurn, Copied
  <2> QED
    BY <1>3, <2>2, <2>3, <2>4 DEF InTurn
<1>6. ASSUME NEW m \in Mails, NEW to \in Addresses, CustomerWrites(m, to)
      PROVE  InTurn'
  <2>1. UNCHANGED <<log, handled, inbound>> /\ inbox' = [inbox EXCEPT ![m] = to] /\ inbox[m] = None
    BY <1>6 DEF CustomerWrites
  <2>2. LastWords' /\ \A t \in Tickets : Replies(t)' = Replies(t)
    BY <1>1, <2>1, FlagsRest
  <2>3. inbound.mail # None => inbox'[inbound.mail] = inbox[inbound.mail]
    BY <2>1, DeskAssumption DEF IInv, TypeOK, Addresses
  <2>4. Alone' /\ ReadIsSo' /\ Copied'
    BY <1>1, <2>1, <2>2, <2>3, <1>4, DeskAssumption DEF InTurn, Alone, ReadIsSo, Copied, One
  <2> QED
    BY <1>3, <2>2, <2>4 DEF InTurn
<1>7. ASSUME NEW m \in Mails, Receive(m) PROVE InTurn'
  <2>1. /\ UNCHANGED <<log, handled, inbox>> /\ \A h \in Handlers : jobs[h] = NoJob
        /\ inbound'.mail = m /\ (inbound'.handled <=> inbox[m] \in handled)
    BY <1>1, <1>7 DEF Receive, NotTheInbox
  <2>2. LastWords' /\ \A t \in Tickets : Replies(t)' = Replies(t)
    BY <1>1, <2>1, FlagsRest
  <2>3. NoJob.at = "idle"
    BY DEF NoJob
  <2>4. Alone' /\ ReadIsSo' /\ Copied'
    BY <1>1, <2>1, <2>2, <2>3, <1>4, DeskAssumption DEF InTurn, Alone, ReadIsSo, Copied, One
  <2> QED
    BY <1>3, <2>2, <2>4 DEF InTurn
<1>8. ASSUME RecordMail PROVE InTurn'
  <2> DEFINE m == inbound.mail
             t == inbox[m]
  <2>1. /\ m \in Mails /\ m # "reply" /\ t \in Tickets /\ inbound # NoMail
        /\ log' = [log EXCEPT ![t] = Append(@, m)] /\ inbound' = NoMail
        /\ handled' = IF inbound.handled THEN handled \ {t} ELSE handled
    BY <1>2, <1>8, DeskAssumption DEF RecordMail, IInv, TypeOK, Inbound
  <2>2. \A h \in Handlers : jobs[h] = NoJob
    BY <1>1, <2>1 DEF InTurn, Alone
  <2>3. t \notin handled' /\ \A u \in Tickets \ {t} : u \in handled' <=> u \in handled
    <3>1. inbound.handled <=> t \in handled
      BY <1>1, <2>1, DeskAssumption DEF InTurn, ReadIsSo
    <3> HIDE DEF t
    <3> QED
      BY <2>1, <3>1
  <2>4. log \in [Tickets -> Seq({"reply"} \cup Mails)]
    BY DEF IInv, TypeOK
  <2>5. log'[t] = Append(log[t], m) /\ \A u \in Tickets \ {t} : log'[u] = log[u]
    BY <2>1, <2>4
  <2>6. log'[t][Len(log'[t])] = m
    BY <2>1, <2>4, <2>5
  <2>7. \A u \in Members : Replies(u)' = Replies(u)
    <3> SUFFICES ASSUME NEW u \in Members PROVE Replies(u)' = Replies(u)
      OBVIOUS
    <3>1. u \in Tickets /\ Replies(u) \in Nat
      BY RepliesAreNat, DeskAssumption
    <3>2. CASE u # t
      BY <2>5, <3>1, <3>2, AnswersOf
    <3>3. CASE u = t
      <4>1. Cardinality(Answers(Append(log[t], m))) = Cardinality(Answers(log[t])) + One(m = "reply")
        BY <2>1, <2>4, AnswersCounted
      <4>2. Replies(u)' = Replies(u) + One(m = "reply")
        BY <2>1, <2>5, <3>1, <3>3, <4>1, AnswersOf
      <4> QED
        BY <2>1, <3>1, <4>2 DEF One
    <3> QED
      BY <3>2, <3>3
  <2> HIDE DEF m, t
  <2>8. LastWords'
    BY <1>1, <2>1, <2>3, <2>5, <2>6 DEF InTurn, LastWords
  <2>9. NoJob.at = "idle"
    BY DEF NoJob
  <2>10. Alone' /\ ReadIsSo' /\ Copied'
    BY <1>1, <1>2, <2>1, <2>2, <2>7, <2>9, <1>4 DEF InTurn, Alone, ReadIsSo, Copied, One
  <2> QED
    BY <1>3, <2>8, <2>10 DEF InTurn
<1>9. ASSUME DropMail PROVE InTurn'
  <2>1. UNCHANGED <<log, handled, inbox>> /\ inbound' = NoMail
    BY <1>9 DEF DropMail, NotTheInbox
  <2>2. LastWords' /\ \A t \in Tickets : Replies(t)' = Replies(t)
    BY <1>1, <2>1, FlagsRest
  <2>3. Alone' /\ ReadIsSo'
    BY <1>1, <1>2, <2>1 DEF InTurn, Alone, ReadIsSo
  <2>4. Copied'
    BY <1>1, <2>2, DeskAssumption DEF InTurn, Copied
  <2> QED
    BY <1>3, <2>2, <2>3, <2>4 DEF InTurn
<1> QED
  BY <1>5, <1>6, <1>7, <1>8, <1>9

LEMMA StepInTurn ==
    ASSUME IInv, SentFirst, calm => InTurn, [Next]_vars
    PROVE  calm' => InTurn'
<1> SUFFICES ASSUME calm' PROVE InTurn'
  OBVIOUS
<1>1. CASE UNCHANGED vars
  <2>1. UNCHANGED <<calm, log, handled, support, threads, messages, jobs, inbound, inbox>>
    BY <1>1 DEF vars, deskVars
  <2>2. LastWords' /\ OneAccount' /\ \A t \in Members : Replies(t)' = Replies(t)
    BY <2>1, FlagsRest, DeskAssumption
  <2>3. Alone' /\ ReadIsSo'
    BY <2>1 DEF InTurn, Alone, ReadIsSo
  <2>4. Copied'
    BY <2>1, <2>2 DEF InTurn, Copied
  <2> QED
    BY <2>1, <2>2, <2>3, <2>4 DEF InTurn
<1>2. ASSUME NEW h \in Handlers,
             \/ \E r \in Reviewers : \/ \E c \in Cases : Claim(h, c, r)
                                     \/ \E t \in Tickets : Reply(h, t, r) \/ Transfer(h, t, r)
             \/ Resume(h) \/ Die(h)
      PROVE InTurn'
  <2>1. ~Die(h) /\ ~EmailFails(h)
    BY DEF Die, EmailFails
  <2> QED
    BY <1>2, <2>1, BeginsInTurn, EarlyInTurn, FinishInTurn, SendInTurn, OpenInTurn, CreateInTurn,
       LookInTurn DEF Resume
<1>3. ~ReceiveFails
  BY DEF ReceiveFails
<1> QED
  BY <1>1, <1>2, <1>3, MailInTurn DEF Next

LEMMA InitSent == Init => SentFirst /\ InTurn
<1> SUFFICES ASSUME Init PROVE SentFirst /\ InTurn
  OBVIOUS
<1>1. /\ NoJob.at = "idle" /\ NoMail.mail = None
      /\ \A t : ~Waits(NoJob, t) /\ ~Shown(NoJob, t)
  BY DEF NoJob, NoMail, Waits, Shown, Mailed
<1>2. \A h \in Handlers : jobs[h] = NoJob
  BY DEF Init
<1>3. \A t \in Tickets : /\ log[t] = <<>> /\ emailed[t] = 0 /\ messages[t] = 0
                         /\ Waiting(t) = {} /\ Showing(t) = {} /\ threads[t][1] = 0
  BY <1>1, <1>2 DEF Init, Waiting, Showing, SupportIds
<1>4. \A t \in Tickets : Replies(t) = 0
  <2> SUFFICES ASSUME NEW t \in Tickets PROVE Replies(t) = 0
    OBVIOUS
  <2>1. {i \in DOMAIN log[t] : log[t][i] = "reply"} = {}
    BY <1>3
  <2> QED
    BY <2>1, FS_EmptySet DEF Replies
<1>5. SentFirst
  <2>1. \A t \in Tickets :
           /\ IsFiniteSet(Waiting(t)) /\ Cardinality(Waiting(t)) = 0
           /\ IsFiniteSet(Showing(t)) /\ Cardinality(Showing(t)) = 0
    BY <1>3, FS_EmptySet
  <2> QED
    BY <1>1, <1>2, <1>3, <1>4, <2>1 DEF SentFirst
<1>6. Alone /\ ReadIsSo /\ LastWords
  BY <1>1, <1>2, <1>3 DEF Init, Alone, ReadIsSo, LastWords
<1>7. OneAccount /\ \A h \in Handlers : KnowsAccount(jobs[h], support, threads)
  BY <1>1, <1>2, <1>3 DEF Init, OneAccount, KnowsAccount
<1>8. Copied
  BY <1>1, <1>2, <1>3, <1>4, DeskAssumption DEF Copied, One
<1> QED
  BY <1>5, <1>6, <1>7, <1>8 DEF InTurn

-----------------------------------------------------------------------------
\* The invariant holds in every state.
THEOREM DeskInvariance == Spec => []IInv
<1>1. IInv /\ [Next]_vars => IInv'
  BY StepGood DEF Good
<1> QED
  BY InitGood, <1>1, PTL DEF Spec

\* Every variable of the desk keeps its type.
THEOREM DeskTypes == Spec => []TypeOK
<1>1. IInv => TypeOK
  BY DEF IInv
<1> QED
  BY <1>1, DeskInvariance, PTL

\* However many requests overlap or die, of two claims at once one wins, and
\* whoever owns a case loses it only to the transfer of a ticket.
THEOREM ClaimsExclude == Spec => ClaimsAreExclusive
<1>1. IInv /\ [Next]_vars => [OwnerMove]_vars
  BY StepGood DEF Good
<1> QED
  BY <1>1, DeskInvariance, PTL DEF Spec, ClaimsAreExclusive, OwnerMove

\* With the answers that are on their way, whatever overlaps or dies; and with
\* what one request after the other leaves behind.
LEMMA AnswersInvariance == Spec => [](IInv /\ SentFirst /\ (calm => InTurn))
<1>1. Init => IInv /\ SentFirst /\ (calm => InTurn)
  BY InitGood, InitSent
<1>2. /\ IInv /\ SentFirst /\ (calm => InTurn) /\ [Next]_vars
      => (IInv /\ SentFirst /\ (calm => InTurn))'
  BY StepGood, StepSent, StepInTurn DEF Good
<1> QED
  BY <1>1, <1>2, PTL DEF Spec

\* However many requests overlap, fail or die, no answer is on the timeline or
\* in a member's thread that the mail provider did not take; one request after
\* the other, a member has each of them in one thread with one account.
THEOREM RecordedIsSent == Spec => []RecordedMeansSent
<1>1. IInv /\ SentFirst /\ (calm => InTurn) => RecordedMeansSent
  <2> SUFFICES ASSUME IInv, SentFirst, calm => InTurn PROVE RecordedMeansSent
    OBVIOUS
  <2>1. ASSUME NEW t \in Tickets PROVE Replies(t) <= emailed[t] /\ messages[t] <= Replies(t)
    <3>1. /\ Replies(t) \in Nat /\ emailed[t] \in Nat /\ messages[t] \in Nat
          /\ Cardinality(Waiting(t)) \in Nat /\ Cardinality(Showing(t)) \in Nat
      BY RepliesAreNat, FS_CardinalityType DEF IInv, TypeOK, SentFirst
    <3> QED
      BY <3>1 DEF SentFirst
  <2>2. ASSUME calm, Idle, NEW t \in Members
        PROVE  /\ Cardinality(support) <= 1
               /\ messages[t] = Replies(t)
               /\ messages[t] > 0 => \E a \in support : threads[t][a] = 1
    <3>1. support = {} \/ support = {1}
      BY <2>2 DEF InTurn, OneAccount
    <3>2. Cardinality(support) <= 1
      BY <3>1, FS_EmptySet, FS_Singleton
    <3>3. t \in Tickets /\ messages[t] \in Nat
      BY DeskAssumption DEF IInv, TypeOK
    <3>4. ~\E h \in Handlers : Shown(jobs[h], t)
      BY <2>2 DEF Idle, Shown, Mailed, NoJob
    <3>5. messages[t] = Replies(t)
      BY <2>2, <3>3, <3>4 DEF InTurn, Copied, One
    <3> QED
      BY <2>2, <3>2, <3>3, <3>5 DEF InTurn, OneAccount
  <2> QED
    BY <2>1, <2>2 DEF RecordedMeansSent
<1> QED
  BY <1>1, AnswersInvariance, PTL

\* One request after the other, a ticket is open exactly while the customer
\* has the last word.
THEOREM LastWordHeeded == Spec => []LastWordDecides
<1>1. (calm => InTurn) => LastWordDecides
  BY DEF InTurn, LastWords, LastWordDecides
<1> QED
  BY <1>1, AnswersInvariance, PTL
=============================================================================

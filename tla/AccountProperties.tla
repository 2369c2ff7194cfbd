------------------------- MODULE AccountProperties -------------------------
(***************************************************************************)
(* What the handlers of an account promise, however their steps interleave *)
(***************************************************************************)
EXTENDS Account

Idle == \A r \in Requests : jobs[r] = NoJob

\* A listing hidden because its owner paused the account shows again the
\* moment the owner is back: no hold of the owner's own outlives the pause,
\* however requests overlap or die.  (deactivate_user, reactivate_user)
OwnerHoldEndsOnReturn ==
    \A i \in Items : items[i].held = "owner" => users[items[i].owner].deactivated

\* Pausing an account and coming back never touch a hold a Super-Admin put on
\* one of its listings.  (DEACTIVATION_SUSPEND_REASON)
AdminHoldSurvives ==
    (\E u \in Users : users'[u].deactivated # users[u].deactivated) =>
        \A i \in Items : items[i].held \in Timed \cup {"indefinite"} =>
            items'[i].held = items[i].held

\* The two reasons a listing can be hidden for are kept apart: every step leaves
\* the owner's holds to owners who are away, and one that pauses an account or
\* brings it back leaves a Super-Admin's hold alone.
HoldsAreKeptApart == [][OwnerHoldEndsOnReturn' /\ AdminHoldSurvives]_vars

\* One request after the other, the two identities of a person are paused,
\* banned and deleted together: neither is left behind where signing in, which
\* finds the first only, would not reach it.  (the cascades)
PairMovesTogether ==
    calm /\ Idle => \A u \in Users : Linked(u) # None =>
        LET v == Linked(u)
        IN  /\ users[v].linked = u
            /\ users[u].state = users[v].state
            /\ users[u].banned = users[v].banned
            /\ users[u].deactivated = users[v].deactivated

\* One request after the other, nobody who was suspended, banned, paused or
\* deleted still holds a session, under either identity.  (_revoke_sessions,
\* the cascades, assert_active before each _issue_session)
RevokedEverywhere ==
    calm /\ Idle => \A u \in sessions : AssertActive(users, u)

\* One request after the other, a mailbox answers for one person: the live
\* rows that carry it are one identity or two linked to each other, whichever
\* of the doors (password, Google, a second profile) made them.
OnePersonPerMailbox ==
    calm /\ Idle => \A u, v \in Users : Live(u) /\ Live(v) /\ u # v => Linked(u) = v

\* A timed suspension ends by itself, unless a Super-Admin makes it indefinite,
\* even if the sweep dies half way once.  (scripts/expire_suspensions.py)
SuspensionEnds ==
    \A u \in Users : users[u].suspended = "timed" ~>
                        users[u].suspended \in {"no", "indefinite"}
=============================================================================

----------------------------- MODULE DealState -----------------------------
(***************************************************************************)
(* The deal state machine of backend/deal_state.py: the statuses a deal    *)
(* can have, the table of legal moves between them, and the guards that    *)
(* every handler shares.  The table is a relation, read with               *)
(* CanTransition; nothing here has state.                                  *)
(***************************************************************************)

Status == { "draft", "awaiting_approval", "approved", "awaiting_funding",
            "funded", "in_delivery", "proof_submitted", "under_review",
            "changes_requested", "rejected", "verified", "disputed",
            "paid", "refunded", "cancelled" }

AllowedTransitions ==
       {"draft"}             \X {"awaiting_approval", "cancelled"}
  \cup {"awaiting_approval"} \X {"approved", "cancelled"}
  \cup {"approved"}          \X {"awaiting_funding", "funded", "cancelled"}
  \cup {"awaiting_funding"}  \X {"funded", "cancelled"}
  \cup {"funded"}            \X {"in_delivery", "proof_submitted", "refunded", "disputed"}
  \cup {"in_delivery"}       \X {"proof_submitted", "refunded", "disputed"}
  \cup {"proof_submitted"}   \X {"under_review", "verified", "changes_requested",
                                 "rejected", "refunded", "disputed"}
  \cup {"under_review"}      \X {"verified", "changes_requested", "rejected",
                                 "refunded", "disputed"}
  \cup {"changes_requested"} \X {"proof_submitted", "verified", "refunded",
                                 "disputed", "cancelled"}
  \cup {"rejected"}          \X {"refunded", "disputed"}
  \cup {"verified"}          \X {"paid", "refunded", "disputed"}
  \cup {"disputed"}          \X {"refunded", "verified", "paid"}

\* The money and verification outcome of the deal is settled.
FinalStates == {"paid", "refunded", "cancelled"}

\* No more delivery evidence can be added.
ProofClosedStates == FinalStates \cup {"verified", "rejected", "disputed"}

CanTransition(current, nxt) == <<current, nxt>> \in AllowedTransitions

NotFinal(d) == d.status \notin FinalStates

\* Payout is only ever possible from the verified state, once.
PayoutEligible(d) ==
    /\ ~d.paid_at
    /\ d.verified_at
    /\ d.status = "verified"
=============================================================================

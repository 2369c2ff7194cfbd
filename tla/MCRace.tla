------------------------------- MODULE MCRace -------------------------------
(***************************************************************************)
(* Instances of DealRace for TLC: the requests that take part in each run, *)
(* and the deals of MCTerms.  The workers are alike, and so are the        *)
(* PaymentIntents.                                                         *)
(***************************************************************************)
EXTENDS DealRace, MCTerms, TLC

RaceQuantities == {0, 27}
Interchangeable == Permutations(Workers) \cup Permutations(PIs)

Req(op, arg) == [op |-> op, arg |-> arg]
Deliveries(types) == {Req("event", e) : e \in {x \in Events : x.type \in types}}

Funding == {Req("fund", None), Req("refresh", None)}
              \cup Deliveries({"payment_intent.succeeded"})
Delivery == {Req("proof", None), Req("accept", None)}
Review == Delivery \cup {Req("send_back", t) : t \in {"rejected", "changes_requested"}}
FixedMoney == Funding \cup Review \cup Deliveries({"charge.refunded"})
                 \cup {Req("decline", None), Req("release", None), Req("refund", None)}
PoolMoney == Funding \cup {Req("proof", None)} \cup {Req("grace", "changes_requested")}
                \cup {Req(op, q) : op \in {"accept", "settle"}, q \in RaceQuantities}
Everything == PoolMoney
                 \cup {Req("approve", party) : party \in {"business", "owner"}}
                 \cup {Req("send_back", "changes_requested"), Req("decline", None), Req("refund", None)}
                 \cup Deliveries({"charge.refunded"} \cup
                                 {"charge.dispute.created", "charge.dispute.updated",
                                  "charge.dispute.closed"})
=============================================================================

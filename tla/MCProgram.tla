----------------------------- MODULE MCProgram -----------------------------
(***************************************************************************)
(* Instances of ProgramProperties for TLC.  Two sales that earn 60 overrun *)
(* a pool of 100.                                                          *)
(***************************************************************************)
EXTENDS ProgramProperties

Pool(type, rate) ==
    [commission_type |-> type, commission_rate |-> rate, pool_max_budget |-> 100,
     payout_fee_percent |-> 15, funding_fee_percent |-> 5]
BothPrograms == {Pool("pct", 5000), Pool("flat", 60)}

Interchangeable == Permutations(Owners) \cup Permutations(Handlers)

\* Bounds on what overlaps: a confirmation overlaps the endpoint's checks of a
\* settlement and no report, two confirmations are in hand only before the
\* first sale, two reports only in the campaign and before a top-up, and a
\* funding committed twice is followed up to the first sale.  A mark of an
\* acknowledged event only keeps it from being delivered again, so leaving the
\* marks out after the first sale takes no behaviour away.
InHand == {c \in Confirmers : confirming[c] # None}
Reports == {h \in Handlers : tracking[h] # None}
Apart ==
    /\ InHand # {} => settlement.at \in {"idle", "checked"} /\ Reports = {}
    /\ InHand = Confirmers => settlement.at = "idle" /\ sales = <<>>
    /\ Reports = Handlers =>
          ~holding_over /\ recounted = {} /\ \A t \in TopUps : topup[t] = "none"
    /\ sales # <<>> => processed = {} /\ "funding" \notin recounted
=============================================================================

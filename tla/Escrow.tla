------------------------------- MODULE Escrow -------------------------------
(***************************************************************************)
(* What PromoSlot promises about the money of one deal.  It is collected   *)
(* once, then held; a held deal may be frozen and thawed; it ends paid out *)
(* or returned, never both beyond what was collected.  The program moves   *)
(* money only out of a held deal: a frozen one can be returned by the bank *)
(* or on Stripe's dashboard, which is nothing the program pays.  What was  *)
(* returned there, in part or all, the program does not return again.      *)
(***************************************************************************)
EXTENDS Naturals

CONSTANT Collected    \* pence collected from the business

VARIABLES
    phase,        \* where the money of the deal is
    toOwner,      \* pence the program sent to the platform owner
    toBusiness,   \* pence the program sent back to the business
    elsewhere     \* pence sent back to the business outside the program

paidVars == <<toOwner, toBusiness>>
escrowVars == <<phase, paidVars, elsewhere>>

EscrowInit == phase = "open" /\ toOwner = 0 /\ toBusiness = 0 /\ elsewhere = 0

Moves(from, to) == phase = from /\ phase' = to

Abandon == Moves("open", "void") /\ UNCHANGED <<paidVars, elsewhere>>
Freeze == Moves("held", "frozen") /\ UNCHANGED <<paidVars, elsewhere>>
Thaw == Moves("frozen", "held") /\ UNCHANGED <<paidVars, elsewhere>>

\* By the time the program hears of a payment some of it may be back already.
Collect ==
    /\ Moves("open", "held")
    /\ elsewhere' \in 0..Collected
    /\ UNCHANGED paidVars

PayOut ==
    /\ Moves("held", "paid")
    /\ toOwner' \in 1..Collected
    /\ toBusiness' \in 0..(Collected - toOwner')
    /\ toBusiness' + elsewhere <= Collected
    /\ UNCHANGED elsewhere

GiveBack ==
    /\ Moves("held", "returned")
    /\ toBusiness' = Collected - elsewhere
    /\ UNCHANGED <<toOwner, elsewhere>>

ReturnedElsewhere ==
    /\ Moves("held", "returned") \/ Moves("frozen", "returned")
    /\ UNCHANGED <<paidVars, elsewhere>>

OutsideRefund ==
    /\ elsewhere' \in elsewhere..(Collected - toBusiness)
    /\ UNCHANGED <<phase, paidVars>>

EscrowNext == \/ Abandon \/ Collect \/ Freeze \/ Thaw
              \/ PayOut \/ GiveBack \/ ReturnedElsewhere \/ OutsideRefund

EscrowSpec == EscrowInit /\ [][EscrowNext]_escrowVars
=============================================================================

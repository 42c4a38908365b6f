------------------------------ MODULE Settlement ------------------------------
(***************************************************************************)
(* What the review of a campaign promises to whoever reads its result: an  *)
(* official count that is not touched while it is official, amounts that   *)
(* are computed once, from the count official at that moment, and never    *)
(* overwritten, and an end that needs both.  It does not promise that the  *)
(* amounts are those of the present count: a campaign can be reopened.     *)
(***************************************************************************)
CONSTANT Counts      \* the possible results of a count

VARIABLES
    official,   \* the approved count, as a set of at most one
    amounts,    \* the count the amounts were computed from, likewise
    closed      \* the campaign is closed

svars == <<official, amounts, closed>>

SettlementInit == official = {} /\ amounts = {} /\ closed = FALSE

Publish ==
    /\ official = {}
    /\ official' # {} /\ official' \subseteq Counts
    /\ \A c, d \in official' : c = d
    /\ UNCHANGED <<amounts, closed>>

Settle ==
    /\ official # {} /\ amounts = {} /\ ~closed
    /\ amounts' = official
    /\ UNCHANGED <<official, closed>>

Conclude ==
    /\ official # {} /\ amounts # {} /\ ~closed
    /\ closed' = TRUE
    /\ UNCHANGED <<official, amounts>>

\* Reopening takes the count back, and leaves the amounts.
Withdraw ==
    /\ official # {}
    /\ official' = {} /\ closed' = FALSE
    /\ UNCHANGED amounts

SettlementNext == Publish \/ Settle \/ Conclude \/ Withdraw

SettlementSpec == SettlementInit /\ [][SettlementNext]_svars
=============================================================================

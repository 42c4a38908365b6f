----------------------------- MODULE CountLedger -----------------------------
(***************************************************************************)
(* What a counting session promises, without events, batches or clocks:    *)
(* every cell holds two piles of quantities, the units counted and the     *)
(* units damaged.  Counting puts quantities on the piles, all those of a   *)
(* request at once; undoing takes one off; the top of a pile is today's    *)
(* quantity.  Never more damaged than counted, and nothing moves once the  *)
(* session is closed.                                                      *)
(***************************************************************************)
EXTENDS Integers, Sequences

CONSTANTS LedgerCells

VARIABLES
    piles,   \* piles[d][c]: the quantities recorded in cell c, latest on top
    closed   \* the session takes no more counts

vars == <<piles, closed>>

Kinds == {"physical", "damage"}

Top(pile) == IF pile = <<>> THEN 0 ELSE pile[Len(pile)]

Sound(ps) == \A c \in LedgerCells : Top(ps["damage"][c]) <= Top(ps["physical"][c])

Prefix(s, t) == Len(s) <= Len(t) /\ s = SubSeq(t, 1, Len(s))

Init ==
    /\ piles = [d \in Kinds |-> [c \in LedgerCells |-> <<>>]]
    /\ closed = FALSE

\* A request records some quantities and takes none away.
Count ==
    /\ ~closed
    /\ \A d \in Kinds, c \in LedgerCells : Prefix(piles[d][c], piles'[d][c])
    /\ Sound(piles')
    /\ UNCHANGED closed

Undo ==
    /\ ~closed
    /\ \E d \in Kinds, c \in LedgerCells :
          /\ piles[d][c] # <<>>
          /\ piles' = [piles EXCEPT ![d][c] = SubSeq(@, 1, Len(@) - 1)]
    /\ Sound(piles')
    /\ UNCHANGED closed

Close ==
    /\ closed' = TRUE
    /\ UNCHANGED piles

Next == Count \/ Undo \/ Close

Spec == Init /\ [][Next]_vars
=============================================================================

------------------------ MODULE CountEngineRefinement ------------------------
(***************************************************************************)
(* CountEngine implements CountLedger: how the event log and the open      *)
(* transaction map to the ledger's piles.                                  *)
(***************************************************************************)
EXTENDS CountEngine, Ranks

\* The ledger the committed state stands for: while a batch is open that is the
\* state the batch would roll back to.
Committed == IF batch.open THEN batch.log ELSE log

\* The quantities of the effective events of a cell, in the order of the log.
Pile(lg, d, c) == Picked([i \in DOMAIN lg |-> lg[i].after], Effective(lg, d, c))

PilesOf(lg) == [d \in Domains |-> [c \in Cells |-> Pile(lg, d, c)]]
Piles == PilesOf(Committed)

Ledger == INSTANCE CountLedger WITH
    LedgerCells <- Cells,
    piles <- Piles,
    closed <- session # "IN_PROGRESS"

\* The session implements the ledger: counts pile up, undo takes the top off,
\* a batch shows all its events at once, and a closed session stands still.
ImplementsLedger == Ledger!Spec
=============================================================================

--------------------------- MODULE MCReconciliation ---------------------------
(* An instance of Reconciliation for TLC: one product that is in the         *)
(* snapshot, with an expected quantity that may be negative, and one that is *)
(* not.                                                                      *)
EXTENDS Reconciliation, TLC

CONSTANTS p1, p2

MCSnapshots == {(p1 :> e) @@ (p2 :> Absent) : e \in {-1, 2}}

\* A session misses one, or counts what is expected and something else.
MCTotals == {(p1 :> 1) @@ (p2 :> Absent), (p1 :> 2) @@ (p2 :> 1)}

MCCodeQuantities == {Absent, 0, 1}

\* Every GET is answered before the campaign goes on: none of them expires a
\* campaign that is approved or closed.
PromptNext == Next /\ (status \in {"APPROVED", "CLOSED"} => status' # "EXPIRED")
PromptSpec == Init /\ [][PromptNext]_vars
=============================================================================

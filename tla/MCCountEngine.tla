---------------------------- MODULE MCCountEngine ----------------------------
(* Instances of CountEngine for TLC.                                       *)
EXTENDS CountEngineRefinement, TLC

CONSTANTS r1, r2, u1, u2, u3, u4

\* r1 is scanned, corrected by hand and damaged; r2 only scanned and set.
RichInputs ==
    {[type |-> t, via |-> "scanned_code", ref |-> r1, qty |-> 1] :
        t \in {"QR_SCAN", "MANUAL_SUBTRACT", "DAMAGE_ADD", "DAMAGE_SUBTRACT"}}
    \cup {[type |-> "MANUAL_SET", via |-> "product_id", ref |-> r1, qty |-> q] :
             q \in {0, 2}}
    \cup {[type |-> "QR_SCAN", via |-> "scanned_code", ref |-> r2, qty |-> 0]}

UuidSymmetry == Permutations(Uuids \ ForeignUuids)
=============================================================================

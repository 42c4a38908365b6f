--------------------------- MODULE MCDocumentEngine ---------------------------
(* An instance of DocumentEngine for TLC: every type is treated alike once    *)
(* the profile exists, so there is one, with a profile.                       *)
EXTENDS DocumentEngine, TLC

CONSTANTS erp

MCExtension == [t \in {erp} |-> "xlsx"]

Symmetry == Permutations(Requests) \cup Permutations(Campaigns)
=============================================================================

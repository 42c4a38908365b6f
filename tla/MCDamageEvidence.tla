--------------------------- MODULE MCDamageEvidence ---------------------------
(* An instance of DamageEvidence and Access for TLC.                           *)
EXTENDS DamageEvidence, TLC

CONSTANTS admin, operator, u1

MCGrants == admin :> {"users.manage", "users.manage_roles", "damage.review", "damage.report"}
            @@ operator :> {"damage.report"}

MCOwner == [d \in Damages |-> u1]

Symmetry == Permutations(Removals) \cup Permutations(Uploads) \cup Permutations(Formats)
=============================================================================

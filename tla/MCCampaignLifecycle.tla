------------------------- MODULE MCCampaignLifecycle -------------------------
(* Instances of CampaignLifecycle for TLC.                                 *)
EXTENDS CampaignLifecycle, TLC

\* The rows and the users are interchangeable names.
Symmetry == Permutations(Users) \cup Permutations(Assignments)
            \cup Permutations(Sessions) \cup Permutations(Recounts)
=============================================================================

--------------------------- MODULE MCCampaignRun ---------------------------
(* Instances of CampaignRun for TLC. *)
EXTENDS CampaignRun, TLC

\* Slots are interchangeable; contacts are, within the tested fraction and within
\* the remainder.
SlotSymmetry == Permutations(Slots)
Symmetry == Permutations(Slots) \union Permutations(Tested) \union Permutations(Contacts \ Tested)
============================================================================

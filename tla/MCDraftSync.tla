----------------------------- MODULE MCDraftSync -----------------------------
(* DraftSync for TLC. *)
EXTENDS DraftSync, TLC

\* The windows are alike.
Alike == Permutations(Tabs)
==============================================================================

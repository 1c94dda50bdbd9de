---------------------------- MODULE MCTeamAccess ----------------------------
(* TeamAccess for TLC. *)
EXTENDS TeamAccess, TLC

\* The people and the calls are alike.
Alike == Permutations(Users) \union Permutations(Calls)
==============================================================================

---------------------------- MODULE MCInboxSync ----------------------------
(* Instances of InboxSync for TLC. *)
EXTENDS InboxSync, TLC

Symmetry == Permutations(MoveIds)
============================================================================

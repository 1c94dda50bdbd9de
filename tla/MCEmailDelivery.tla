-------------------------- MODULE MCEmailDelivery --------------------------
(* Instances of EmailDelivery for TLC. *)
EXTENDS EmailDelivery, TLC

\* Slots are interchangeable, and so are the rows of one group; the runs that
\* check liveness do not use it.
WorkerSymmetry == Permutations(Workers)
Symmetry == Permutations(Workers) \union Permutations(Jobs)
============================================================================

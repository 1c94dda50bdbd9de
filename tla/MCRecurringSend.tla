-------------------------- MODULE MCRecurringSend --------------------------
(* Instances of RecurringSend for TLC. *)
EXTENDS RecurringSend
============================================================================

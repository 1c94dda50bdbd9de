---------------------------- MODULE SendLedger ----------------------------
(***************************************************************************)
(* What the sending pipeline promises about each message, with no queue,   *)
(* worker or recovery in it: a message is taken up by one sender at a      *)
(* time, the server takes one copy of it at most, a sender gives it back   *)
(* only when the server has no copy, and a closed message is reopened only *)
(* by a bounce, which is the end of its copy.                              *)
(* EmailDelivery is shown to implement it.                                 *)
(***************************************************************************)
EXTENDS Integers

CONSTANT Messages

VARIABLES
    phase,   \* "ready" to be sent, "claimed" by a sender, or "closed"
    copies   \* copies the server holds and did not bounce

ledger == <<phase, copies>>

Init ==
    /\ phase = [m \in Messages |-> "ready"]
    /\ copies = [m \in Messages |-> 0]

\* A sender takes the message up.
Claim(m) ==
    /\ phase[m] = "ready"
    /\ phase' = [phase EXCEPT ![m] = "claimed"]
    /\ UNCHANGED copies

\* The server takes the message from its sender, for the first time.
Accept(m) ==
    /\ phase[m] = "claimed" /\ copies[m] = 0
    /\ copies' = [copies EXCEPT ![m] = 1]
    /\ UNCHANGED phase

\* The sender gives the message back: it knows that the server has no copy.
GiveBack(m) ==
    /\ phase[m] = "claimed" /\ copies[m] = 0
    /\ phase' = [phase EXCEPT ![m] = "ready"]
    /\ UNCHANGED copies

\* The sender is done, or is lost: with or without a copy, nobody sends again.
Close(m) ==
    /\ phase[m] = "claimed"
    /\ phase' = [phase EXCEPT ![m] = "closed"]
    /\ UNCHANGED copies

\* Messages nobody took up are cancelled or suppressed.
Withdraw(these) ==
    /\ \A m \in these : phase[m] = "ready"
    /\ phase' = [m \in Messages |-> IF m \in these THEN "closed" ELSE phase[m]]
    /\ UNCHANGED copies

\* The copy bounced.
Reopen(m) ==
    /\ phase[m] = "closed" /\ copies[m] = 1
    /\ phase' = [phase EXCEPT ![m] = "ready"]
    /\ copies' = [copies EXCEPT ![m] = 0]

Next ==
    \/ \E m \in Messages : Claim(m) \/ Accept(m) \/ GiveBack(m) \/ Close(m) \/ Reopen(m)
    \/ \E these \in SUBSET Messages : Withdraw(these)

Spec == Init /\ [][Next]_ledger
===========================================================================

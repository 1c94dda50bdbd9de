-------------------------- MODULE DeliveryStatus --------------------------
(***************************************************************************)
(* The status of one delivery (an EmailJob row) and the status shown for a *)
(* group of deliveries, as packages/shared defines them.  Every module     *)
(* that reads or writes an EmailJob row EXTENDS this one.                  *)
(***************************************************************************)
EXTENDS Integers

EmailJobStatus ==
    { "PROCESSING", "QUEUED", "PENDING", "UNCERTAIN",
      "SENT", "FAILED", "CANCELLED", "SUPPRESSED" }

\* The order in which aggregateDeliveryStatus looks for a status.
Precedence ==
    << "PROCESSING", "QUEUED", "PENDING", "UNCERTAIN",
       "SENT", "FAILED", "CANCELLED", "SUPPRESSED" >>

\* The logical state of a message whose deliveries have these statuses: the
\* first of Precedence that occurs.  The code returns undefined for no delivery
\* at all, and no caller asks then.
Aggregate(statuses) ==
    Precedence[CHOOSE i \in 1..8 :
                  /\ Precedence[i] \in statuses
                  /\ \A j \in 1..(i - 1) : Precedence[j] \notin statuses]

\* Still on its way: what the Outbox lists, and what recovery looks at again.
Pending == {"PENDING", "QUEUED", "PROCESSING"}

\* What the Outbox may still withdraw.
Cancellable == {"PENDING", "QUEUED"}

\* What a worker may claim for SMTP.  FAILED is one of them: a retried job.
Claimable == {"PENDING", "QUEUED", "FAILED"}

\* What a redelivered queue job finds already decided, and leaves alone.
Decided == {"CANCELLED", "SENT", "SUPPRESSED", "UNCERTAIN"}
===========================================================================

--------------------------- MODULE EmailDelivery ---------------------------
(***************************************************************************)
(* One EmailJob row from QUEUED to its SMTP outcome.                       *)
(*                                                                         *)
(* The actors are the slots of the email-sending worker (one process per   *)
(* slot, the steps are what the handler does between two awaits), the      *)
(* BullMQ queue that hands the jobs out and hands them out again when a    *)
(* lock expires, the recovery pass of the worker process, the API that     *)
(* adds the queue job after its commit, the Outbox cancellation, the       *)
(* operator's retry and the bounce report that arrives by IMAP.  Postgres  *)
(* rows survive every failure; a worker's memory and the Redis queue do    *)
(* not.                                                                    *)
(*                                                                         *)
(* External, modelled from how the code uses them: BullMQ (at-least-once   *)
(* hand-out, job ids that are unique as long as the job is retained, lock  *)
(* expiry, attempts) and the SMTP server.  settleRunIfComplete, which the  *)
(* handler calls for a campaign's deliveries, is module CampaignRun's.     *)
(***************************************************************************)
EXTENDS DeliveryStatus, FiniteSets

CONSTANTS
    Jobs,        \* EmailJob rows; the queue job of each has the id email-<row>
    Workers,     \* slots of the email-sending worker, over all its processes
    Group,       \* the rows of one manual send, which share a sendGroupId
    NoJob,       \* an idle slot has no job
    NoWorker,    \* a queue job nobody holds the lock of
    MaxAttempts, \* opts.attempts of the queue job
    MaxStalls,   \* lock expiries after which BullMQ gives a job up
    FaultKinds,  \* what may go wrong: a process dies (crash), Redis loses its data
                 \* (redis), a slot outlives its lock because it froze or was cut off
                 \* (stall), a call to Postgres or Redis throws (call)
    MaxFaults,   \* bound: faults of all these kinds together
    MaxBounces,  \* bound: bounce reports for one row
    MaxCancels   \* bound: Outbox cancellations

ASSUME ConstantsAssumption ==
    /\ Group \subseteq Jobs
    /\ NoJob \notin Jobs
    /\ NoWorker \notin Workers
    /\ MaxAttempts \in Nat \ {0}
    /\ MaxStalls \in Nat
    /\ FaultKinds \subseteq {"crash", "redis", "stall", "call"}
    /\ MaxFaults \in Nat
    /\ MaxBounces \in Nat
    /\ MaxCancels \in Nat

VARIABLES
    row,          \* Postgres: EmailJob.status
    groupStatus,  \* Postgres: groupStatus of the group's primary row
    bull,         \* Redis: state of the queue job
    attempts,     \* Redis: attemptsMade of the queue job
    stalls,       \* Redis: times the queue job lost its lock
    owner,        \* Redis: the slot whose lock token the queue job carries
    undispatched, \* rows whose API request has committed but not yet enqueued
    pc,           \* slot: the await the handler stands at
    job,          \* slot: the row it works on
    tries,        \* slot: job.attemptsMade as it was handed out
    outcome,      \* slot: the status the SMTP result calls for
    result,       \* slot: how the handler will end
    recovery,     \* recovery pass: where it stands
    found,        \* recovery pass: the QUEUED rows it read
    cancel,       \* Outbox cancellation: where it stands
    cancelRow,    \* Outbox cancellation: the row it was asked for
    cancels,      \* Outbox cancellations so far
    dsn,          \* rows whose bounce is written and whose group is not settled
    accepted,     \* history: times the SMTP server took the message
    bounced,      \* history: bounce reports applied to the row
    withdrawn,    \* history: rows the Outbox reported cancelled
    faults        \* faults so far

rows    == <<row, groupStatus>>
queue   == <<bull, attempts, stalls, owner, undispatched>>
slots   == <<pc, job, tries, outcome, result>>
pass    == <<recovery, found>>
outbox  == <<cancel, cancelRow, cancels>>
callers == <<pass, outbox, dsn>>
history == <<accepted, bounced, withdrawn>>
vars    == <<rows, queue, slots, callers, history, faults>>

BullState == {"none", "waiting", "delayed", "active", "completed", "failed"}

PC == { "idle", "read", "replay", "admit", "suppress", "prepare", "smtp",
        "accepted", "record", "bookkeep", "ambiguous", "failed", "settle", "finish" }

\* The slot owns the row: its claim (email-sending.worker.ts:160) succeeded and
\* it has not written an outcome yet.
Claimed == {"prepare", "smtp", "accepted", "record", "ambiguous", "failed"}

TypeOK ==
    /\ row \in [Jobs -> EmailJobStatus]
    /\ groupStatus \in EmailJobStatus \union {"NONE"}
    /\ bull \in [Jobs -> BullState]
    /\ attempts \in [Jobs -> 0..MaxAttempts]
    /\ stalls \in [Jobs -> 0..MaxStalls]
    /\ owner \in [Jobs -> Workers \union {NoWorker}]
    /\ undispatched \subseteq Jobs
    /\ pc \in [Workers -> PC]
    /\ job \in [Workers -> Jobs \union {NoJob}]
    /\ tries \in [Workers -> 0..MaxAttempts]
    /\ outcome \in [Workers -> {"SENT", "FAILED", "UNCERTAIN"}]
    /\ result \in [Workers -> {"completed", "failed", "held"}]
    /\ recovery \in {"idle", "mark", "groups", "add"}
    /\ found \subseteq Jobs
    /\ cancel \in {"idle", "update", "settle", "remove"}
    /\ cancelRow \in Jobs \union {NoJob}
    /\ cancels \in 0..MaxCancels
    /\ dsn \subseteq Jobs
    /\ accepted \in [Jobs -> Nat]
    /\ bounced \in [Jobs -> 0..MaxBounces]
    /\ withdrawn \subseteq Jobs
    /\ faults \in 0..MaxFaults

GroupAggregate == Aggregate({row[e] : e \in Group})

Init ==
    /\ row = [e \in Jobs |-> "QUEUED"]
    /\ groupStatus = IF Group = {} THEN "NONE" ELSE "QUEUED"
    /\ bull = [e \in Jobs |-> "none"]
    /\ attempts = [e \in Jobs |-> 0]
    /\ stalls = [e \in Jobs |-> 0]
    /\ owner = [e \in Jobs |-> NoWorker]
    /\ undispatched = Jobs
    /\ pc = [w \in Workers |-> "idle"]
    /\ job = [w \in Workers |-> NoJob]
    /\ tries = [w \in Workers |-> 0]
    /\ outcome = [w \in Workers |-> "UNCERTAIN"]
    /\ result = [w \in Workers |-> "completed"]
    /\ recovery = "idle"
    /\ found = {}
    /\ cancel = "idle"
    /\ cancelRow = NoJob
    /\ cancels = 0
    /\ dsn = {}
    /\ accepted = [e \in Jobs |-> 0]
    /\ bounced = [e \in Jobs |-> 0]
    /\ withdrawn = {}
    /\ faults = 0

Fault(kind) ==
    /\ kind \in FaultKinds
    /\ faults < MaxFaults
    /\ faults' = faults + 1
NoFault == UNCHANGED faults

---------------------------------------------------------------------------
(* The queue. *)

\* add with the job id email-<row>: a no-op while BullMQ retains a job of that
\* id, in whatever state, and no caller asks for completed or failed jobs to be
\* removed.
AddBull(added) ==
    bull' = [e \in Jobs |-> IF e \in added /\ bull[e] = "none" THEN "waiting" ELSE bull[e]]

\* transactionalEmailService.enqueue, after the commit that created the row.
\* The API may die before it, so no fairness is assumed of it.
Enqueue(e) ==
    /\ e \in undispatched
    /\ undispatched' = undispatched \ {e}
    /\ IF row[e] = "QUEUED" THEN AddBull({e}) ELSE UNCHANGED bull
    /\ UNCHANGED <<rows, attempts, stalls, owner, slots, callers, history>>
    /\ NoFault

\* The delay of a held or failed attempt is over.
Promote(e) ==
    /\ bull[e] = "delayed"
    /\ bull' = [bull EXCEPT ![e] = "waiting"]
    /\ UNCHANGED <<rows, attempts, stalls, owner, undispatched, slots, callers, history>>
    /\ NoFault

\* A slot is handed a job, and the lock with it.
Take(w, e) ==
    /\ pc[w] = "idle"
    /\ bull[e] = "waiting"
    /\ bull' = [bull EXCEPT ![e] = "active"]
    /\ owner' = [owner EXCEPT ![e] = w]
    /\ pc' = [pc EXCEPT ![w] = "read"]
    /\ job' = [job EXCEPT ![w] = e]
    /\ tries' = [tries EXCEPT ![w] = attempts[e]]
    /\ UNCHANGED <<rows, attempts, stalls, undispatched, outcome, result, callers, history>>
    /\ NoFault

\* BullMQ finds an active job whose lock ran out: after a crash always, under a
\* slot that is alive but did not renew it as a fault.  The job is handed out
\* again, or given up after MaxStalls times.
LockExpires(e) ==
    /\ bull[e] = "active"
    /\ bull' = [bull EXCEPT ![e] = IF stalls[e] < MaxStalls THEN "waiting" ELSE "failed"]
    /\ stalls' = [stalls EXCEPT ![e] = IF @ < MaxStalls THEN @ + 1 ELSE @]
    /\ owner' = [owner EXCEPT ![e] = NoWorker]
    /\ UNCHANGED <<rows, attempts, undispatched, slots, callers, history>>
    /\ IF owner[e] = NoWorker THEN NoFault ELSE Fault("stall")

\* Redis comes back without its data; it takes the locks of the slots at work
\* with it, so these outlive them.
RedisLoss ==
    /\ Fault("redis")
    /\ "stall" \in FaultKinds \/ \A e \in Jobs : owner[e] = NoWorker
    /\ bull' = [e \in Jobs |-> "none"]
    /\ attempts' = [e \in Jobs |-> 0]
    /\ stalls' = [e \in Jobs |-> 0]
    /\ owner' = [e \in Jobs |-> NoWorker]
    /\ UNCHANGED <<rows, undispatched, slots, callers, history>>

\* queueOperations.retry: an operator puts a failed job back.
Retry(e) ==
    /\ bull[e] = "failed"
    /\ bull' = [bull EXCEPT ![e] = "waiting"]
    /\ UNCHANGED <<rows, attempts, stalls, owner, undispatched, slots, callers, history>>
    /\ NoFault

---------------------------------------------------------------------------
(* The handler of the email-sending worker. *)

Goto(w, to) == pc' = [pc EXCEPT ![w] = to]

\* The handler is about to leave its outer try, by return ("completed"), by a
\* throw ("failed") or by DelayedError ("held"); its finally is next.
Leave(w, how) ==
    /\ Goto(w, "settle")
    /\ result' = [result EXCEPT ![w] = how]

\* findUnique of the row.  A decided row ends the job before the try, so without
\* the finally; PROCESSING means that an earlier execution never came back.
ReadRow(w) ==
    /\ pc[w] = "read"
    /\ \/ /\ row[job[w]] \in Decided
          /\ Goto(w, "finish")
          /\ result' = [result EXCEPT ![w] = "completed"]
       \/ /\ row[job[w]] = "PROCESSING"
          /\ Goto(w, "replay")
          /\ UNCHANGED result
       \/ /\ row[job[w]] \in Claimable
          /\ Goto(w, "admit")
          /\ UNCHANGED result
    /\ UNCHANGED <<rows, queue, job, tries, outcome, callers, history>>
    /\ NoFault

\* The read fails, before the try.
ReadFails(w) ==
    /\ pc[w] = "read"
    /\ Fault("call")
    /\ Goto(w, "finish")
    /\ result' = [result EXCEPT ![w] = "failed"]
    /\ UNCHANGED <<rows, queue, job, tries, outcome, callers, history>>

\* Mutant: a replay takes the row as unsent and puts it back.
ReplayRequeues(w) ==
    /\ pc[w] = "replay"
    /\ row' = [row EXCEPT ![job[w]] = IF @ = "PROCESSING" THEN "QUEUED" ELSE @]
    /\ Leave(w, "completed")
    /\ UNCHANGED <<groupStatus, queue, job, tries, outcome, callers, history>>
    /\ NoFault

\* A replay cannot know whether SMTP took the message, so it never sends.
Replay(w) ==
    /\ pc[w] = "replay"
    /\ row' = [row EXCEPT ![job[w]] = IF @ = "PROCESSING" THEN "UNCERTAIN" ELSE @]
    /\ Leave(w, "completed")
    /\ UNCHANGED <<groupStatus, queue, job, tries, outcome, callers, history>>
    /\ NoFault

\* The campaign is paused or the recipient's domain is over its cap: the job is
\* moved back to delayed, which needs the lock, and no attempt is consumed.
Hold(w) ==
    /\ pc[w] = "admit"
    /\ LET e == job[w] IN
       IF owner[e] = w
       THEN /\ bull' = [bull EXCEPT ![e] = "delayed"]
            /\ owner' = [owner EXCEPT ![e] = NoWorker]
       ELSE UNCHANGED <<bull, owner>>
    /\ Leave(w, "held")
    /\ UNCHANGED <<rows, attempts, stalls, undispatched, job, tries, outcome, callers, history>>
    /\ NoFault

\* The row lost its SMTP connection, or a call before the claim fails: the
\* attempt is consumed and the row stays as it is.
AdmitFails(w) ==
    /\ pc[w] = "admit"
    /\ Fault("call")
    /\ Leave(w, "failed")
    /\ UNCHANGED <<rows, queue, job, tries, outcome, callers, history>>

\* isSuppressed answered yes; the list may change at any time.
FindSuppressed(w) ==
    /\ pc[w] = "admit"
    /\ Goto(w, "suppress")
    /\ UNCHANGED <<rows, queue, job, tries, outcome, result, callers, history>>
    /\ NoFault

\* The row is written without a condition on what it became meanwhile.
WriteSuppressed(w) ==
    /\ pc[w] = "suppress"
    /\ row' = [row EXCEPT ![job[w]] = "SUPPRESSED"]
    /\ Leave(w, "completed")
    /\ UNCHANGED <<groupStatus, queue, job, tries, outcome, callers, history>>
    /\ NoFault

\* Mutant: the claim trusts what was read of the row.
ClaimUnchecked(w) ==
    /\ pc[w] = "admit"
    /\ row' = [row EXCEPT ![job[w]] = "PROCESSING"]
    /\ Goto(w, "prepare")
    /\ UNCHANGED <<groupStatus, queue, job, tries, outcome, result, callers, history>>
    /\ NoFault

\* The compare-and-set that makes this slot the row's only sender.
Claim(w) ==
    /\ pc[w] = "admit"
    /\ IF row[job[w]] \in Claimable
       THEN /\ row' = [row EXCEPT ![job[w]] = "PROCESSING"]
            /\ Goto(w, "prepare")
            /\ UNCHANGED result
       ELSE /\ Leave(w, "completed")
            /\ UNCHANGED row
    /\ UNCHANGED <<groupStatus, queue, job, tries, outcome, callers, history>>
    /\ NoFault

\* Credentials, attachments and headers are ready: provider.send begins.
StartSmtp(w) ==
    /\ pc[w] = "prepare"
    /\ Goto(w, "smtp")
    /\ UNCHANGED <<rows, queue, job, tries, outcome, result, callers, history>>
    /\ NoFault

\* An error that shows nothing was accepted: any error before provider.send, and
\* of provider.send a failed connection, a refused command or a 4xx/5xx reply.
FailSafely(w) ==
    /\ pc[w] \in {"prepare", "smtp"}
    /\ Goto(w, "failed")
    /\ UNCHANGED <<rows, queue, job, tries, outcome, result, callers, history>>
    /\ NoFault

\* The SMTP server takes the message; its reply is still on the way.
ServerAccepts(w) ==
    /\ pc[w] = "smtp"
    /\ accepted' = [accepted EXCEPT ![job[w]] = @ + 1]
    /\ Goto(w, "accepted")
    /\ UNCHANGED <<rows, queue, job, tries, outcome, result, callers, bounced, withdrawn>>
    /\ NoFault

\* provider.send returns: SENT if a recipient was accepted; otherwise FAILED if
\* one was rejected, UNCERTAIN if the result names none.
SmtpReturns(w) ==
    /\ \/ pc[w] = "accepted" /\ outcome' = [outcome EXCEPT ![w] = "SENT"]
       \/ /\ pc[w] = "smtp"
          /\ \E o \in {"FAILED", "UNCERTAIN"} : outcome' = [outcome EXCEPT ![w] = o]
    /\ Goto(w, "record")
    /\ UNCHANGED <<rows, queue, job, tries, result, callers, history>>
    /\ NoFault

\* The connection breaks after DATA may have been sent, or the outcome cannot be
\* written: the handler cannot tell whether the message was accepted.
BecomeAmbiguous(w) ==
    /\ pc[w] \in {"smtp", "accepted", "record"}
    /\ IF pc[w] = "record" THEN Fault("call") ELSE NoFault
    /\ Goto(w, "ambiguous")
    /\ UNCHANGED <<rows, queue, job, tries, outcome, result, callers, history>>

RecordOutcome(w) ==
    /\ pc[w] = "record"
    /\ row' = [row EXCEPT ![job[w]] = outcome[w]]
    /\ Goto(w, "bookkeep")
    /\ UNCHANGED <<groupStatus, queue, job, tries, outcome, result, callers, history>>
    /\ NoFault

\* Suppressions, webhooks and the campaign run, once the outcome is written.
\* Their failure fails the attempt and leaves the row alone.
Bookkeep(w) ==
    /\ pc[w] = "bookkeep"
    /\ \/ Leave(w, "completed") /\ NoFault
       \/ Leave(w, "failed") /\ Fault("call")
    /\ UNCHANGED <<rows, queue, job, tries, outcome, callers, history>>

\* The write of the ambiguous outcome, which may fail as well.
MarkUncertain(w) ==
    /\ pc[w] = "ambiguous"
    /\ \/ /\ row' = [row EXCEPT ![job[w]] = "UNCERTAIN"]
          /\ Leave(w, "completed")
          /\ NoFault
       \/ /\ UNCHANGED row
          /\ Leave(w, "failed")
          /\ Fault("call")
    /\ UNCHANGED <<groupStatus, queue, job, tries, outcome, callers, history>>

\* The write of a failed attempt: QUEUED while attempts are left, FAILED on the
\* last, whose webhook and run follow.  Either way the error is thrown on.
RecordFailure(w) ==
    /\ pc[w] = "failed"
    /\ \/ /\ row' = [row EXCEPT ![job[w]] =
                        IF tries[w] + 1 >= MaxAttempts THEN "FAILED" ELSE "QUEUED"]
          /\ NoFault
       \/ /\ UNCHANGED row
          /\ Fault("call")
    /\ Leave(w, "failed")
    /\ UNCHANGED <<groupStatus, queue, job, tries, outcome, callers, history>>

SettleGroup(e) ==
    groupStatus' = IF e \in Group THEN GroupAggregate ELSE groupStatus

\* The finally: settleSendGroup, one transaction under the group's lock.
Settle(w) ==
    /\ pc[w] = "settle"
    /\ \/ /\ SettleGroup(job[w])
          /\ NoFault
          /\ UNCHANGED result
       \/ /\ UNCHANGED groupStatus
          /\ result' = [result EXCEPT ![w] = "failed"]
          /\ Fault("call")
    /\ Goto(w, "finish")
    /\ UNCHANGED <<row, queue, job, tries, outcome, callers, history>>

\* The slot is free; what it remembered is gone.
Release(w) ==
    /\ Goto(w, "idle")
    /\ job' = [job EXCEPT ![w] = NoJob]
    /\ tries' = [tries EXCEPT ![w] = 0]
    /\ outcome' = [outcome EXCEPT ![w] = "UNCERTAIN"]
    /\ result' = [result EXCEPT ![w] = "completed"]

\* The handler's promise settles.  BullMQ moves the job only for the slot whose
\* token it carries; for any other the call fails and nothing moves.
Finish(w) ==
    /\ pc[w] = "finish"
    /\ LET e == job[w]
           left == attempts[e] + 1 < MaxAttempts
       IN  IF owner[e] = w
           THEN /\ bull' = [bull EXCEPT ![e] =
                              IF result[w] = "completed" THEN "completed"
                              ELSE IF left THEN "delayed" ELSE "failed"]
                /\ attempts' = [attempts EXCEPT ![e] =
                              IF result[w] # "completed" /\ @ < MaxAttempts THEN @ + 1 ELSE @]
                /\ owner' = [owner EXCEPT ![e] = NoWorker]
           ELSE UNCHANGED <<bull, attempts, owner>>
    /\ Release(w)
    /\ UNCHANGED <<rows, stalls, undispatched, callers, history>>
    /\ NoFault

\* The worker process dies; the lock dies with it.
Crash(w) ==
    /\ pc[w] # "idle"
    /\ Fault("crash")
    /\ Release(w)
    /\ owner' = [e \in Jobs |-> IF owner[e] = w THEN NoWorker ELSE owner[e]]
    /\ UNCHANGED <<rows, bull, attempts, stalls, undispatched, callers, history>>

---------------------------------------------------------------------------
(* recoverQueuedWork: at start and then every 30 seconds. *)

RecoverRead ==
    /\ recovery = "idle"
    /\ recovery' = "mark"
    /\ found' = {e \in Jobs : row[e] = "QUEUED"}
    /\ UNCHANGED <<rows, queue, slots, outbox, dsn, history>>
    /\ NoFault

\* Mutant: rows in PROCESSING for 15 minutes are sent again.
RecoverRequeue(old) ==
    /\ recovery = "mark"
    /\ old \subseteq {e \in Jobs : row[e] = "PROCESSING"}
    /\ row' = [e \in Jobs |-> IF e \in old THEN "QUEUED" ELSE row[e]]
    /\ recovery' = "groups"
    /\ UNCHANGED <<groupStatus, found, queue, slots, outbox, dsn, history>>
    /\ NoFault

\* Rows in PROCESSING for 15 minutes become UNCERTAIN: any row in PROCESSING may
\* have been there that long, whether its slot died or is slow.
RecoverMark(old) ==
    /\ recovery = "mark"
    /\ old \subseteq {e \in Jobs : row[e] = "PROCESSING"}
    /\ row' = [e \in Jobs |-> IF e \in old THEN "UNCERTAIN" ELSE row[e]]
    /\ recovery' = "groups"
    /\ UNCHANGED <<groupStatus, found, queue, slots, outbox, dsn, history>>
    /\ NoFault

\* Mutant: the pass settles no group.
RecoverNoGroups ==
    /\ recovery = "groups"
    /\ recovery' = "add"
    /\ UNCHANGED <<rows, found, queue, slots, outbox, dsn, history>>
    /\ NoFault

\* Groups whose summary is still pending are settled again.
RecoverGroups ==
    /\ recovery = "groups"
    /\ groupStatus' = IF groupStatus \in Pending THEN GroupAggregate ELSE groupStatus
    /\ recovery' = "add"
    /\ UNCHANGED <<row, found, queue, slots, outbox, dsn, history>>
    /\ NoFault

\* Mutant: the pass enqueues nothing.
RecoverAddNone ==
    /\ recovery = "add"
    /\ recovery' = "idle"
    /\ found' = {}
    /\ UNCHANGED <<rows, queue, slots, outbox, dsn, history>>
    /\ NoFault

\* The rows read at the start are enqueued, in the state they had then.
RecoverAdd ==
    /\ recovery = "add"
    /\ AddBull(found)
    /\ recovery' = "idle"
    /\ found' = {}
    /\ UNCHANGED <<rows, attempts, stalls, owner, undispatched, slots, outbox, dsn, history>>
    /\ NoFault

\* The pass throws, or its process dies; the next one starts over.
RecoverFails ==
    /\ recovery # "idle"
    /\ Fault("crash") \/ Fault("call")
    /\ recovery' = "idle"
    /\ found' = {}
    /\ UNCHANGED <<rows, queue, slots, outbox, dsn, history>>

---------------------------------------------------------------------------
(* outboxService.cancel, and the bounce report. *)

GroupOf(e) == IF e \in Group THEN Group ELSE {e}

\* What is read is the group's status on the primary row and the row's own on any
\* other; which row of the group is the primary is left open.
CancelCheck(e) ==
    /\ cancel = "idle"
    /\ cancels < MaxCancels
    /\ \E shown \in {row[e]} \union (IF e \in Group THEN {groupStatus} ELSE {}) :
          shown \in Cancellable
    /\ cancel' = "update"
    /\ cancelRow' = e
    /\ cancels' = cancels + 1
    /\ UNCHANGED <<rows, queue, slots, pass, dsn, history>>
    /\ NoFault

\* Mutant: a row is cancelled under the slot that sends it.
CancelAnyPending ==
    /\ cancel = "update"
    /\ LET hit == {e \in GroupOf(cancelRow) : row[e] \in Pending} IN
       /\ row' = [e \in Jobs |-> IF e \in hit THEN "CANCELLED" ELSE row[e]]
       /\ withdrawn' = withdrawn \union hit
       /\ cancel' = IF cancelRow \in Group THEN "settle" ELSE "remove"
    /\ UNCHANGED <<groupStatus, cancelRow, cancels, queue, slots, pass, dsn, accepted, bounced>>
    /\ NoFault

\* The conditional write; with no row hit the request is refused.
CancelUpdate ==
    /\ cancel = "update"
    /\ LET hit == {e \in GroupOf(cancelRow) : row[e] \in Cancellable} IN
       /\ row' = [e \in Jobs |-> IF e \in hit THEN "CANCELLED" ELSE row[e]]
       /\ withdrawn' = withdrawn \union hit
       /\ IF hit = {}
          THEN cancel' = "idle" /\ cancelRow' = NoJob
          ELSE /\ cancel' = IF cancelRow \in Group THEN "settle" ELSE "remove"
               /\ UNCHANGED cancelRow
    /\ UNCHANGED <<groupStatus, cancels, queue, slots, pass, dsn, accepted, bounced>>
    /\ NoFault

\* Mutant: a cancellation leaves the summary to the next settlement.
CancelNoSettle ==
    /\ cancel = "settle"
    /\ cancel' = "remove"
    /\ UNCHANGED <<rows, cancelRow, cancels, queue, slots, pass, dsn, history>>
    /\ NoFault

CancelSettle ==
    /\ cancel = "settle"
    /\ groupStatus' = GroupAggregate
    /\ cancel' = "remove"
    /\ UNCHANGED <<row, cancelRow, cancels, queue, slots, pass, dsn, history>>
    /\ NoFault

\* The queue job is removed unless a slot holds it, which the code ignores; the
\* other rows of a group keep theirs.
CancelRemove ==
    /\ cancel = "remove"
    /\ LET e == cancelRow IN
       IF bull[e] = "active"
       THEN UNCHANGED <<bull, attempts, stalls>>
       ELSE /\ bull' = [bull EXCEPT ![e] = "none"]
            /\ attempts' = [attempts EXCEPT ![e] = 0]
            /\ stalls' = [stalls EXCEPT ![e] = 0]
    /\ cancel' = "idle"
    /\ cancelRow' = NoJob
    /\ UNCHANGED <<rows, cancels, owner, undispatched, slots, pass, dsn, history>>
    /\ NoFault

\* Mutant: a bounce fails an UNCERTAIN row as well.
BounceUncertain(e) ==
    /\ row[e] \in {"SENT", "UNCERTAIN"}
    /\ bounced[e] < MaxBounces
    /\ row' = [row EXCEPT ![e] = "FAILED"]
    /\ bounced' = [bounced EXCEPT ![e] = @ + 1]
    /\ dsn' = dsn \union {e}
    /\ UNCHANGED <<groupStatus, queue, slots, pass, outbox, accepted, withdrawn>>
    /\ NoFault

\* applyDsnBounce: only a SENT row turns FAILED.
Bounce(e) ==
    /\ row[e] = "SENT"
    /\ bounced[e] < MaxBounces
    /\ row' = [row EXCEPT ![e] = "FAILED"]
    /\ bounced' = [bounced EXCEPT ![e] = @ + 1]
    /\ dsn' = dsn \union {e}
    /\ UNCHANGED <<groupStatus, queue, slots, pass, outbox, accepted, withdrawn>>
    /\ NoFault

BounceSettle(e) ==
    /\ e \in dsn
    /\ SettleGroup(e)
    /\ dsn' = dsn \ {e}
    /\ UNCHANGED <<row, queue, slots, pass, outbox, history>>
    /\ NoFault

---------------------------------------------------------------------------

Step(w) ==
    \/ ReadRow(w) \/ Replay(w) \/ Hold(w) \/ FindSuppressed(w) \/ WriteSuppressed(w)
    \/ Claim(w) \/ StartSmtp(w) \/ FailSafely(w) \/ ServerAccepts(w) \/ SmtpReturns(w)
    \/ BecomeAmbiguous(w) \/ RecordOutcome(w) \/ Bookkeep(w) \/ MarkUncertain(w)
    \/ RecordFailure(w) \/ Settle(w) \/ Finish(w)

Recover ==
    \/ RecoverRead
    \/ \E old \in SUBSET Jobs : RecoverMark(old)
    \/ RecoverGroups
    \/ RecoverAdd

Next ==
    \/ \E w \in Workers : \/ Step(w) \/ ReadFails(w) \/ AdmitFails(w) \/ Crash(w)
                          \/ \E e \in Jobs : Take(w, e)
    \/ \E e \in Jobs : \/ Enqueue(e) \/ Promote(e) \/ LockExpires(e) \/ Retry(e)
                       \/ CancelCheck(e) \/ Bounce(e) \/ BounceSettle(e)
    \/ RedisLoss
    \/ Recover \/ RecoverFails
    \/ CancelUpdate \/ CancelSettle \/ CancelRemove

Spec == Init /\ [][Next]_vars

---------------------------------------------------------------------------
(* Safety. *)

\* The server never holds two live copies of one message: however often the queue
\* job is handed out, by stalls, crashes, lost Redis data, retries and recovery,
\* SMTP takes the message again only after a bounce reopened it
\* (email-sending.worker.ts:66-74, 160-167, 404-454).
AtMostOneCopy == \A e \in Jobs : accepted[e] <= bounced[e] + 1

\* Two slots never own one row, although any number of them may be executing its
\* queue job (email-sending.worker.ts:157-167).
SoleSender ==
    \A v, w \in Workers :
        pc[v] \in Claimed /\ pc[w] \in Claimed /\ job[v] = job[w] => v = w

\* The row tells the truth about the server: a row that may be sent (again), or is
\* reported withdrawn, has no copy there, and a row reported SENT has one.  The
\* unconditional writes of the handler make this a matter of who is left to write.
TruthfulRow ==
    \A e \in Jobs :
        /\ row[e] \in Claimable \union {"CANCELLED"} => accepted[e] = bounced[e]
        /\ row[e] = "SENT" => accepted[e] = bounced[e] + 1

\* Once the Outbox told a user that a row is cancelled, SMTP does not take its
\* message, whatever slots read of the row before (outbox/service.ts:89-98).
WithdrawnNotSent ==
    [][\A e \in withdrawn : accepted'[e] = accepted[e]]_vars

\* What a claiming slot knows of the server.
SenderKnows ==
    \A w \in Workers :
        /\ pc[w] \in {"prepare", "smtp", "failed"} => accepted[job[w]] = bounced[job[w]]
        /\ pc[w] = "accepted" => accepted[job[w]] = bounced[job[w]] + 1
        /\ pc[w] = "record" =>
              accepted[job[w]] = bounced[job[w]] + (IF outcome[w] = "SENT" THEN 1 ELSE 0)

\* A claimed row is not one that another slot, a cancellation or a bounce acts on.
OwnedRow ==
    \A w \in Workers :
        pc[w] \in Claimed => /\ row[job[w]] \in {"PROCESSING", "UNCERTAIN", "SUPPRESSED"}
                             /\ job[w] \notin withdrawn

\* The cancelled rows stay out of reach of the claim.
WithdrawnRow == \A e \in withdrawn : row[e] \in {"CANCELLED", "SUPPRESSED"}

\* A slot and a cancellation at work name their row; a group's summary exists and
\* is asked for only where there is a group.
AtWork ==
    /\ \A w \in Workers : pc[w] # "idle" => job[w] \in Jobs
    /\ cancel # "idle" => cancelRow \in Jobs
    /\ cancel = "settle" => Group # {}
    /\ Group = {} => groupStatus = "NONE"

\* The inductive invariant: what the four properties above rest on.
DeliveryInv ==
    /\ TypeOK
    /\ AtWork
    /\ \A e \in Jobs : accepted[e] \in {bounced[e], bounced[e] + 1}
    /\ SoleSender
    /\ SenderKnows
    /\ OwnedRow
    /\ WithdrawnRow
    /\ TruthfulRow

\* The refinement mapping.  A FAILED row is ready: its job can be retried.
Phase(e) ==
    IF \E w \in Workers : pc[w] \in Claimed /\ job[w] = e THEN "claimed"
    ELSE IF row[e] \in Claimable THEN "ready" ELSE "closed"

Ledger == INSTANCE SendLedger
            WITH Messages <- Jobs,
                 phase <- [e \in Jobs |-> Phase(e)],
                 copies <- [e \in Jobs |-> accepted[e] - bounced[e]]

\* Every step of the pipeline is a step of the ledger or none: claims, releases,
\* closings and reopenings, and nothing else, decide who may send what.
KeepsLedger == Ledger!Spec

Quiet ==
    /\ \A w \in Workers : pc[w] = "idle"
    /\ recovery = "idle" /\ cancel = "idle" /\ dsn = {}

\* Where nothing failed, the summary of a group agrees with its deliveries as soon
\* as nobody is at work on them: claims, outcomes, bounces, cancellations and the
\* 15-minute sweep each settle after they write, in whatever order they overlap
\* (send-group.ts:5-23, outbox/service.ts:140-162).
SummaryAgrees ==
    Quiet /\ faults = 0 /\ Group # {} => groupStatus = GroupAggregate

---------------------------------------------------------------------------
(* Liveness. *)

\* The worker process runs and restarts, so each slot takes its next step;
\* BullMQ is FIFO, so a waiting job is not passed over for ever; a dead slot's
\* lock expires; the 30-second timer starts a pass and the pass goes on.  A row
\* that stays in PROCESSING is one day 15 minutes old at a pass.  A hold is not for
\* ever: campaigns are resumed and windows pass.  Nothing is assumed of
\* the API, the users, the operator and the SMTP server's answers.
Fairness ==
    /\ \A w \in Workers : WF_vars(Step(w))
    /\ \A e \in Jobs :
          /\ WF_vars(Promote(e))
          /\ SF_vars(\E w \in Workers : Take(w, e))
          /\ WF_vars(owner[e] = NoWorker /\ LockExpires(e))
          /\ SF_vars(\E w \in Workers : job[w] = e /\ (Claim(w) \/ FindSuppressed(w)))
          /\ SF_vars(\E old \in SUBSET Jobs : e \in old /\ RecoverMark(old))
    /\ WF_vars(Recover)

FairSpec == Spec /\ Fairness

\* "Durable queued jobs recover through periodic worker dispatch": a row the system
\* accepted does not stay QUEUED or PROCESSING for ever
\* (recovery.ts:133-151, 50-56).
QueuedLeaves == \A e \in Jobs : row[e] \in {"QUEUED", "PROCESSING"} ~> row[e] \notin Pending

\* A group whose deliveries are all decided does not stay in the Outbox
\* (recovery.ts:63-77).
SummaryRecovers ==
    groupStatus \in Pending /\ (\A e \in Group : row[e] \notin Pending)
        ~> groupStatus \notin Pending \/ \E e \in Group : row[e] \in Pending
===========================================================================
